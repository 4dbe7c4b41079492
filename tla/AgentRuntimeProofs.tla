------------------------- MODULE AgentRuntimeProofs -------------------------
(***************************************************************************)
(* Theorems about AgentRuntime: its types, that worker facts name threads  *)
(* that exist, that calls are accounted for between engine, worker and     *)
(* mailbox, and that cancellations reach their trees.                      *)
(*                                                                         *)
(* None is inductive alone.  StagesOK says what a driver has at hand where *)
(* it is.  RegistryOK keeps what drivers, plans and calls name recorded    *)
(* until the runtime is destroyed.  HandsOK and MailOK say that a call is  *)
(* in the hands of one driver or in one message of one mailbox, and that   *)
(* requests come before the worker and results after it: a request or a    *)
(* result is never delivered twice.  With that and EnginesOK, AccountsOK   *)
(* is kept call by call: a step changes what one call is accounted for by, *)
(* and leaves the others alone (Calm).  PlansOK says that what is          *)
(* signalled is also going to be told, and ScopesOK that whatever is left  *)
(* active of the tree a cancellation began with is ahead of it.            *)
(***************************************************************************)
EXTENDS AgentRuntime, FiniteSetTheorems, SequenceTheorems, TLAPS

Stage == {"idle", "spawning", "delivering", "notifying", "creating", "recording", "starting",
          "refusing", "admitting", "looping", "pumping", "inspecting", "cancelling"}
AtCall == {"admitting", "creating", "recording", "starting", "refusing"}

\* A request or a result is about a call; a notice is not.
Letter == {m \in [kind : {"request", "result", "note", "cancel", "budget_exhausted", "complete"},
                  call : Call \cup {None},
                  result : {None, "ok", "error", "cancelled"}] :
             m.kind \in {"request", "result"} <=> m.call # None}
Item == {"visit", "signal", "engine"} \X Agent

Mailboxes == [Agent -> Seq(Letter)]
Plans == [Driver -> Seq(Item)]

Typed ==
    /\ TypeOK
    /\ mailbox \in Mailboxes
    /\ todo \in Plans
    /\ pc \in [Driver -> Stage]
    /\ message \in [Driver -> Letter \cup {None}]

StagesOK ==
    \A th \in Driver :
        /\ pc[th] \notin {"idle", "spawning"} => on[th] \in Agent
        /\ pc[th] \in AtCall => at[th] \in Call
        /\ pc[th] = "delivering" => message[th] \in Letter
        /\ pc[th] \in {"idle", "spawning"} => waits[th] = None

Up == runtime = "up"

RegistryOK ==
    Up =>
        /\ destroyed = {}
        /\ recorded \subseteq 1 .. born
        /\ \A c \in Call : owner[c] # None => owner[c] \in recorded
        /\ \A th \in Driver : on[th] # None => on[th] \in recorded
        /\ \A th \in Driver : \A i \in DOMAIN todo[th] : todo[th][i][2] \in recorded

\* The drivers that have a call in hand.
Holds(th, c) ==
    \/ pc[th] = "delivering" /\ message[th].call = c
    \/ pc[th] \in {"admitting", "creating", "recording", "refusing"} /\ at[th] = c

\* A request precedes the worker, and the worker its result.
InTime(m) == IF m.kind = "request" THEN worker[m.call] = "none"
                                  ELSE worker[m.call] \in {"leaving", "over"}

HolderOK(th) ==
    /\ pc[th] = "delivering" /\ message[th].call # None =>
          owner[message[th].call] = on[th] /\ InTime(message[th])
    /\ pc[th] \in AtCall => owner[at[th]] = on[th]
    /\ pc[th] \in {"admitting", "creating"} => worker[at[th]] = "none"
    /\ pc[th] = "refusing" => worker[at[th]] \in {"none", "orphan"}
    /\ pc[th] = "recording" => /\ worker[at[th]] = "waiting"
                               /\ at[th] \notin recordedWorker \cup started \cup signalled
    /\ pc[th] = "starting" => worker[at[th]] # "none"

HandsOK ==
    /\ \A th \in Driver : HolderOK(th)
    /\ \A c \in Call : \A th, u \in Driver : Holds(th, c) /\ Holds(u, c) => th = u
    /\ \A th, u \in Driver : pc[th] = "recording" /\ pc[u] = "starting" => at[th] # at[u]

LetterOK(a, i, c) ==
    /\ owner[c] = a
    /\ InTime(mailbox[a][i])
    /\ \A th \in Driver : ~Holds(th, c)
    /\ \A j \in DOMAIN mailbox[a] : mailbox[a][j].call = c => j = i

MailOK ==
    \A a \in Agent : \A i \in DOMAIN mailbox[a] : \A c \in Call :
        mailbox[a][i].call = c => LetterOK(a, i, c)

WorkersOK ==
    /\ WorkerFactsAreLive
    /\ \A c \in Call : worker[c] # "none" => owner[c] # None
    /\ \A c \in signalled : worker[c] \in Live
    /\ \A c \in started : worker[c] # "none"

\* An agent waits for calls that were made to it.
EnginesOK == \A a \in Agent : \A c \in pending[a] : owner[c] = a

Doomed(a) ==
    \/ status[a] # "active"
    \/ \E th \in Driver : \E i \in DOMAIN todo[th] : todo[th][i] = <<"engine", a>>

AccountOK(c) ==
    LET a == owner[c] IN
    /\ c \in pending[a] => InFlight(c) \/ worker[c] = "failing" \/ Doomed(a)
    /\ InFlight(c) => c \in pending[a]
    /\ c \in signalled => Doomed(a)

AccountsOK == Up => \A c \in Call : owner[c] # None /\ owner[c] \notin disturbed => AccountOK(c)

PlansOK ==
    \A th \in Driver :
        /\ pc[th] # "cancelling" => todo[th] = <<>>
        /\ \A i \in DOMAIN todo[th] :
              todo[th][i][1] = "signal" =>
                  i + 1 \in DOMAIN todo[th] /\ todo[th][i + 1] = <<"engine", todo[th][i][2]>>

Ahead(th, b) == \E i \in DOMAIN todo[th] :
    \/ todo[th][i] = <<"engine", b>>
    \/ todo[th][i][1] = "visit" /\ b \in Tree(todo[th][i][2])

ScopeOK(th) ==
    /\ scope[th] \subseteq recorded
    /\ pc[th] = "cancelling" =>
          \A b \in scope[th] : status[b] # "active" \/ b \in disturbed \/ Ahead(th, b)

ScopesOK == Up => \A th \in Driver : ScopeOK(th)
-----------------------------------------------------------------------------
(* Types.                                                                  *)

LEMMA Letters ==
    /\ \A c \in Call : Request(c) \in Letter
    /\ \A c \in Call, r \in {None, "ok", "error", "cancelled"} : Result(c, r) \in Letter
    /\ \A kind \in {"note", "cancel", "budget_exhausted", "complete"} : Notice(kind) \in Letter
    BY NoneAssumption DEF Letter, Request, Result, Notice, Message

Status == {"none", "active", "cancelled", "failed", "completed"}

Replies == {"failed", "rejected", "dispatch", "result", "cancelled", "completed", "noted"}
To(s, calls, reply) == [status |-> s, pending |-> calls, reply |-> reply]

\* What an engine that takes a letter comes to.
LEMMA Transitions ==
    ASSUME NEW m \in Letter, NEW s \in Status, NEW calls \in SUBSET Call
    PROVE  \E t \in Status, k \in SUBSET Call,
              r \in Replies :
           /\ Transition(m, s, calls) = To(t, k, r)
           /\ t = "active" => s = "active"
           /\ k = IF m.kind = "request" /\ s = "active" THEN calls \cup {m.call}
                  ELSE IF m.kind = "result" THEN calls \ {m.call} ELSE calls
           /\ r = "dispatch" => m.kind = "request" /\ s = "active" /\ m.call \notin calls
           /\ m.kind = "request" /\ s = "active" /\ m.call \notin calls => r = "dispatch"
           /\ m.kind \in {"cancel", "budget_exhausted"} => t # "active"
<1> DEFINE T == Transition(m, s, calls)
<1>1. /\ m.call \in Call \cup {None}
      /\ m.kind \in {"request", "result"} <=> m.call # None
      /\ m.kind \in {"request", "result", "note", "cancel", "budget_exhausted", "complete"}
    BY DEF Letter
<1>2. CASE m.kind = "request" /\ s # "active"
    <2>1. T = To("failed", calls, "failed")
        BY <1>2 DEF Transition, To
    <2>2. QED
        BY <1>1, <1>2, <2>1 DEF Status, Replies
<1>3. CASE m.kind = "request" /\ s = "active" /\ m.call \in calls
    <2>1. T = To(s, calls, "rejected")
        BY <1>3 DEF Transition, To
    <2>2. QED
        BY <1>1, <1>3, <2>1 DEF Status, Replies
<1>4. CASE m.kind = "request" /\ s = "active" /\ m.call \notin calls
    <2>1. T = To(s, calls \cup {m.call}, "dispatch")
        BY <1>4 DEF Transition, To
    <2>2. QED
        BY <1>1, <1>4, <2>1 DEF Status, Replies
<1>5. CASE m.kind = "result" /\ m.call \notin calls
    <2>1. T = To(s, calls, "rejected")
        BY <1>5 DEF Transition, To
    <2>2. QED
        BY <1>1, <1>5, <2>1 DEF Status, Replies
<1>6. CASE m.kind = "result" /\ m.call \in calls /\ m.result = "ok"
    <2>1. T = To(s, calls \ {m.call}, "result")
        BY <1>6 DEF Transition, To
    <2>2. QED
        BY <1>1, <1>6, <2>1 DEF Status, Replies
<1>7. CASE m.kind = "result" /\ m.call \in calls /\ m.result # "ok"
    <2>1. T = To(IF s = "cancelled" /\ m.result = "cancelled" THEN s ELSE "failed",
                 calls \ {m.call}, "failed")
        BY <1>7 DEF Transition, To
    <2>2. QED
        BY <1>1, <1>7, <2>1 DEF Status, Replies
<1>8. CASE m.kind = "cancel"
    <2>1. T = To("cancelled", calls, "cancelled")
        BY <1>8 DEF Transition, To
    <2>2. QED
        BY <1>1, <1>8, <2>1 DEF Status, Replies
<1>9. CASE m.kind = "budget_exhausted"
    <2>1. T = To("failed", calls, "failed")
        BY <1>9 DEF Transition, To
    <2>2. QED
        BY <1>1, <1>9, <2>1 DEF Status, Replies
<1>10. CASE m.kind = "complete"
    <2>1. T = To("completed", calls, "completed")
        BY <1>10 DEF Transition, To
    <2>2. QED
        BY <1>1, <1>10, <2>1 DEF Status, Replies
<1>11. CASE m.kind = "note"
    <2>1. T = To(s, calls, "noted")
        BY <1>11 DEF Transition, To
    <2>2. QED
        BY <1>1, <1>11, <2>1 DEF Status, Replies
<1>12. QED
    BY <1>1, <1>2, <1>3, <1>4, <1>5, <1>6, <1>7, <1>8, <1>9, <1>10, <1>11

Engines == status \in [Agent -> Status] /\ pending \in [Agent -> SUBSET Call]

LEMMA Taken ==
    ASSUME Engines, NEW a \in Agent, NEW m \in Letter, Take(a, m)
    PROVE  /\ Engines'
           /\ \A b \in Agent : b # a => status'[b] = status[b] /\ pending'[b] = pending[b]
           /\ status'[a] = "active" => status[a] = "active"
           /\ pending'[a] = IF m.kind = "request" /\ status[a] = "active" THEN pending[a] \cup {m.call}
                            ELSE IF m.kind = "result" THEN pending[a] \ {m.call} ELSE pending[a]
           /\ Reply(a, m) \in Replies
           /\ Reply(a, m) = "dispatch" <=>
                m.kind = "request" /\ status[a] = "active" /\ m.call \notin pending[a]
           /\ m.kind \in {"cancel", "budget_exhausted"} => status'[a] # "active"
<1>1. PICK old \in Status, calls \in SUBSET Call : old = status[a] /\ calls = pending[a]
    BY DEF Engines
<1>2. PICK s \in Status, k \in SUBSET Call, r \in Replies :
           /\ Transition(m, old, calls) = To(s, k, r)
           /\ s = "active" => old = "active"
           /\ k = IF m.kind = "request" /\ old = "active" THEN calls \cup {m.call}
                  ELSE IF m.kind = "result" THEN calls \ {m.call} ELSE calls
           /\ r = "dispatch" => m.kind = "request" /\ old = "active" /\ m.call \notin calls
           /\ m.kind = "request" /\ old = "active" /\ m.call \notin calls => r = "dispatch"
           /\ m.kind \in {"cancel", "budget_exhausted"} => s # "active"
    BY Transitions
<1>3. /\ Reply(a, m) = r
      /\ status' = [status EXCEPT ![a] = s]
      /\ pending' = [pending EXCEPT ![a] = k]
    BY <1>1, <1>2 DEF Take, Reply, To
<1>4. QED
    BY <1>1, <1>2, <1>3 DEF Engines

\* A mailbox that was sent m, if it had room.
Grown(a, m) ==
    /\ \A b \in Agent : \A i \in DOMAIN mailbox[b] :
          i \in DOMAIN mailbox'[b] /\ mailbox'[b][i] = mailbox[b][i]
    /\ \A b \in Agent : \A i \in DOMAIN mailbox'[b] :
          \/ i \in DOMAIN mailbox[b]
          \/ b = a /\ HasRoom(a) /\ i \notin DOMAIN mailbox[a] /\ mailbox'[b][i] = m
                   /\ i = Len(mailbox[a]) + 1
    /\ HasRoom(a) => \E i \in DOMAIN mailbox'[a] : mailbox'[a][i] = m

Boxed == /\ mailbox \in Mailboxes /\ recorded \in SUBSET Agent
         /\ \A a \in Agent : Len(mailbox[a]) <= MailboxSize

LEMMA Sent ==
    ASSUME Boxed, NEW a, NEW m \in Letter, SendTo(a, m)
    PROVE  /\ mailbox' \in Mailboxes
           /\ \A b \in Agent : Len(mailbox'[b]) <= MailboxSize
           /\ Grown(a, m)
<1>1. CASE HasRoom(a)
    <2>1. a \in Agent /\ mailbox' = [mailbox EXCEPT ![a] = Append(@, m)]
        BY <1>1 DEF SendTo, HasRoom, Boxed
    <2>2. mailbox[a] \in Seq(Letter)
        BY <2>1 DEF Boxed, Mailboxes
    <2> DEFINE s == mailbox[a]
    <2>3. /\ Append(s, m) \in Seq(Letter)
          /\ Len(Append(s, m)) = Len(s) + 1
          /\ DOMAIN Append(s, m) = 1 .. Len(s) + 1
          /\ DOMAIN s = 1 .. Len(s)
          /\ \A i \in 1 .. Len(s) : Append(s, m)[i] = s[i]
          /\ Append(s, m)[Len(s) + 1] = m
          /\ Len(s) \in Nat
        <3> HIDE DEF s
        <3> QED BY <2>2 DEF s
    <2>4. /\ mailbox'[a] = Append(s, m)
          /\ \A b \in Agent : b # a => mailbox'[b] = mailbox[b]
          /\ mailbox' \in Mailboxes
        BY <2>1, <2>3 DEF Boxed, Mailboxes
    <2>5. Len(s) < MailboxSize
        BY <1>1 DEF HasRoom
    <2>6. \A b \in Agent : Len(mailbox'[b]) <= MailboxSize
        BY <2>3, <2>4, <2>5, MailboxAssumption DEF Boxed
    <2> HIDE DEF s
    <2>7. Grown(a, m)
        <3>1. \A i \in DOMAIN s : i \in DOMAIN Append(s, m) /\ Append(s, m)[i] = s[i]
            BY <2>3
        <3>2. \A i \in DOMAIN Append(s, m) :
                 i \in DOMAIN s \/ (i = Len(s) + 1 /\ i \notin DOMAIN s /\ Append(s, m)[i] = m)
            BY <2>3
        <3>3. \E i \in DOMAIN Append(s, m) : Append(s, m)[i] = m
            BY <2>3
        <3> QED BY <1>1, <2>1, <2>4, <3>1, <3>2, <3>3 DEF Grown, s
    <2>8. QED
        BY <2>4, <2>6, <2>7
<1>2. CASE ~HasRoom(a)
    BY <1>2 DEF SendTo, Boxed, Grown
<1>3. QED
    BY <1>1, <1>2

LEMMA Told ==
    ASSUME Boxed, NEW a, NotifyParent(a)
    PROVE  /\ mailbox' \in Mailboxes
           /\ \A b \in Agent : Len(mailbox'[b]) <= MailboxSize
           /\ \E b : Grown(b, Notice("note"))
<1>1. CASE UNCHANGED mailbox /\ ~HasRoom(None)
    BY <1>1 DEF Boxed, Grown
<1>2. CASE SendTo(parent[a], Notice("note"))
    BY <1>2, Sent, Letters
<1>3. ~HasRoom(None)
    BY NoneAssumption DEF HasRoom, Boxed
<1>4. QED
    BY <1>1, <1>2, <1>3 DEF NotifyParent

\* What is taken from a mailbox: its first letter.
Shrunk(a) ==
    /\ 1 \in DOMAIN mailbox[a]
    /\ \A b \in Agent : b # a => mailbox'[b] = mailbox[b]
    /\ \A i \in DOMAIN mailbox'[a] : i + 1 \in DOMAIN mailbox[a] /\ mailbox'[a][i] = mailbox[a][i + 1]
    /\ \A i \in DOMAIN mailbox[a] :
          i = 1 \/ (i - 1 \in DOMAIN mailbox'[a] /\ mailbox'[a][i - 1] = mailbox[a][i])
    /\ \A b \in Agent : DOMAIN mailbox[b] \subseteq Nat \ {0} /\ DOMAIN mailbox'[b] \subseteq Nat \ {0}

LEMMA Received ==
    ASSUME Boxed, NEW th \in Driver, message \in [Driver -> Letter \cup {None}],
           NEW a \in Agent, Receive(th, a)
    PROVE  /\ mailbox' \in Mailboxes
           /\ \A b \in Agent : Len(mailbox'[b]) <= MailboxSize
           /\ Shrunk(a)
           /\ message' \in [Driver -> Letter \cup {None}]
           /\ message'[th] \in Letter
           /\ message'[th] = mailbox[a][1]
           /\ \A u \in Driver : u # th => message'[u] = message[u]
<1> DEFINE s == mailbox[a]
<1>1. s \in Seq(Letter) /\ s # <<>>
    BY DEF Boxed, Mailboxes, Receive
<1>2. /\ Tail(s) \in Seq(Letter)
      /\ Len(s) \in Nat /\ Len(s) >= 1
      /\ Len(Tail(s)) = Len(s) - 1
      /\ DOMAIN s = 1 .. Len(s)
      /\ DOMAIN Tail(s) = 1 .. Len(s) - 1
      /\ \A i \in 1 .. Len(s) - 1 : Tail(s)[i] = s[i + 1]
      /\ Head(s) = s[1] /\ s[1] \in Letter
    <2> HIDE DEF s
    <2> QED BY <1>1
<1>3. /\ mailbox' = [mailbox EXCEPT ![a] = Tail(s)]
      /\ message' = [message EXCEPT ![th] = Head(s)]
    BY DEF Receive
<1>4. /\ mailbox'[a] = Tail(s)
      /\ \A b \in Agent : b # a => mailbox'[b] = mailbox[b]
      /\ mailbox' \in Mailboxes
    BY <1>2, <1>3 DEF Boxed, Mailboxes
<1>5. \A b \in Agent : Len(mailbox'[b]) <= MailboxSize
    <2>1. Len(s) <= MailboxSize
        BY DEF Boxed
    <2> HIDE DEF s
    <2>2. Len(Tail(s)) <= MailboxSize
        BY <1>2, <2>1, MailboxAssumption
    <2>3. \A b \in Agent : b # a => Len(mailbox'[b]) <= MailboxSize
        BY <1>4 DEF Boxed
    <2> QED
        BY <1>4, <2>2, <2>3
<1> HIDE DEF s
<1>6. \A b \in Agent : DOMAIN mailbox[b] \subseteq Nat \ {0} /\ DOMAIN mailbox'[b] \subseteq Nat \ {0}
    BY <1>4 DEF Boxed, Mailboxes
<1>7. Shrunk(a)
    <2>1. \A i \in DOMAIN Tail(s) : i + 1 \in DOMAIN s /\ Tail(s)[i] = s[i + 1]
        BY <1>2
    <2>2. \A i \in DOMAIN s : i = 1 \/ (i - 1 \in DOMAIN Tail(s) /\ Tail(s)[i - 1] = s[i])
        BY <1>2
    <2>3. 1 \in DOMAIN s
        BY <1>2
    <2> QED BY <1>4, <1>6, <2>1, <2>2, <2>3 DEF Shrunk, s
<1>8. QED
    BY <1>2, <1>3, <1>4, <1>5, <1>7 DEF s

-----------------------------------------------------------------------------
(* Plans of cancellations.                                                 *)

Rank(B, b) == Cardinality({x \in B : x <= b})

LEMMA Ranks ==
    ASSUME NEW B \in SUBSET Agent
    PROVE  /\ Cardinality(B) \in Nat
           /\ \A b \in B : Rank(B, b) \in 1 .. Cardinality(B)
           /\ \A i \in 1 .. Cardinality(B) : \E b \in B : Rank(B, b) = i
           /\ \A b, c \in B : Rank(B, b) = Rank(B, c) => b = c
<1>1. IsFiniteSet(Agent) /\ Agent \subseteq Int
    BY FS_Interval, MaxAgentsAssumption DEF Agent
<1>2. IsFiniteSet(B) /\ Cardinality(B) \in Nat
    BY <1>1, FS_Subset, FS_CardinalityType
<1> DEFINE Upto(b) == {x \in B : x <= b}
<1>3. ASSUME NEW b \in B
      PROVE  IsFiniteSet(Upto(b)) /\ Rank(B, b) \in 1 .. Cardinality(B)
    <2>1. Upto(b) \in SUBSET B /\ b \in Upto(b)
        BY <1>1
    <2>2. IsFiniteSet(Upto(b)) /\ Cardinality(Upto(b)) <= Cardinality(B)
        BY <1>2, <2>1, FS_Subset
    <2>3. Cardinality(Upto(b)) \in Nat /\ Cardinality(Upto(b)) # 0
        BY <2>1, <2>2, FS_CardinalityType, FS_EmptySet
    <2> QED BY <1>2, <2>2, <2>3 DEF Rank
<1>4. ASSUME NEW b \in B, NEW c \in B, b < c PROVE Rank(B, b) # Rank(B, c)
    <2>1. b \in Int /\ c \in Int /\ \A x \in B : x \in Int
        BY <1>1
    <2>2. \A x \in B : x <= b => x <= c
        BY <1>4, <2>1
    <2>3. c <= c /\ ~(c <= b)
        BY <1>4, <2>1
    <2>4. Upto(b) \in SUBSET Upto(c) /\ c \in Upto(c) /\ c \notin Upto(b)
        BY <2>2, <2>3
    <2>5. Cardinality(Upto(b)) # Cardinality(Upto(c))
        BY <1>3, <2>4, FS_Subset
    <2> QED BY <2>5 DEF Rank
<1>5. ASSUME NEW b \in B, NEW c \in B, Rank(B, b) = Rank(B, c) PROVE b = c
    <2>1. b < c \/ c < b \/ b = c
        BY <1>1
    <2> QED BY <1>4, <1>5, <2>1
<1>6. ASSUME NEW i \in 1 .. Cardinality(B) PROVE \E b \in B : Rank(B, b) = i
    <2> DEFINE f == [b \in B |-> Rank(B, b)]
               N == 1 .. Cardinality(B)
    <2>1. f \in [B -> N]
        BY <1>3
    <2>2. f \in Injection(B, N)
        BY <1>5, <2>1 DEF Injection, IsInjective
    <2>3. IsFiniteSet(N) /\ Cardinality(N) = Cardinality(B)
        BY <1>2, FS_Interval
    <2> HIDE DEF f, N
    <2>4. f \in Surjection(B, N)
        BY <2>2, <2>3, FS_Injection
    <2>5. \A n \in N : \E b \in B : f[b] = n
        BY <2>4 DEF Surjection
    <2> QED BY <2>5 DEF f, N
<1>7. QED
    BY <1>2, <1>3, <1>5, <1>6

LEMMA Visiting ==
    ASSUME NEW B \in SUBSET Agent
    PROVE  /\ Visits(B) \in Seq(Item)
           /\ \A i \in DOMAIN Visits(B) : Visits(B)[i][1] = "visit" /\ Visits(B)[i][2] \in B
           /\ \A b \in B : \E i \in DOMAIN Visits(B) : Visits(B)[i] = <<"visit", b>>
<1> DEFINE n == Cardinality(B)
           At(i) == CHOOSE b \in B : Rank(B, b) = i
<1>1. n \in Nat
    BY Ranks
<1>2. \A i \in 1 .. n : At(i) \in B /\ Rank(B, At(i)) = i
    BY Ranks
<1>3. Visits(B) = [i \in 1 .. n |-> <<"visit", At(i)>>]
    BY DEF Visits, Rank
<1> HIDE DEF n, At
<1>4. \A i \in 1 .. n : <<"visit", At(i)>> \in Item
    BY <1>2 DEF Item
<1>5. Visits(B) \in Seq(Item)
    BY <1>1, <1>3, <1>4
<1>6. DOMAIN Visits(B) = 1 .. n /\ \A i \in 1 .. n : Visits(B)[i] = <<"visit", At(i)>>
    BY <1>3
<1>7. \A b \in B : Rank(B, b) \in 1 .. n /\ At(Rank(B, b)) = b
    <2>1. \A b \in B : Rank(B, b) \in 1 .. n
        BY Ranks DEF n
    <2>2. \A b, c \in B : Rank(B, b) = Rank(B, c) => b = c
        BY Ranks
    <2> QED BY <1>2, <2>1, <2>2
<1>8. QED
    BY <1>2, <1>5, <1>6, <1>7

LEMMA Joined ==
    ASSUME NEW S, NEW s \in Seq(S), NEW t \in Seq(S)
    PROVE  /\ s \o t \in Seq(S)
           /\ Len(s) \in Nat /\ Len(t) \in Nat
           /\ DOMAIN s = 1 .. Len(s) /\ DOMAIN t = 1 .. Len(t)
           /\ DOMAIN (s \o t) = 1 .. Len(s) + Len(t)
           /\ \A i \in 1 .. Len(s) : (s \o t)[i] = s[i]
           /\ \A i \in 1 .. Len(t) : (s \o t)[Len(s) + i] = t[i]
    OBVIOUS

\* What Then leaves: the new steps, and what came after the one done.
Replaced(th, steps) ==
    /\ 1 \in DOMAIN todo[th] /\ todo[th][1] = Head(todo[th])
    /\ \A i \in DOMAIN steps : i \in DOMAIN todo'[th] /\ todo'[th][i] = steps[i]
    /\ \A i \in DOMAIN todo[th] :
          \/ i = 1
          \/ /\ i + Len(steps) - 1 \in DOMAIN todo'[th]
             /\ todo'[th][i + Len(steps) - 1] = todo[th][i]
    /\ \A j \in DOMAIN todo'[th] :
          \/ j \in DOMAIN steps /\ todo'[th][j] = steps[j]
          \/ /\ j + 1 - Len(steps) \in DOMAIN todo[th] /\ j + 1 - Len(steps) # 1
             /\ todo'[th][j] = todo[th][j + 1 - Len(steps)]
    /\ DOMAIN todo[th] \subseteq Nat /\ DOMAIN todo'[th] \subseteq Nat
    /\ Len(steps) \in Nat
    /\ \A u \in Driver : u # th => todo'[u] = todo[u]

LEMMA Replacing ==
    ASSUME todo \in Plans, NEW th \in Driver, todo[th] # <<>>,
           NEW steps \in Seq(Item), Then(th, steps)
    PROVE  todo' \in Plans /\ Replaced(th, steps)
<1> DEFINE s == todo[th]
           t == steps \o Tail(s)
<1>1. s \in Seq(Item) /\ s # <<>>
    BY DEF Plans
<1>2. /\ Tail(s) \in Seq(Item) /\ Len(Tail(s)) = Len(s) - 1 /\ Len(s) \in Nat /\ Len(s) >= 1
      /\ DOMAIN s = 1 .. Len(s) /\ Head(s) = s[1]
      /\ \A i \in 1 .. Len(s) - 1 : Tail(s)[i] = s[i + 1]
    <2> HIDE DEF s
    <2> QED BY <1>1
<1>3. /\ t \in Seq(Item) /\ Len(steps) \in Nat
      /\ DOMAIN t = 1 .. Len(steps) + (Len(s) - 1) /\ DOMAIN steps = 1 .. Len(steps)
      /\ \A i \in 1 .. Len(steps) : t[i] = steps[i]
      /\ \A i \in 1 .. Len(s) - 1 : t[Len(steps) + i] = s[i + 1]
    <2> DEFINE r == Tail(s)
    <2>1. r \in Seq(Item)
        BY <1>2
    <2>2. /\ Len(r) = Len(s) - 1
          /\ \A i \in 1 .. Len(s) - 1 : r[i] = s[i + 1]
        BY <1>2
    <2>3. t = steps \o r
        BY DEF r
    <2> HIDE DEF r, s, t
    <2>4. /\ steps \o r \in Seq(Item) /\ Len(steps) \in Nat
          /\ DOMAIN (steps \o r) = 1 .. Len(steps) + Len(r) /\ DOMAIN steps = 1 .. Len(steps)
          /\ \A i \in 1 .. Len(steps) : (steps \o r)[i] = steps[i]
          /\ \A i \in 1 .. Len(r) : (steps \o r)[Len(steps) + i] = r[i]
        BY <2>1, Joined
    <2> QED BY <2>2, <2>3, <2>4
<1>4. todo' = [todo EXCEPT ![th] = t]
    BY DEF Then
<1> HIDE DEF s, t
<1>5. todo'[th] = t /\ todo' \in Plans /\ \A u \in Driver : u # th => todo'[u] = todo[u]
    BY <1>3, <1>4 DEF Plans
<1> DEFINE n == Len(steps)
           m == Len(s) - 1
<1>6. /\ n \in Nat /\ m \in Nat
      /\ DOMAIN s = 1 .. m + 1 /\ DOMAIN t = 1 .. n + m /\ DOMAIN steps = 1 .. n
      /\ \A i \in 1 .. n : t[i] = steps[i]
      /\ \A i \in 1 .. m : t[n + i] = s[i + 1]
    <2>1. m \in Nat /\ Len(s) = m + 1 /\ Len(s) - 1 = m
        BY <1>2
    <2> HIDE DEF m
    <2>2. DOMAIN s = 1 .. m + 1
        BY <1>2, <2>1
    <2>3. DOMAIN t = 1 .. n + m /\ \A i \in 1 .. m : t[n + i] = s[i + 1]
        BY <1>3, <2>1
    <2> QED BY <1>3, <2>1, <2>2, <2>3
<1> HIDE DEF n, m
<1>7. ASSUME NEW i \in DOMAIN s, i # 1
      PROVE  i + n - 1 \in DOMAIN t /\ t[i + n - 1] = s[i]
    <2>1. PICK k \in 1 .. m : i = k + 1
        <3>1. i \in Nat /\ i - 1 \in 1 .. m /\ i = (i - 1) + 1
            BY <1>6, <1>7
        <3> QED BY <3>1
    <2>2. i + n - 1 = n + k /\ n + k \in 1 .. n + m
        BY <1>6, <2>1
    <2>3. t[n + k] = s[k + 1]
        BY <1>6
    <2> QED BY <1>6, <2>1, <2>2, <2>3
<1>8. ASSUME NEW j \in DOMAIN t
      PROVE  \/ j \in DOMAIN steps /\ t[j] = steps[j]
             \/ /\ j + 1 - n \in DOMAIN s /\ j + 1 - n # 1
                /\ t[j] = s[j + 1 - n]
    <2>1. CASE j \in 1 .. n
        BY <1>6, <2>1
    <2>2. CASE j \notin 1 .. n
        <3>1. PICK k \in 1 .. m : j = n + k
            <4>1. j \in Nat /\ j - n \in 1 .. m /\ j = n + (j - n)
                BY <1>6, <2>2
            <4> QED BY <4>1
        <3>2. j + 1 - n = k + 1 /\ k + 1 \in 1 .. m + 1 /\ k + 1 # 1
            BY <1>6, <3>1
        <3>3. t[n + k] = s[k + 1]
            BY <1>6
        <3> QED BY <1>6, <3>1, <3>2, <3>3
    <2> QED BY <2>1, <2>2
<1>9. 1 \in DOMAIN s /\ \A i \in DOMAIN steps : i \in DOMAIN t /\ t[i] = steps[i]
    BY <1>2, <1>3
<1>10. DOMAIN s \subseteq Nat /\ DOMAIN t \subseteq Nat
    BY <1>2, <1>3
<1>11. QED
    BY <1>2, <1>3, <1>5, <1>7, <1>8, <1>9, <1>10 DEF Replaced, s, n

\* What a visit puts in its place.
Below(a) == Visits(Children(a)) \o <<<<"signal", a>>, <<"engine", a>>>>

LEMMA BelowIs ==
    ASSUME recorded \in SUBSET Agent, NEW a \in recorded
    PROVE  /\ Below(a) \in Seq(Item)
           /\ \A i \in DOMAIN Below(a) :
                 /\ Below(a)[i][2] \in recorded
                 /\ Below(a)[i][1] = "signal" =>
                       i + 1 \in DOMAIN Below(a) /\ Below(a)[i + 1] = <<"engine", Below(a)[i][2]>>
           /\ \E i \in DOMAIN Below(a) : Below(a)[i] = <<"engine", a>>
           /\ \A b \in Children(a) : \E i \in DOMAIN Below(a) : Below(a)[i] = <<"visit", b>>
<1> DEFINE v == Visits(Children(a))
           e == <<<<"signal", a>>, <<"engine", a>>>>
           t == v \o e
<1>1. Children(a) \in SUBSET Agent /\ Children(a) \subseteq recorded
    BY DEF Children
<1>2. /\ v \in Seq(Item)
      /\ \A i \in DOMAIN v : v[i][1] = "visit" /\ v[i][2] \in recorded
      /\ \A b \in Children(a) : \E i \in DOMAIN v : v[i] = <<"visit", b>>
    BY <1>1, Visiting
<1>3. e \in Seq(Item) /\ Len(e) = 2 /\ e[1] = <<"signal", a>> /\ e[2] = <<"engine", a>>
    BY DEF Item
<1> HIDE DEF v, e
<1>4. /\ t \in Seq(Item) /\ Len(v) \in Nat
      /\ DOMAIN t = 1 .. Len(v) + 2 /\ DOMAIN v = 1 .. Len(v)
      /\ \A i \in 1 .. Len(v) : t[i] = v[i]
      /\ t[Len(v) + 1] = <<"signal", a>> /\ t[Len(v) + 2] = <<"engine", a>>
    <2>1. /\ v \o e \in Seq(Item) /\ Len(v) \in Nat
          /\ DOMAIN (v \o e) = 1 .. Len(v) + Len(e) /\ DOMAIN v = 1 .. Len(v)
          /\ \A i \in 1 .. Len(v) : (v \o e)[i] = v[i]
          /\ \A i \in 1 .. Len(e) : (v \o e)[Len(v) + i] = e[i]
        <3>1. v \in Seq(Item) /\ e \in Seq(Item)
            BY <1>2, <1>3
        <3> QED BY <3>1, Joined
    <2>2. 1 \in 1 .. Len(e) /\ 2 \in 1 .. Len(e)
        BY <1>3
    <2> QED BY <1>3, <2>1, <2>2
<1>5. Below(a) = t
    BY DEF Below, v, e
<1> HIDE DEF t
<1>6. \A i \in DOMAIN t :
         \/ i \in DOMAIN v /\ t[i] = v[i]
         \/ i = Len(v) + 1
         \/ i = Len(v) + 2
    BY <1>4
<1>7. \A i \in DOMAIN t : /\ t[i][2] \in recorded
                          /\ t[i][1] = "signal" =>
                                i + 1 \in DOMAIN t /\ t[i + 1] = <<"engine", t[i][2]>>
    BY <1>2, <1>4, <1>6
<1>8. \E i \in DOMAIN t : t[i] = <<"engine", a>>
    BY <1>4
<1>9. ASSUME NEW b \in Children(a) PROVE \E i \in DOMAIN t : t[i] = <<"visit", b>>
    <2>1. PICK i \in DOMAIN v : v[i] = <<"visit", b>>
        BY <1>2
    <2>2. i \in DOMAIN t /\ t[i] = v[i]
        BY <1>4, <2>1
    <2> QED BY <2>1, <2>2
<1>10. QED
    BY <1>4, <1>5, <1>7, <1>8, <1>9

-----------------------------------------------------------------------------
(* Every action keeps the types.                                           *)

LEMMA TypedGives ==
    ASSUME Typed PROVE Engines /\ Boxed
    BY DEF Typed, TypeOK, Engines, Status, Boxed

LEMMA Started ==
    ASSUME todo \in Plans, scope \in [Driver -> SUBSET Agent],
           NEW th \in Driver, NEW a \in Agent, StartCancel(th, a)
    PROVE  /\ todo' \in Plans
           /\ scope' \in [Driver -> SUBSET Agent]
           /\ todo'[th] = <<<<"visit", a>>>> /\ scope'[th] = Tree(a)
           /\ \A u \in Driver : u # th => todo'[u] = todo[u] /\ scope'[u] = scope[u]
<1> DEFINE s == <<<<"visit", a>>>>
<1>1. s \in Seq(Item)
    BY DEF Item
<1>2. todo' = [todo EXCEPT ![th] = s] /\ scope' = [scope EXCEPT ![th] = Tree(a)]
    BY DEF StartCancel
<1>3. Tree(a) \in SUBSET Agent
    BY DEF Tree
<1> HIDE DEF s
<1>4. todo' \in Plans /\ todo'[th] = s /\ \A u \in Driver : u # th => todo'[u] = todo[u]
    BY <1>1, <1>2 DEF Plans
<1>5. QED
    BY <1>2, <1>3, <1>4 DEF s

LEMMA Emptied ==
    ASSUME todo \in Plans, NEW th \in Driver, todo' = [todo EXCEPT ![th] = <<>>]
    PROVE  /\ todo' \in Plans /\ todo'[th] = <<>>
           /\ \A u \in Driver : u # th => todo'[u] = todo[u]
<1>1. <<>> \in Seq(Item)
    OBVIOUS
<1>2. QED
    BY <1>1 DEF Plans

LEMMA BeginSpawnTypes ==
    ASSUME Typed, StagesOK, NEW th \in Driver, NEW p \in Agent \cup {None}, BeginSpawn(th, p)
    PROVE  Typed' /\ StagesOK'
    BY DEF BeginSpawn, Typed, TypeOK, StagesOK, agents, engines, workers, drivers, cancels,
       Goto, Stage, AtCall

LEMMA BeginStatusTypes ==
    ASSUME Typed, StagesOK, NEW th \in Driver, NEW a \in Agent, BeginStatus(th, a)
    PROVE  Typed' /\ StagesOK'
    BY DEF BeginStatus, Begin, Typed, TypeOK, StagesOK, agents, engines, workers, drivers,
       cancels, Goto, Stage, AtCall

LEMMA BeginSupervisedTypes ==
    ASSUME Typed, StagesOK, NEW th \in Driver, NEW a \in Agent, NEW c \in Call, BeginSupervised(th, a, c)
    PROVE  Typed' /\ StagesOK'
    BY DEF BeginSupervised, Begin, Assign, Typed, TypeOK, StagesOK, agents, engines, workers,
       drivers, cancels, Goto, Stage, AtCall

LEMMA CreateWorkerTypes ==
    ASSUME Typed, StagesOK, NEW th \in Driver, CreateWorker(th)
    PROVE  Typed' /\ StagesOK'
<1>1. CASE worker' = [worker EXCEPT ![at[th]] = "waiting"] /\ Goto(th, "recording")
    BY <1>1 DEF CreateWorker, Live, Typed, TypeOK, StagesOK, agents, engines, workers, drivers,
       cancels, Goto, Stage, AtCall
<1>2. CASE worker' = [worker EXCEPT ![at[th]] = "orphan"] /\ Goto(th, "refusing")
    BY <1>2 DEF CreateWorker, Typed, TypeOK, StagesOK, agents, engines, workers, drivers,
       cancels, Goto, Stage, AtCall
<1>3. CASE Goto(th, "refusing") /\ UNCHANGED worker
    BY <1>3 DEF CreateWorker, Typed, TypeOK, StagesOK, agents, engines, workers, drivers,
       cancels, Goto, Stage, AtCall
<1>4. QED
    BY <1>1, <1>2, <1>3, Zenon DEF CreateWorker

LEMMA RecordWorkerTypes ==
    ASSUME Typed, StagesOK, NEW th \in Driver, RecordWorker(th)
    PROVE  Typed' /\ StagesOK'
    BY DEF RecordWorker, Typed, TypeOK, StagesOK, agents, engines, workers, drivers, cancels,
       Goto, Stage, AtCall

LEMMA InspectTypes ==
    ASSUME Typed, StagesOK, NEW th \in Driver, Inspect(th)
    PROVE  Typed' /\ StagesOK'
<1>1. CASE Return(th)
    BY <1>1 DEF Inspect, Return, Typed, TypeOK, StagesOK, agents, engines, workers, drivers,
       cancels, Goto, Stage, AtCall
<1>2. CASE Goto(th, "pumping") /\ UNCHANGED <<on, at, message, waits>>
    BY <1>2 DEF Inspect, Typed, TypeOK, StagesOK, agents, engines, workers, drivers, cancels,
       Goto, Stage, AtCall
<1>3. QED
    BY <1>1, <1>2, Zenon DEF Inspect

LEMMA EndStatusTypes ==
    ASSUME Typed, StagesOK, NEW th \in Driver, EndStatus(th)
    PROVE  Typed' /\ StagesOK'
    BY DEF EndStatus, Return, Typed, TypeOK, StagesOK, agents, engines, workers, drivers,
       cancels, Goto, Stage, AtCall

LEMMA EndCancelTypes ==
    ASSUME Typed, StagesOK, NEW th \in Driver, EndCancel(th)
    PROVE  Typed' /\ StagesOK'
    BY DEF EndCancel, Return, Typed, TypeOK, StagesOK, agents, engines, workers, drivers,
       cancels, Goto, Stage, AtCall

LEMMA WorkTypes ==
    ASSUME Typed, StagesOK, NEW c \in Call, Work(c)
    PROVE  Typed' /\ StagesOK'
    BY DEF Work, Move, Live, Typed, TypeOK, StagesOK, agents, engines, workers, drivers,
       cancels, Goto, Stage, AtCall

LEMMA EndWorkTypes ==
    ASSUME Typed, StagesOK, NEW c \in Call, EndWork(c)
    PROVE  Typed' /\ StagesOK'
    BY DEF EndWork, Move, Live, Typed, TypeOK, StagesOK, agents, engines, workers, drivers,
       cancels, Goto, Stage, AtCall

LEMMA HandleSignalTypes ==
    ASSUME Typed, StagesOK, NEW c \in Call, HandleSignal(c)
    PROVE  Typed' /\ StagesOK'
    BY DEF HandleSignal, Move, Live, Typed, TypeOK, StagesOK, agents, engines, workers,
       drivers, cancels, Goto, Stage, AtCall

LEMMA EndWorkerTypes ==
    ASSUME Typed, StagesOK, NEW c \in Call, EndWorker(c)
    PROVE  Typed' /\ StagesOK'
    BY DEF EndWorker, Move, Typed, TypeOK, StagesOK, agents, engines, workers, drivers,
       cancels, Goto, Stage, AtCall

LEMMA DestroyWorkersTypes ==
    ASSUME Typed, StagesOK, DestroyWorkers
    PROVE  Typed' /\ StagesOK'
    BY DEF DestroyWorkers, Signal, Typed, TypeOK, StagesOK, agents, engines, workers, drivers,
       cancels, Goto, Stage, AtCall

LEMMA DestroyPoolTypes ==
    ASSUME Typed, StagesOK, DestroyPool
    PROVE  Typed' /\ StagesOK'
    BY DEF DestroyPool, Typed, TypeOK, StagesOK, agents, engines, workers, drivers, cancels,
       Goto, Stage, AtCall

LEMMA DestroyRegistryTypes ==
    ASSUME Typed, StagesOK, DestroyRegistry
    PROVE  Typed' /\ StagesOK'
    BY DEF DestroyRegistry, Typed, TypeOK, StagesOK, agents, engines, workers, drivers,
       cancels, Goto, Stage, AtCall

LEMMA PumpTypes ==
    ASSUME Typed, StagesOK, NEW th \in Driver, NEW a \in Agent, Pump(th, a)
    PROVE  Typed' /\ StagesOK'
<1>1. Boxed /\ message \in [Driver -> Letter \cup {None}]
    BY TypedGives DEF Typed
<1>2. Receive(th, a)
    BY DEF Pump
<1>3. QED
    BY <1>1, <1>2, Received DEF Pump, Begin, Typed, TypeOK, StagesOK, agents, engines, workers,
       drivers, cancels, Goto, Stage, AtCall

LEMMA BeginCancelTypes ==
    ASSUME Typed, StagesOK, NEW th \in Driver, NEW a \in Agent, BeginCancel(th, a)
    PROVE  Typed' /\ StagesOK'
<1>1. StartCancel(th, a) /\ todo \in Plans /\ scope \in [Driver -> SUBSET Agent]
    BY DEF BeginCancel, Typed, TypeOK
<1>2. todo' \in Plans /\ scope' \in [Driver -> SUBSET Agent]
    BY <1>1, Started
<1>3. QED
    BY <1>2 DEF BeginCancel, Begin, Typed, TypeOK, StagesOK, agents, engines, workers, drivers,
       cancels, Goto, Stage, AtCall

LEMMA TimeoutTypes ==
    ASSUME Typed, StagesOK, NEW th \in Driver, Timeout(th)
    PROVE  Typed' /\ StagesOK'
<1>1. StartCancel(th, on[th]) /\ todo \in Plans /\ scope \in [Driver -> SUBSET Agent]
    BY DEF Timeout, Typed, TypeOK
<1>2. PICK a \in Agent : on[th] = a
    BY DEF Timeout, StagesOK
<1>3. todo' \in Plans /\ scope' \in [Driver -> SUBSET Agent]
    BY <1>1, <1>2, Started
<1>4. QED
    BY <1>3 DEF Timeout, Typed, TypeOK, StagesOK, agents, engines, workers, drivers, cancels,
       Goto, Stage, AtCall

LEMMA SendRequestTypes ==
    ASSUME Typed, StagesOK, NEW a \in Agent, NEW c \in Call, SendRequest(a, c)
    PROVE  Typed' /\ StagesOK'
<1>1. Boxed /\ SendTo(a, Request(c)) /\ Request(c) \in Letter
    BY TypedGives, Letters DEF SendRequest
<1>2. QED
    BY <1>1, Sent DEF SendRequest, Assign, Typed, TypeOK, StagesOK, agents, engines, workers,
       drivers, cancels, Goto, Stage, AtCall

LEMMA SendTypes ==
    ASSUME Typed, StagesOK, NEW a \in Agent, NEW kind \in Posted, Send(a, kind)
    PROVE  Typed' /\ StagesOK'
<1>1. Boxed /\ SendTo(a, Notice(kind)) /\ Notice(kind) \in Letter
    BY TypedGives, Letters, PostedAssumption DEF Send
<1>2. QED
    BY <1>1, Sent DEF Send, Typed, TypeOK, StagesOK, agents, engines, workers, drivers,
       cancels, Goto, Stage, AtCall

LEMMA TellParentTypes ==
    ASSUME Typed, StagesOK, NEW c \in Call, TellParent(c)
    PROVE  Typed' /\ StagesOK'
<1>1. Boxed /\ NotifyParent(owner[c])
    BY TypedGives DEF TellParent
<1>2. QED
    BY <1>1, Told DEF TellParent, Move, Live, Typed, TypeOK, StagesOK, agents, engines,
       workers, drivers, cancels, Goto, Stage, AtCall

LEMMA SendResultTypes ==
    ASSUME Typed, StagesOK, NEW c \in Call, SendResult(c)
    PROVE  Typed' /\ StagesOK'
<1>1. Boxed /\ SendTo(owner[c], Result(c, result[c])) /\ Result(c, result[c]) \in Letter
    BY TypedGives, Letters DEF SendResult, Typed, TypeOK
<1>2. mailbox' \in Mailboxes /\ \A b \in Agent : Len(mailbox'[b]) <= MailboxSize
    BY <1>1, Sent
<1>3. QED
    BY <1>2 DEF SendResult, Move, Live, Typed, TypeOK, StagesOK, agents, engines, workers,
       drivers, cancels, Goto, Stage, AtCall

\* The drivers have their types; th alone moves.
Drivers ==
    /\ pc \in [Driver -> Stage]
    /\ on \in [Driver -> Agent \cup {None}]
    /\ at \in [Driver -> Call \cup {None}]
    /\ message \in [Driver -> Letter \cup {None}]
    /\ waits \in [Driver -> Call \cup {None}]

Others(th) ==
    \A u \in Driver : u # th => /\ pc'[u] = pc[u] /\ on'[u] = on[u] /\ at'[u] = at[u]
                                /\ message'[u] = message[u] /\ waits'[u] = waits[u]

LEMMA Returned ==
    ASSUME Drivers, NEW th \in Driver, Return(th)
    PROVE  /\ Drivers' /\ Others(th)
           /\ pc'[th] = "idle" /\ on'[th] = None /\ at'[th] = None
           /\ message'[th] = None /\ waits'[th] = None
    BY DEF Drivers, Others, Return, Goto, Stage

LEMMA PumpEnded ==
    ASSUME Drivers, NEW th \in Driver, EndPump(th)
    PROVE  /\ Drivers' /\ Others(th)
           /\ pc'[th] \in {"idle", "looping"} /\ on'[th] \in {None, on[th]}
           /\ pc'[th] = "idle" => waits'[th] = None
           /\ pc'[th] = "looping" => on'[th] = on[th]
<1>1. CASE waits[th] = None
    BY <1>1, Returned DEF EndPump
<1>2. CASE waits[th] # None
    BY <1>2 DEF EndPump, Drivers, Others, Goto, Stage
<1>3. QED
    BY <1>1, <1>2

LEMMA Gone ==
    ASSUME Drivers, NEW th \in Driver, NEW p \in Stage, Goto(th, p),
           UNCHANGED <<on, at, message, waits>>
    PROVE  Drivers' /\ Others(th) /\ pc'[th] = p
    BY DEF Drivers, Others, Goto

LEMMA Disturbs ==
    ASSUME disturbed \in SUBSET Agent, NEW A \in SUBSET Agent, Disturb(A)
    PROVE  /\ disturbed' \in SUBSET Agent
           /\ disturbed \subseteq disturbed'
           /\ Up => A \subseteq disturbed'
    BY DEF Disturb, Up

\* What is left to show of the types, when the drivers have theirs.
Rest ==
    /\ runtime \in {"up", "signalled", "drained", "emptied", "gone"}
    /\ recorded \subseteq Agent /\ destroyed \subseteq Agent
    /\ born \in 0 .. MaxAgents
    /\ parent \in [Agent -> Agent \cup {None}]
    /\ Engines
    /\ mailbox \in Mailboxes
    /\ \A a \in Agent : Len(mailbox[a]) <= MailboxSize
    /\ todo \in Plans
    /\ scope \in [Driver -> SUBSET Agent]
    /\ disturbed \subseteq Agent

Workers ==
    /\ owner \in [Call -> Agent \cup {None}]
    /\ worker \in [Call -> Live \cup {"none", "orphan", "over"}]
    /\ recordedWorker \subseteq Call /\ started \subseteq Call /\ signalled \subseteq Call
    /\ result \in [Call -> {None, "ok", "error", "cancelled"}]

LEMMA Parts == Typed <=> Rest /\ Workers /\ Drivers
    BY DEF Typed, TypeOK, Rest, Workers, Drivers, Engines, Status

StageOK(th) ==
    /\ pc[th] \notin {"idle", "spawning"} => on[th] \in Agent
    /\ pc[th] \in AtCall => at[th] \in Call
    /\ pc[th] = "delivering" => message[th] \in Letter
    /\ pc[th] \in {"idle", "spawning"} => waits[th] = None

LEMMA OneStage ==
    ASSUME StagesOK, NEW th \in Driver, Others(th), StageOK(th)'
    PROVE  StagesOK'
    BY DEF StagesOK, Others, StageOK

LEMMA StartWorkerTypes ==
    ASSUME Typed, StagesOK, NEW th \in Driver, StartWorker(th)
    PROVE  Typed' /\ StagesOK'
<1>1. Drivers /\ Rest /\ Workers
    BY Parts
<1>2. Drivers' /\ Others(th) /\ StageOK(th)'
    <2>1. CASE Return(th)
        BY <1>1, <2>1, Returned DEF StageOK, AtCall
    <2>2. CASE EndPump(th)
        BY <1>1, <2>2, PumpEnded DEF StageOK, StagesOK, AtCall, StartWorker
    <2> QED BY <2>1, <2>2 DEF StartWorker
<1>3. Rest' /\ Workers'
    BY <1>1 DEF StartWorker, StagesOK, AtCall, Rest, Workers, Engines, agents, engines, cancels
<1>4. Typed'
    BY <1>2, <1>3 DEF Typed, TypeOK, Rest, Workers, Drivers, Engines, Status
<1>5. QED
    BY <1>2, <1>4, OneStage

LEMMA NotifyTypes ==
    ASSUME Typed, StagesOK, NEW th \in Driver, Notify(th)
    PROVE  Typed' /\ StagesOK'
<1>1. Boxed /\ NotifyParent(on[th]) /\ Drivers /\ Rest /\ Workers
    BY TypedGives, Parts DEF Notify
<1>2. mailbox' \in Mailboxes /\ \A b \in Agent : Len(mailbox'[b]) <= MailboxSize
    BY <1>1, Told
<1>3. Rest' /\ Workers'
    BY <1>1, <1>2 DEF Notify, Rest, Workers, Engines, agents, engines, workers, cancels
<1>4. Drivers' /\ Others(th) /\ StageOK(th)'
    <2>1. CASE Return(th)
        BY <1>1, <2>1, Returned DEF StageOK, AtCall
    <2>2. CASE EndPump(th)
        BY <1>1, <2>2, PumpEnded DEF StageOK, StagesOK, AtCall, Notify
    <2> QED BY <2>1, <2>2 DEF Notify
<1>5. Typed'
    BY <1>3, <1>4 DEF Typed, TypeOK, Rest, Workers, Drivers, Engines, Status
<1>6. QED
    BY <1>4, <1>5, OneStage

LEMMA ForceFailureTypes ==
    ASSUME Typed, StagesOK, NEW c \in Call, WorkersOK, ForceFailure(c)
    PROVE  Typed' /\ StagesOK'
<1>1. Engines /\ Notice("budget_exhausted") \in Letter /\ disturbed \in SUBSET Agent
    BY TypedGives, Letters DEF Typed, TypeOK
<1>2. disturbed' \in SUBSET Agent /\ Engines'
    <2>1. CASE Disturb({owner[c]}) /\ UNCHANGED engines
        <3>1. CASE owner[c] \in Agent
            BY <1>1, <2>1, <3>1, Disturbs DEF Engines, engines
        <3>2. CASE owner[c] \notin Agent
            BY <3>2 DEF ForceFailure, WorkersOK, Typed, TypeOK
        <3> QED BY <3>1, <3>2
    <2>2. CASE owner[c] \in recorded \ destroyed /\ Take(owner[c], Notice("budget_exhausted"))
               /\ UNCHANGED disturbed
        <3>1. PICK a \in Agent : owner[c] = a
            BY <2>2 DEF Typed, TypeOK
        <3> QED BY <1>1, <2>2, <3>1, Taken
    <2> QED BY <2>1, <2>2 DEF ForceFailure
<1>3. worker' \in [Call -> Live \cup {"none", "orphan", "over"}]
    BY DEF ForceFailure, Move, Live, Typed, TypeOK
<1>4. QED
    BY <1>2, <1>3 DEF ForceFailure, Engines, Status, Typed, TypeOK, StagesOK, agents, engines,
       workers, drivers, cancels, Goto, Stage, AtCall

LEMMA SpawnTypes ==
    ASSUME Typed, StagesOK, NEW th \in Driver, Spawn(th)
    PROVE  Typed' /\ StagesOK'
<1>1. Boxed /\ Drivers /\ Rest /\ Workers /\ Notice("note") \in Letter
    BY TypedGives, Parts, Letters
<1>2. Drivers' /\ Others(th) /\ StageOK(th)'
    BY <1>1, Returned DEF Spawn, StageOK, AtCall
<1>3. Rest'
    <2>1. CASE UNCHANGED <<recorded, born, parent, status, mailbox>>
        BY <1>1, <2>1 DEF Spawn, Rest, Engines, cancels
    <2>2. CASE /\ born < MaxAgents
               /\ born' = born + 1
               /\ recorded' = recorded \cup {born'}
               /\ parent' = [parent EXCEPT ![born'] = on[th]]
               /\ status' = [status EXCEPT ![born'] = "active"]
               /\ IF on[th] = None THEN UNCHANGED mailbox ELSE SendTo(on[th], Notice("note"))
        <3>1. born' \in 0 .. MaxAgents /\ born' \in Agent
            BY <1>1, <2>2, MaxAgentsAssumption DEF Rest, Agent
        <3>2. mailbox' \in Mailboxes /\ \A a \in Agent : Len(mailbox'[a]) <= MailboxSize
            BY <1>1, <2>2, Sent DEF Rest
        <3>3. recorded' \subseteq Agent /\ status' \in [Agent -> Status]
              /\ parent' \in [Agent -> Agent \cup {None}]
            BY <1>1, <2>2, <3>1 DEF Rest, Engines, Status, Drivers
        <3> QED BY <1>1, <3>1, <3>2, <3>3 DEF Spawn, Rest, Engines, cancels
    <2> QED BY <2>1, <2>2 DEF Spawn
<1>4. Workers'
    BY <1>1 DEF Spawn, Workers, workers
<1>5. Typed'
    BY <1>2, <1>3, <1>4 DEF Typed, TypeOK, Rest, Workers, Drivers, Engines, Status
<1>6. QED
    BY <1>2, <1>5, OneStage

LEMMA DeliverTypes ==
    ASSUME Typed, StagesOK, NEW th \in Driver, Deliver(th)
    PROVE  Typed' /\ StagesOK'
<1>1. Drivers /\ Rest /\ Workers
    BY Parts
<1>2. PICK a \in Agent, m \in Letter : a = on[th] /\ m = message[th]
    BY DEF Deliver, StagesOK
<1>3. Workers'
    BY <1>1 DEF Deliver, Workers, workers
<1>4. Engines' /\ disturbed' \in SUBSET Agent /\ Drivers' /\ Others(th) /\ StageOK(th)'
    <2>1. CASE Disturb({a}) /\ Return(th) /\ UNCHANGED engines
        BY <1>1, <2>1, Disturbs, Returned DEF Rest, Engines, engines, StageOK, AtCall
    <2>2. CASE /\ Take(a, m) /\ UNCHANGED disturbed /\ Reply(a, m) = "dispatch"
               /\ Goto(th, "creating")
               /\ at' = [at EXCEPT ![th] = m.call]
               /\ message' = [message EXCEPT ![th] = None]
               /\ UNCHANGED <<on, waits>>
        <3>1. Engines' /\ m.kind = "request"
            BY <1>1, <2>2, Taken DEF Rest
        <3>2. m.call \in Call
            BY <3>1 DEF Letter
        <3>3. Drivers' /\ Others(th) /\ StageOK(th)'
            BY <1>1, <1>2, <2>2, <3>2 DEF Drivers, Others, StageOK, Goto, Stage, AtCall
        <3> QED BY <1>1, <2>2, <3>1, <3>3 DEF Rest
    <2>3. CASE Take(a, m) /\ UNCHANGED disturbed /\ Goto(th, "notifying")
               /\ UNCHANGED <<on, at, message, waits>>
        <3>1. Engines'
            BY <1>1, <2>3, Taken DEF Rest
        <3>2. Drivers' /\ Others(th) /\ pc'[th] = "notifying"
            BY <1>1, <2>3, Gone DEF Stage
        <3> QED BY <1>1, <1>2, <2>3, <3>1, <3>2 DEF Rest, StageOK, AtCall
    <2>4. CASE Take(a, m) /\ UNCHANGED disturbed /\ EndPump(th)
        <3>1. Engines'
            BY <1>1, <2>4, Taken DEF Rest
        <3> QED BY <1>1, <1>2, <2>4, <3>1, PumpEnded DEF Rest, StageOK, AtCall
    <2> QED BY <1>2, <2>1, <2>2, <2>3, <2>4 DEF Deliver
<1>5. Rest'
    BY <1>1, <1>4 DEF Deliver, Rest, agents, cancels
<1>6. Typed'
    BY <1>3, <1>4, <1>5 DEF Typed, TypeOK, Rest, Workers, Drivers, Engines, Status
<1>7. QED
    BY <1>4, <1>6, OneStage

LEMMA FailPendingCallTypes ==
    ASSUME Typed, StagesOK, NEW th \in Driver, FailPendingCall(th)
    PROVE  Typed' /\ StagesOK'
<1>1. Drivers /\ Rest /\ Workers
    BY Parts
<1>2. PICK a \in Agent, c \in Call : a = on[th] /\ c = at[th]
    BY DEF FailPendingCall, StagesOK, AtCall
<1>3. Workers'
    BY <1>1 DEF FailPendingCall, Workers, workers
<1>4. Engines' /\ disturbed' \in SUBSET Agent /\ Drivers' /\ Others(th) /\ StageOK(th)'
    <2>1. CASE Disturb({a}) /\ Return(th) /\ UNCHANGED engines
        BY <1>1, <2>1, Disturbs, Returned DEF Rest, Engines, engines, StageOK, AtCall
    <2>2. CASE Take(a, Result(c, "error")) /\ UNCHANGED disturbed /\ Goto(th, "notifying")
               /\ UNCHANGED <<on, at, message, waits>>
        <3>1. Engines'
            BY <1>1, <2>2, Taken, Letters DEF Rest
        <3>2. Drivers' /\ Others(th) /\ pc'[th] = "notifying"
            BY <1>1, <2>2, Gone DEF Stage
        <3> QED BY <1>1, <1>2, <2>2, <3>1, <3>2 DEF Rest, StageOK, AtCall
    <2> QED BY <1>2, <2>1, <2>2 DEF FailPendingCall
<1>5. Rest'
    BY <1>1, <1>4 DEF FailPendingCall, Rest, agents, cancels
<1>6. Typed'
    BY <1>3, <1>4, <1>5 DEF Typed, TypeOK, Rest, Workers, Drivers, Engines, Status
<1>7. QED
    BY <1>4, <1>6, OneStage

LEMMA AdmitTypes ==
    ASSUME Typed, StagesOK, NEW th \in Driver, Admit(th)
    PROVE  Typed' /\ StagesOK'
<1>1. Drivers /\ Rest /\ Workers
    BY Parts
<1>2. PICK a \in Agent, c \in Call : a = on[th] /\ c = at[th]
    BY DEF Admit, StagesOK, AtCall
<1>3. Workers'
    BY <1>1 DEF Admit, Workers, workers
<1>4. Engines'
    <2>1. CASE UNCHANGED engines
        BY <1>1, <2>1 DEF Rest, Engines, engines
    <2>2. CASE Take(a, Request(c))
        BY <1>1, <2>2, Taken, Letters DEF Rest
    <2> QED BY <1>2, <2>1, <2>2 DEF Admit
<1>5. Drivers' /\ Others(th) /\ StageOK(th)'
    <2>1. CASE Return(th)
        BY <1>1, <2>1, Returned DEF StageOK, AtCall
    <2>2. CASE Goto(th, "creating") /\ UNCHANGED <<on, at, message, waits>>
        BY <1>1, <1>2, <2>2, Gone DEF StageOK, AtCall, Stage
    <2> QED BY <1>2, <2>1, <2>2 DEF Admit
<1>6. Rest'
    BY <1>1, <1>4 DEF Admit, Rest, agents, cancels
<1>7. Typed'
    BY <1>3, <1>5, <1>6 DEF Typed, TypeOK, Rest, Workers, Drivers, Engines, Status
<1>8. QED
    BY <1>5, <1>7, OneStage

LEMMA PumpSliceTypes ==
    ASSUME Typed, StagesOK, NEW th \in Driver, PumpSlice(th)
    PROVE  Typed' /\ StagesOK'
<1>1. Boxed /\ Drivers /\ Rest /\ Workers
    BY Parts, TypedGives
<1>2. PICK a \in Agent : a = on[th]
    BY DEF PumpSlice, StagesOK
<1>3. Workers'
    BY <1>1 DEF PumpSlice, Workers, workers
<1>4. /\ mailbox' \in Mailboxes /\ \A b \in Agent : Len(mailbox'[b]) <= MailboxSize
      /\ Drivers' /\ Others(th) /\ StageOK(th)'
    <2>1. CASE Receive(th, a) /\ Goto(th, "delivering") /\ UNCHANGED <<on, at, waits>>
        <3>1. /\ mailbox' \in Mailboxes /\ \A b \in Agent : Len(mailbox'[b]) <= MailboxSize
              /\ message' \in [Driver -> Letter \cup {None}]
              /\ message'[th] \in Letter /\ \A u \in Driver : u # th => message'[u] = message[u]
            BY <1>1, <2>1, Received DEF Drivers
        <3> QED BY <1>1, <1>2, <2>1, <3>1 DEF Drivers, Others, StageOK, Goto, Stage, AtCall
    <2>2. CASE EndPump(th) /\ UNCHANGED mailbox
        BY <1>1, <1>2, <2>2, PumpEnded DEF Rest, StageOK, AtCall
    <2>3. CASE Return(th) /\ UNCHANGED mailbox
        BY <1>1, <2>3, Returned DEF Rest, StageOK, AtCall
    <2> QED BY <1>2, <2>1, <2>2, <2>3 DEF PumpSlice
<1>5. Rest'
    BY <1>1, <1>4 DEF PumpSlice, Rest, Engines, agents, engines, cancels
<1>6. Typed'
    BY <1>3, <1>4, <1>5 DEF Typed, TypeOK, Rest, Workers, Drivers, Engines, Status
<1>7. QED
    BY <1>4, <1>6, OneStage

LEMMA VisitTypes ==
    ASSUME Typed, StagesOK, NEW th \in Driver, NEW a \in Agent, Visit(th, a)
    PROVE  Typed' /\ StagesOK'
<1>1. todo[th] # <<>> /\ todo \in Plans /\ recorded \in SUBSET Agent
    BY DEF Visit, NextIs, Typed, TypeOK
<1>2. todo' \in Plans
    <2>1. CASE Then(th, Below(a)) /\ a \in recorded
        <3>1. Below(a) \in Seq(Item)
            BY <1>1, <2>1, BelowIs
        <3> QED BY <1>1, <2>1, <3>1, Replacing
    <2>2. CASE Then(th, <<>>)
        <3>1. <<>> \in Seq(Item)
            OBVIOUS
        <3> QED BY <1>1, <2>2, <3>1, Replacing
    <2> QED BY <2>1, <2>2 DEF Visit, Below
<1>3. QED
    BY <1>2 DEF Visit, Typed, TypeOK, StagesOK, agents, engines, workers, drivers, cancels,
       Goto, Stage, AtCall

LEMMA SignalWorkersTypes ==
    ASSUME Typed, StagesOK, NEW th \in Driver, NEW a \in Agent, SignalWorkers(th, a)
    PROVE  Typed' /\ StagesOK'
<1>1. todo[th] # <<>> /\ todo \in Plans /\ <<>> \in Seq(Item) /\ Then(th, <<>>)
    BY DEF SignalWorkers, NextIs, Typed
<1>2. todo' \in Plans
    BY <1>1, Replacing
<1>3. QED
    BY <1>2 DEF SignalWorkers, Signal, Typed, TypeOK, StagesOK, agents, engines, workers,
       drivers, cancels, Goto, Stage, AtCall

LEMMA CancelEngineTypes ==
    ASSUME Typed, StagesOK, NEW th \in Driver, NEW a \in Agent, CancelEngine(th, a)
    PROVE  Typed' /\ StagesOK'
<1>1. todo[th] # <<>> /\ todo \in Plans /\ <<>> \in Seq(Item) /\ Then(th, <<>>)
    BY DEF CancelEngine, NextIs, Typed
<1>2. todo' \in Plans
    BY <1>1, Replacing
<1>3. Rest /\ Notice("cancel") \in Letter
    BY Parts, Letters
<1>4. Engines' /\ disturbed' \in SUBSET Agent
    <2>1. CASE Disturb({a}) /\ UNCHANGED engines
        BY <1>3, <2>1, Disturbs DEF Rest, Engines, engines
    <2>2. CASE Take(a, Notice("cancel")) /\ UNCHANGED disturbed
        BY <1>3, <2>2, Taken DEF Rest
    <2> QED BY <2>1, <2>2 DEF CancelEngine
<1>5. QED
    BY <1>2, <1>4 DEF CancelEngine, Engines, Status, Typed, TypeOK, StagesOK, agents, engines,
       workers, drivers, cancels, Goto, Stage, AtCall

LEMMA InterruptTypes ==
    ASSUME Typed, StagesOK, NEW th \in Driver, Interrupt(th)
    PROVE  Typed' /\ StagesOK'
<1>1. Drivers /\ Rest /\ Workers
    BY Parts
<1>2. disturbed' \in SUBSET Agent
    <2> DEFINE cut == {a \in Agent : on[th] = a \/ \E i \in DOMAIN todo[th] : todo[th][i] = <<"engine", a>>}
    <2>1. Disturb(cut) /\ cut \in SUBSET Agent
        BY DEF Interrupt
    <2> QED BY <1>1, <2>1, Disturbs DEF Rest
<1>3. /\ todo' \in Plans /\ scope' \in [Driver -> SUBSET Agent]
      /\ Drivers' /\ Others(th) /\ StageOK(th)'
    <2>1. CASE /\ Goto(th, "cancelling")
               /\ StartCancel(th, on[th])
               /\ message' = [message EXCEPT ![th] = None]
               /\ waits' = [waits EXCEPT ![th] = None]
               /\ UNCHANGED <<on, at>>
               /\ waits[th] # None
        <3>1. on[th] \in Agent
            BY <1>1, <2>1 DEF StagesOK, Interrupt, Drivers, Stage
        <3>2. todo' \in Plans /\ scope' \in [Driver -> SUBSET Agent]
            BY <1>1, <2>1, <3>1, Started DEF Rest
        <3> QED BY <1>1, <2>1, <3>1, <3>2 DEF Drivers, Others, StageOK, Goto, Stage, AtCall
    <2>2. CASE /\ Return(th)
               /\ todo' = [todo EXCEPT ![th] = <<>>]
               /\ scope' = [scope EXCEPT ![th] = {}]
        BY <1>1, <2>2, Returned, Emptied DEF Rest, StageOK, AtCall
    <2> QED BY <2>1, <2>2 DEF Interrupt
<1>4. Rest' /\ Workers'
    BY <1>1, <1>2, <1>3 DEF Interrupt, Rest, Workers, Engines, agents, engines, workers
<1>5. Typed'
    BY <1>3, <1>4 DEF Typed, TypeOK, Rest, Workers, Drivers, Engines, Status
<1>6. QED
    BY <1>3, <1>5, OneStage

LEMMA DestroyAgentsTypes ==
    ASSUME Typed, StagesOK, DestroyAgents
    PROVE  Typed' /\ StagesOK'
<1>1. mailbox' \in Mailboxes /\ \A a \in Agent : Len(mailbox'[a]) <= MailboxSize
    <2>1. <<>> \in Seq(Letter) /\ Len(<<>>) = 0 /\ mailbox \in Mailboxes
        BY DEF Typed
    <2>2. mailbox' = [a \in Agent |-> IF a \in recorded THEN <<>> ELSE mailbox[a]]
        BY DEF DestroyAgents
    <2>3. mailbox' \in Mailboxes
        BY <2>1, <2>2 DEF Mailboxes
    <2> QED BY <2>1, <2>2, <2>3, MailboxAssumption DEF Typed, TypeOK
<1>2. QED
    BY <1>1 DEF DestroyAgents, Typed, TypeOK, StagesOK, agents, engines, workers, drivers,
       cancels, Goto, Stage, AtCall

LEMMA Delivered ==
    ASSUME Drivers, Engines, NEW th \in Driver, NEW a \in Agent, NEW m \in Letter,
           a = on[th], m = message[th], Deliver(th)
    PROVE  /\ Others(th)
           /\ pc[th] = "delivering"
           /\ \/ /\ Disturb({a}) /\ UNCHANGED engines
                 /\ pc'[th] = "idle" /\ on'[th] = None
              \/ /\ Take(a, m) /\ UNCHANGED disturbed
                 /\ pc'[th] = "creating" /\ on'[th] = a /\ at'[th] = m.call
                 /\ m.kind = "request" /\ m.call \in Call
                 /\ status[a] = "active" /\ m.call \notin pending[a]
              \/ /\ Take(a, m) /\ UNCHANGED disturbed
                 /\ Reply(a, m) # "dispatch"
                 /\ pc'[th] \in {"notifying", "idle", "looping"} /\ on'[th] \in {None, a}
<1>1. CASE Disturb({a}) /\ Return(th) /\ UNCHANGED engines
    BY <1>1, Returned DEF Deliver
<1>2. CASE /\ Take(a, m) /\ UNCHANGED disturbed /\ Reply(a, m) = "dispatch"
           /\ Goto(th, "creating")
           /\ at' = [at EXCEPT ![th] = m.call]
           /\ message' = [message EXCEPT ![th] = None]
           /\ UNCHANGED <<on, waits>>
    <2>1. m.kind = "request" /\ status[a] = "active" /\ m.call \notin pending[a]
        BY <1>2, Taken
    <2>2. m.call \in Call
        BY <2>1 DEF Letter
    <2>3. Others(th) /\ pc'[th] = "creating" /\ on'[th] = a /\ at'[th] = m.call
        BY <1>2 DEF Drivers, Others, Goto
    <2> QED BY <1>2, <2>1, <2>2, <2>3 DEF Deliver
<1>3. CASE /\ Take(a, m) /\ UNCHANGED disturbed /\ Reply(a, m) # "dispatch"
           /\ Goto(th, "notifying") /\ UNCHANGED <<on, at, message, waits>>
    <2>1. Others(th) /\ pc'[th] = "notifying"
        BY <1>3, Gone DEF Stage
    <2> QED BY <1>3, <2>1 DEF Deliver
<1>4. CASE Take(a, m) /\ UNCHANGED disturbed /\ Reply(a, m) # "dispatch" /\ EndPump(th)
    BY <1>4, PumpEnded DEF Deliver
<1>5. QED
    <2>1. "dispatch" \notin {"result", "failed"}
        OBVIOUS
    <2> QED BY <1>1, <1>2, <1>3, <1>4, <2>1 DEF Deliver

-----------------------------------------------------------------------------
(* The steps, one by one.                                                  *)

LEMMA Steps ==
    ASSUME [Next]_vars
    PROVE  \/ UNCHANGED vars
           \/ \E th \in Driver : \E p \in Agent \cup {None} : BeginSpawn(th, p)
           \/ \E th \in Driver : \E a \in Agent : BeginStatus(th, a)
           \/ \E th \in Driver : \E a \in Agent : Pump(th, a)
           \/ \E th \in Driver : \E a \in Agent : \E c \in Call : BeginSupervised(th, a, c)
           \/ \E th \in Driver : \E a \in Agent : BeginCancel(th, a)
           \/ \E a \in Agent : \E c \in Call : SendRequest(a, c)
           \/ \E a \in Agent : \E kind \in Posted : Send(a, kind)
           \/ DestroyWorkers
           \/ \E th \in Driver : Spawn(th)
           \/ \E th \in Driver : Deliver(th)
           \/ \E th \in Driver : Notify(th)
           \/ \E th \in Driver : CreateWorker(th)
           \/ \E th \in Driver : RecordWorker(th)
           \/ \E th \in Driver : StartWorker(th)
           \/ \E th \in Driver : FailPendingCall(th)
           \/ \E th \in Driver : Admit(th)
           \/ \E th \in Driver : Inspect(th)
           \/ \E th \in Driver : PumpSlice(th)
           \/ \E th \in Driver : EndStatus(th)
           \/ \E th \in Driver : \E a \in Agent : Visit(th, a)
           \/ \E th \in Driver : \E a \in Agent : SignalWorkers(th, a)
           \/ \E th \in Driver : \E a \in Agent : CancelEngine(th, a)
           \/ \E th \in Driver : EndCancel(th)
           \/ \E th \in Driver : Timeout(th)
           \/ \E th \in Driver : Interrupt(th)
           \/ \E c \in Call : Work(c)
           \/ \E c \in Call : HandleSignal(c)
           \/ \E c \in Call : SendResult(c)
           \/ \E c \in Call : ForceFailure(c)
           \/ \E c \in Call : TellParent(c)
           \/ \E c \in Call : EndWorker(c)
           \/ \E c \in Call : EndWork(c)
           \/ DestroyPool
           \/ DestroyAgents
           \/ DestroyRegistry
    BY InterruptAssumption DEF Next, HostStep, DriverStep, WorkerStep, Destroy, Driver

Inv ==
    /\ Typed /\ StagesOK /\ RegistryOK /\ HandsOK /\ MailOK
    /\ WorkersOK /\ EnginesOK /\ AccountsOK /\ PlansOK /\ ScopesOK

LEMMA TypesKept ==
    ASSUME Typed, StagesOK, WorkersOK, [Next]_vars
    PROVE  Typed' /\ StagesOK'
<1>1. CASE UNCHANGED vars
    BY <1>1 DEF vars, Typed, TypeOK, StagesOK, agents, engines, workers, drivers, cancels
<1>2. QED
    BY <1>1, Steps,
       BeginSpawnTypes, BeginStatusTypes, PumpTypes, BeginSupervisedTypes,
       BeginCancelTypes, SendRequestTypes, SendTypes, DestroyWorkersTypes, SpawnTypes,
       DeliverTypes, NotifyTypes, CreateWorkerTypes, RecordWorkerTypes, StartWorkerTypes,
       FailPendingCallTypes, AdmitTypes, InspectTypes, PumpSliceTypes, EndStatusTypes,
       VisitTypes, SignalWorkersTypes, CancelEngineTypes, EndCancelTypes, TimeoutTypes,
       InterruptTypes, WorkTypes, HandleSignalTypes, SendResultTypes, ForceFailureTypes,
       TellParentTypes, EndWorkerTypes, EndWorkTypes, DestroyPoolTypes,
       DestroyAgentsTypes, DestroyRegistryTypes

-----------------------------------------------------------------------------
(* The workers of the calls.                                               *)

LEMMA WorkersKept ==
    ASSUME Inv, [Next]_vars
    PROVE  WorkersOK'
<1>1. CASE UNCHANGED <<owner, worker, recordedWorker, started, signalled>>
    BY <1>1 DEF Inv, WorkersOK, WorkerFactsAreLive, Live
<1>2. ASSUME \/ UNCHANGED vars
             \/ \E th \in Driver : \E p \in Agent \cup {None} : BeginSpawn(th, p)
             \/ \E th \in Driver : \E a \in Agent : BeginStatus(th, a)
             \/ \E th \in Driver : \E a \in Agent : Pump(th, a)
             \/ \E th \in Driver : \E a \in Agent : BeginCancel(th, a)
             \/ \E a \in Agent : \E kind \in Posted : Send(a, kind)
             \/ \E th \in Driver : Spawn(th)
             \/ \E th \in Driver : Deliver(th)
             \/ \E th \in Driver : Notify(th)
             \/ \E th \in Driver : FailPendingCall(th)
             \/ \E th \in Driver : Admit(th)
             \/ \E th \in Driver : Inspect(th)
             \/ \E th \in Driver : PumpSlice(th)
             \/ \E th \in Driver : EndStatus(th)
             \/ \E th \in Driver : \E a \in Agent : Visit(th, a)
             \/ \E th \in Driver : \E a \in Agent : CancelEngine(th, a)
             \/ \E th \in Driver : EndCancel(th)
             \/ \E th \in Driver : Timeout(th)
             \/ \E th \in Driver : Interrupt(th)
             \/ DestroyPool
             \/ DestroyAgents
      PROVE  UNCHANGED <<owner, worker, recordedWorker, started, signalled>>
    BY <1>2 DEF vars, agents, engines, workers, drivers, cancels, BeginSpawn, BeginStatus, Pump,
        BeginCancel, Send, Spawn, Deliver, Notify, FailPendingCall, Admit, Inspect, PumpSlice,
        EndStatus, Visit, CancelEngine, EndCancel, Timeout, Interrupt, DestroyPool, DestroyAgents,
        Begin, Goto, Return, EndPump
<1>3. ASSUME NEW a \in Agent, NEW c \in Call, SendRequest(a, c)
      PROVE  WorkersOK'
    BY <1>3 DEF SendRequest, Assign, Fresh, Inv, Typed, TypeOK, WorkersOK, WorkerFactsAreLive,
       Live, workers
<1>4. ASSUME NEW th \in Driver, NEW a \in Agent, NEW c \in Call, BeginSupervised(th, a, c)
      PROVE  WorkersOK'
    BY <1>4 DEF BeginSupervised, Assign, Fresh, Inv, Typed, TypeOK, WorkersOK,
       WorkerFactsAreLive, Live, workers
<1>5. ASSUME NEW th \in Driver, CreateWorker(th)
      PROVE  WorkersOK'
    <2>1. ASSUME NEW s \in {"waiting", "orphan"}, worker' = [worker EXCEPT ![at[th]] = s]
          PROVE  WorkersOK'
        <3>1. PICK c \in Call : c = at[th]
            BY <1>5 DEF Inv, StagesOK, AtCall, CreateWorker
        <3>2. owner[c] # None
            BY <1>5, <3>1, NoneAssumption DEF Inv, StagesOK, HandsOK, HolderOK, AtCall,
               CreateWorker
        <3>3. c \notin recordedWorker \cup signalled
            BY <1>5, <3>1 DEF CreateWorker, Inv, HandsOK, HolderOK, WorkersOK,
               WorkerFactsAreLive, Live
        <3> QED BY <1>5, <2>1, <3>1, <3>2, <3>3 DEF CreateWorker, Inv, Typed, TypeOK, WorkersOK,
                   WorkerFactsAreLive, Live
    <2>2. CASE UNCHANGED worker
        BY <1>5, <2>2 DEF CreateWorker, Inv, WorkersOK, WorkerFactsAreLive, Live
    <2> QED BY <1>5, <2>1, <2>2 DEF CreateWorker
<1>6. ASSUME NEW th \in Driver, RecordWorker(th)
      PROVE  WorkersOK'
    BY <1>6 DEF RecordWorker, Inv, HandsOK, HolderOK, WorkersOK, WorkerFactsAreLive, Live
<1>7. ASSUME NEW th \in Driver, StartWorker(th)
      PROVE  WorkersOK'
    BY <1>7 DEF StartWorker, Inv, HandsOK, HolderOK, WorkersOK, WorkerFactsAreLive, Live
<1>8. ASSUME NEW th \in Driver, NEW a \in Agent, SignalWorkers(th, a)
      PROVE  WorkersOK'
    BY <1>8 DEF SignalWorkers, Signal, Inv, WorkersOK, WorkerFactsAreLive, Live
<1>9. ASSUME DestroyWorkers
      PROVE  WorkersOK'
    BY <1>9 DEF DestroyWorkers, Signal, Inv, WorkersOK, WorkerFactsAreLive, Live
<1>10. ASSUME DestroyRegistry
      PROVE  WorkersOK'
    BY <1>10 DEF DestroyRegistry, Inv, WorkersOK, WorkerFactsAreLive, Live
<1>11. ASSUME NEW c \in Call, Work(c)
      PROVE  WorkersOK'
    BY <1>11 DEF Work, Move, Inv, Typed, TypeOK, WorkersOK, WorkerFactsAreLive, Live
<1>12. ASSUME NEW c \in Call, EndWork(c)
      PROVE  WorkersOK'
    BY <1>12 DEF EndWork, Move, Inv, Typed, TypeOK, WorkersOK, WorkerFactsAreLive, Live
<1>13. ASSUME NEW c \in Call, HandleSignal(c)
      PROVE  WorkersOK'
    BY <1>13 DEF HandleSignal, Move, Inv, Typed, TypeOK, WorkersOK, WorkerFactsAreLive, Live
<1>14. ASSUME NEW c \in Call, SendResult(c)
      PROVE  WorkersOK'
    BY <1>14 DEF SendResult, Move, Inv, Typed, TypeOK, WorkersOK, WorkerFactsAreLive, Live
<1>15. ASSUME NEW c \in Call, TellParent(c)
      PROVE  WorkersOK'
    BY <1>15 DEF TellParent, Move, Inv, Typed, TypeOK, WorkersOK, WorkerFactsAreLive, Live
<1>16. ASSUME NEW c \in Call, EndWorker(c)
      PROVE  WorkersOK'
    BY <1>16 DEF EndWorker, Move, Inv, Typed, TypeOK, WorkersOK, WorkerFactsAreLive, Live
<1>17. ASSUME NEW c \in Call, ForceFailure(c)
      PROVE  WorkersOK'
    <2>1. PICK p \in Live : worker[c] \in Live /\ worker' = [worker EXCEPT ![c] = p]
        BY <1>17 DEF ForceFailure, Move, Live
    <2> QED BY <1>17, <2>1 DEF ForceFailure, Inv, Typed, TypeOK, WorkersOK, WorkerFactsAreLive,
               Live
<1>18. QED
    BY Steps, <1>1, <1>2, <1>3, <1>4, <1>5, <1>6, <1>7, <1>8, <1>9, <1>10, <1>11, <1>12, <1>13,
        <1>14, <1>15, <1>16, <1>17

-----------------------------------------------------------------------------
(* The registry, as long as nobody destroys the runtime.                   *)

LEMMA OnlyRecorded ==
    ASSUME NEW th \in Driver, NEW steps, NEW R, Replaced(th, steps),
           \A i \in DOMAIN steps : steps[i][2] \in R,
           \A i \in DOMAIN todo[th] : todo[th][i][2] \in R
    PROVE  \A j \in DOMAIN todo'[th] : todo'[th][j][2] \in R
<1>1. ASSUME NEW j \in DOMAIN todo'[th] PROVE todo'[th][j][2] \in R
    <2>1. CASE j \in DOMAIN steps /\ todo'[th][j] = steps[j]
        BY <2>1
    <2>2. CASE \E i \in DOMAIN todo[th] : todo'[th][j] = todo[th][i]
        BY <2>2
    <2> QED BY <2>1, <2>2 DEF Replaced
<1>2. QED
    BY <1>1

LEMMA RegistryKept ==
    ASSUME Inv, [Next]_vars
    PROVE  RegistryOK'
<1>1. CASE UNCHANGED <<runtime, destroyed, recorded, born, owner, on, todo>>
    BY <1>1 DEF Inv, RegistryOK, Up
<1>2. ASSUME \/ UNCHANGED vars
             \/ \E a \in Agent : \E kind \in Posted : Send(a, kind)
             \/ \E th \in Driver : CreateWorker(th)
             \/ \E th \in Driver : RecordWorker(th)
             \/ \E c \in Call : Work(c)
             \/ \E c \in Call : HandleSignal(c)
             \/ \E c \in Call : SendResult(c)
             \/ \E c \in Call : ForceFailure(c)
             \/ \E c \in Call : TellParent(c)
             \/ \E c \in Call : EndWorker(c)
             \/ \E c \in Call : EndWork(c)
      PROVE  UNCHANGED <<runtime, destroyed, recorded, born, owner, on, todo>>
    BY <1>2 DEF vars, agents, engines, workers, drivers, cancels, Send, CreateWorker,
        RecordWorker, Work, HandleSignal, SendResult, ForceFailure, TellParent, EndWorker,
        EndWork, Begin, Goto, Return, EndPump
<1>3. ASSUME \/ \E th \in Driver : \E p \in Agent \cup {None} : BeginSpawn(th, p)
             \/ \E th \in Driver : \E a \in Agent : BeginStatus(th, a)
             \/ \E th \in Driver : \E a \in Agent : Pump(th, a)
      PROVE  RegistryOK'
    <2>1. UNCHANGED <<runtime, recorded, destroyed, born, owner, todo>>
        BY <1>3 DEF BeginSpawn, BeginStatus, Pump, Begin, agents, cancels
    <2>2. \A u \in Driver : on'[u] \in {on[u], None} \cup recorded
        BY <1>3 DEF BeginSpawn, BeginStatus, Pump, Begin, Inv, Typed, TypeOK
    <2> QED BY <2>1, <2>2 DEF Inv, RegistryOK, Up
<1>4. ASSUME NEW th \in Driver, NEW a \in Agent, NEW c \in Call, BeginSupervised(th, a, c)
      PROVE  RegistryOK'
    BY <1>4 DEF BeginSupervised, Begin, Assign, Inv, RegistryOK, Up, Typed, TypeOK, agents,
       cancels
<1>5. ASSUME NEW th \in Driver, NEW a \in Agent, BeginCancel(th, a)
      PROVE  RegistryOK'
    <2>1. StartCancel(th, a) /\ todo \in Plans /\ scope \in [Driver -> SUBSET Agent]
        BY <1>5 DEF BeginCancel, Inv, Typed, TypeOK
    <2>2. todo'[th] = <<<<"visit", a>>>> /\ \A u \in Driver : u # th => todo'[u] = todo[u]
        BY <2>1, Started
    <2>3. /\ a \in recorded /\ UNCHANGED <<runtime, recorded, destroyed, born, owner>>
          /\ \A u \in Driver : on'[u] \in {on[u], a}
        BY <1>5 DEF BeginCancel, Begin, Inv, Typed, TypeOK, agents
    <2>4. RegistryOK
        BY DEF Inv
    <2> QED BY <2>2, <2>3, <2>4 DEF RegistryOK, Up
<1>6. ASSUME NEW th \in Driver, Timeout(th)
      PROVE  RegistryOK'
    <2>1. PICK a \in Agent : a = on[th]
        BY <1>6 DEF Timeout, Inv, StagesOK
    <2>2. StartCancel(th, a) /\ todo \in Plans /\ scope \in [Driver -> SUBSET Agent]
        BY <1>6, <2>1 DEF Timeout, Inv, Typed, TypeOK
    <2>3. todo'[th] = <<<<"visit", a>>>> /\ \A u \in Driver : u # th => todo'[u] = todo[u]
        BY <2>1, <2>2, Started
    <2>4. /\ UNCHANGED <<runtime, destroyed, recorded, born, owner, on>>
          /\ Up => a \in recorded
        BY <1>6, <2>1, NoneAssumption DEF Timeout, Inv, RegistryOK, Up, agents
    <2> QED BY <2>3, <2>4 DEF Inv, RegistryOK, Up
<1>7. ASSUME NEW a \in Agent, NEW c \in Call, SendRequest(a, c)
      PROVE  RegistryOK'
    BY <1>7 DEF SendRequest, Assign, Inv, RegistryOK, Up, Typed, TypeOK, agents, drivers, cancels
<1>8. ASSUME \/ DestroyWorkers
             \/ DestroyPool
             \/ DestroyAgents
             \/ DestroyRegistry
      PROVE  RegistryOK'
    BY <1>8 DEF DestroyWorkers, DestroyPool, DestroyAgents, DestroyRegistry, RegistryOK, Up
<1>9. ASSUME NEW th \in Driver, Spawn(th)
      PROVE  RegistryOK'
    <2>1. Drivers /\ Return(th) /\ UNCHANGED <<runtime, destroyed, owner, todo>>
        BY <1>9, Parts DEF Spawn, Inv, cancels
    <2>2. on'[th] = None /\ Others(th)
        BY <2>1, Returned
    <2>3. recorded \subseteq recorded' /\ (Up => recorded' \subseteq 1 .. born')
        BY <1>9 DEF Spawn, Inv, RegistryOK, Up, Typed, TypeOK
    <2> QED BY <2>1, <2>2, <2>3 DEF Others, Inv, RegistryOK, Up
<1>10. ASSUME NEW th \in Driver, Deliver(th)
      PROVE  RegistryOK'
    <2>1. PICK a \in Agent, m \in Letter : a = on[th] /\ m = message[th]
        BY <1>10 DEF Deliver, Inv, StagesOK
    <2>2. Drivers /\ Engines /\ UNCHANGED <<runtime, recorded, destroyed, born, owner, todo>>
        BY <1>10, Parts DEF Deliver, Inv, Rest, agents, cancels
    <2>3. Others(th) /\ on'[th] \in {None, on[th]}
        BY <1>10, <2>1, <2>2, Delivered
    <2> QED BY <2>2, <2>3 DEF Others, Inv, RegistryOK, Up
<1>11. ASSUME NEW th \in Driver, Notify(th)
      PROVE  RegistryOK'
    <2>1. Drivers /\ UNCHANGED <<runtime, recorded, destroyed, born, owner, todo>>
        BY <1>11, Parts DEF Notify, Inv, agents, cancels
    <2>2. CASE Return(th)
        BY <2>1, <2>2, Returned DEF Others, Inv, RegistryOK, Up
    <2>3. CASE EndPump(th)
        BY <2>1, <2>3, PumpEnded DEF Others, Inv, RegistryOK, Up
    <2> QED BY <1>11, <2>2, <2>3 DEF Notify
<1>12. ASSUME NEW th \in Driver, StartWorker(th)
      PROVE  RegistryOK'
    <2>1. Drivers /\ UNCHANGED <<runtime, recorded, destroyed, born, owner, todo>>
        BY <1>12, Parts DEF StartWorker, Inv, agents, cancels
    <2>2. CASE Return(th)
        BY <2>1, <2>2, Returned DEF Others, Inv, RegistryOK, Up
    <2>3. CASE EndPump(th)
        BY <2>1, <2>3, PumpEnded DEF Others, Inv, RegistryOK, Up
    <2> QED BY <1>12, <2>2, <2>3 DEF StartWorker
<1>13. ASSUME NEW th \in Driver, FailPendingCall(th)
      PROVE  RegistryOK'
    <2>1. Drivers /\ UNCHANGED <<runtime, recorded, destroyed, born, owner, todo>>
        BY <1>13, Parts DEF FailPendingCall, Inv, agents, cancels
    <2>2. CASE Return(th)
        BY <2>1, <2>2, Returned DEF Others, Inv, RegistryOK, Up
    <2>3. CASE UNCHANGED on
        BY <2>1, <2>3 DEF Inv, RegistryOK, Up
    <2> QED BY <1>13, <2>2, <2>3 DEF FailPendingCall
<1>14. ASSUME NEW th \in Driver, Admit(th)
      PROVE  RegistryOK'
    <2>1. Drivers /\ UNCHANGED <<runtime, recorded, destroyed, born, owner, todo>>
        BY <1>14, Parts DEF Admit, Inv, agents, cancels
    <2>2. CASE Return(th)
        BY <2>1, <2>2, Returned DEF Others, Inv, RegistryOK, Up
    <2>3. CASE UNCHANGED on
        BY <2>1, <2>3 DEF Inv, RegistryOK, Up
    <2> QED BY <1>14, <2>2, <2>3 DEF Admit
<1>15. ASSUME NEW th \in Driver, Inspect(th)
      PROVE  RegistryOK'
    <2>1. Drivers /\ UNCHANGED <<runtime, recorded, destroyed, born, owner, todo>>
        BY <1>15, Parts DEF Inspect, Inv, agents, cancels
    <2>2. CASE Return(th)
        BY <2>1, <2>2, Returned DEF Others, Inv, RegistryOK, Up
    <2>3. CASE UNCHANGED on
        BY <2>1, <2>3 DEF Inv, RegistryOK, Up
    <2> QED BY <1>15, <2>2, <2>3 DEF Inspect
<1>16. ASSUME NEW th \in Driver, PumpSlice(th)
      PROVE  RegistryOK'
    <2>1. Drivers /\ UNCHANGED <<runtime, recorded, destroyed, born, owner, todo>>
        BY <1>16, Parts DEF PumpSlice, Inv, agents, cancels
    <2>2. CASE Return(th)
        BY <2>1, <2>2, Returned DEF Others, Inv, RegistryOK, Up
    <2>3. CASE EndPump(th)
        BY <2>1, <2>3, PumpEnded DEF Others, Inv, RegistryOK, Up
    <2>4. CASE UNCHANGED on
        BY <2>1, <2>4 DEF Inv, RegistryOK, Up
    <2> QED BY <1>16, <2>2, <2>3, <2>4 DEF PumpSlice
<1>17. ASSUME NEW th \in Driver, EndStatus(th)
      PROVE  RegistryOK'
    <2>1. Drivers /\ UNCHANGED <<runtime, recorded, destroyed, born, owner, todo>>
        BY <1>17, Parts DEF EndStatus, Inv, agents, cancels
    <2>2. CASE Return(th)
        BY <2>1, <2>2, Returned DEF Others, Inv, RegistryOK, Up
    <2> QED BY <1>17, <2>2 DEF EndStatus
<1>18. ASSUME NEW th \in Driver, EndCancel(th)
      PROVE  RegistryOK'
    <2>1. Drivers /\ UNCHANGED <<runtime, recorded, destroyed, born, owner, todo>>
        BY <1>18, Parts DEF EndCancel, Inv, agents, cancels
    <2>2. CASE Return(th)
        BY <2>1, <2>2, Returned DEF Others, Inv, RegistryOK, Up
    <2> QED BY <1>18, <2>2 DEF EndCancel
<1>19. ASSUME NEW th \in Driver, NEW a \in Agent, Visit(th, a)
      PROVE  RegistryOK'
    <2>1. todo[th] # <<>> /\ todo \in Plans /\ recorded \in SUBSET Agent
        BY <1>19 DEF Visit, NextIs, Inv, Typed, TypeOK
    <2>2. RegistryOK /\ UNCHANGED <<runtime, destroyed, recorded, born, owner, on>>
        BY <1>19 DEF Visit, Inv, agents, drivers
    <2>3. CASE Then(th, Below(a)) /\ a \in recorded
        <3>1. Below(a) \in Seq(Item) /\ \A i \in DOMAIN Below(a) : Below(a)[i][2] \in recorded
            BY <2>1, <2>3, BelowIs
        <3>2. Replaced(th, Below(a))
            BY <2>1, <2>3, <3>1, Replacing
        <3>3. Up => \A j \in DOMAIN todo'[th] : todo'[th][j][2] \in recorded
            BY <2>2, <3>1, <3>2, OnlyRecorded DEF RegistryOK
        <3>4. \A u \in Driver : u # th => todo'[u] = todo[u]
            BY <3>2 DEF Replaced
        <3> QED BY <2>2, <3>3, <3>4 DEF RegistryOK, Up
    <2>4. CASE Then(th, <<>>)
        <3>1. <<>> \in Seq(Item)
            OBVIOUS
        <3>2. Replaced(th, <<>>)
            BY <2>1, <2>4, <3>1, Replacing
        <3> QED BY <2>2, <3>2 DEF Replaced, RegistryOK, Up
    <2> QED BY <1>19, <2>3, <2>4 DEF Visit, Below
<1>20. ASSUME NEW th \in Driver, NEW a \in Agent, SignalWorkers(th, a)
      PROVE  RegistryOK'
    <2>1. todo[th] # <<>> /\ todo \in Plans /\ <<>> \in Seq(Item) /\ Then(th, <<>>)
        BY <1>20 DEF SignalWorkers, NextIs, Inv, Typed
    <2>2. Replaced(th, <<>>)
        BY <2>1, Replacing
    <2>3. RegistryOK /\ UNCHANGED <<runtime, destroyed, recorded, born, owner, on>>
        BY <1>20 DEF SignalWorkers, Inv, agents, drivers
    <2> QED BY <2>2, <2>3 DEF Replaced, RegistryOK, Up
<1>21. ASSUME NEW th \in Driver, NEW a \in Agent, CancelEngine(th, a)
      PROVE  RegistryOK'
    <2>1. todo[th] # <<>> /\ todo \in Plans /\ <<>> \in Seq(Item) /\ Then(th, <<>>)
        BY <1>21 DEF CancelEngine, NextIs, Inv, Typed
    <2>2. Replaced(th, <<>>)
        BY <2>1, Replacing
    <2>3. RegistryOK /\ UNCHANGED <<runtime, destroyed, recorded, born, owner, on>>
        BY <1>21 DEF CancelEngine, Inv, agents, drivers
    <2> QED BY <2>2, <2>3 DEF Replaced, RegistryOK, Up
<1>22. ASSUME NEW th \in Driver, Interrupt(th)
      PROVE  RegistryOK'
    <2>1. Drivers /\ Rest /\ UNCHANGED <<runtime, recorded, destroyed, born, owner>>
        BY <1>22, Parts DEF Interrupt, Inv, agents
    <2>2. CASE StartCancel(th, on[th]) /\ UNCHANGED on /\ waits[th] # None
        <3>1. PICK a \in Agent : a = on[th]
            BY <1>22, <2>1, <2>2 DEF Interrupt, Inv, StagesOK, Drivers, Stage
        <3>2. todo'[th] = <<<<"visit", a>>>> /\ \A u \in Driver : u # th => todo'[u] = todo[u]
            BY <2>1, <2>2, <3>1, Started DEF Rest
        <3> QED BY <2>1, <2>2, <3>1, <3>2, NoneAssumption DEF Inv, RegistryOK, Up
    <2>3. CASE Return(th) /\ todo' = [todo EXCEPT ![th] = <<>>]
        <3>1. on'[th] = None /\ Others(th)
            BY <2>1, <2>3, Returned
        <3>2. todo'[th] = <<>> /\ \A u \in Driver : u # th => todo'[u] = todo[u]
            BY <2>1, <2>3, Emptied DEF Rest
        <3> QED BY <2>1, <3>1, <3>2 DEF Others, Inv, RegistryOK, Up
    <2> QED BY <1>22, <2>2, <2>3 DEF Interrupt
<1>23. QED
    BY Steps, <1>1, <1>2, <1>3, <1>4, <1>5, <1>6, <1>7, <1>8, <1>9, <1>10, <1>11, <1>12, <1>13,
        <1>14, <1>15, <1>16, <1>17, <1>18, <1>19, <1>20, <1>21, <1>22

\* A driver moves alone.
LEMMA OneMoves ==
    ASSUME Typed, StagesOK, NEW th \in Driver,
           \/ \E p \in Agent \cup {None} : BeginSpawn(th, p)
           \/ \E a \in Agent : BeginStatus(th, a)
           \/ \E a \in Agent : Pump(th, a)
           \/ \E a \in Agent : \E c \in Call : BeginSupervised(th, a, c)
           \/ \E a \in Agent : BeginCancel(th, a)
           \/ Spawn(th)
           \/ Deliver(th)
           \/ Notify(th)
           \/ CreateWorker(th)
           \/ RecordWorker(th)
           \/ StartWorker(th)
           \/ FailPendingCall(th)
           \/ Admit(th)
           \/ Inspect(th)
           \/ PumpSlice(th)
           \/ EndStatus(th)
           \/ \E a \in Agent : Visit(th, a)
           \/ \E a \in Agent : SignalWorkers(th, a)
           \/ \E a \in Agent : CancelEngine(th, a)
           \/ EndCancel(th)
           \/ Timeout(th)
           \/ Interrupt(th)
    PROVE  Others(th)
<1>1. Drivers /\ Engines /\ Rest
    BY Parts, TypedGives
<1>2. CASE Return(th)
    BY <1>1, <1>2, Returned
<1>3. CASE EndPump(th)
    BY <1>1, <1>3, PumpEnded
<1>4. ASSUME NEW p \in Agent \cup {None}, BeginSpawn(th, p)
      PROVE  Others(th)
    BY <1>4 DEF BeginSpawn, Goto, Others, Drivers
<1>5. ASSUME NEW a \in Agent, BeginStatus(th, a)
      PROVE  Others(th)
    BY <1>1, <1>5 DEF BeginStatus, Begin, Goto, Others, Drivers
<1>6. ASSUME NEW a \in Agent, Pump(th, a)
      PROVE  Others(th)
    BY <1>1, <1>6 DEF Pump, Receive, Begin, Goto, Others, Drivers
<1>7. ASSUME NEW a \in Agent, NEW c \in Call, BeginSupervised(th, a, c)
      PROVE  Others(th)
    BY <1>1, <1>7 DEF BeginSupervised, Begin, Goto, Others, Drivers
<1>8. ASSUME NEW a \in Agent, BeginCancel(th, a)
      PROVE  Others(th)
    BY <1>1, <1>8 DEF BeginCancel, Begin, Goto, Others, Drivers
<1>9. CASE Deliver(th)
    <2>1. PICK a \in Agent, m \in Letter : a = on[th] /\ m = message[th]
        BY <1>9 DEF Deliver, StagesOK
    <2> QED BY <1>1, <1>9, <2>1, Delivered
<1>10. ASSUME NEW a \in Agent, Visit(th, a) \/ SignalWorkers(th, a) \/ CancelEngine(th, a)
      PROVE  Others(th)
    BY <1>10 DEF Visit, SignalWorkers, CancelEngine, drivers, Others
<1>11. CASE CreateWorker(th)
    BY <1>1, <1>11 DEF CreateWorker, Goto, Others, Drivers
<1>12. CASE RecordWorker(th)
    BY <1>1, <1>12 DEF RecordWorker, Goto, Others, Drivers
<1>13. CASE Timeout(th)
    BY <1>1, <1>13 DEF Timeout, Goto, Others, Drivers
<1>14. CASE PumpSlice(th)
    <2>1. CASE Receive(th, on[th]) /\ Goto(th, "delivering") /\ UNCHANGED <<on, at, waits>>
        BY <1>1, <2>1 DEF Receive, Goto, Others, Drivers
    <2> QED BY <1>14, <1>2, <1>3, <2>1 DEF PumpSlice
<1>15. CASE Interrupt(th)
    <2>1. CASE /\ Goto(th, "cancelling")
               /\ message' = [message EXCEPT ![th] = None]
               /\ waits' = [waits EXCEPT ![th] = None]
               /\ UNCHANGED <<on, at>>
        BY <1>1, <2>1 DEF Goto, Others, Drivers
    <2> QED BY <1>15, <1>2, <2>1 DEF Interrupt
<1>16. CASE \E p \in Stage : Goto(th, p) /\ UNCHANGED <<on, at, message, waits>>
    BY <1>1, <1>16, Gone
<1>17. CASE Inspect(th) \/ FailPendingCall(th) \/ Admit(th)
    BY <1>2, <1>16, <1>17 DEF Inspect, FailPendingCall, Admit, Stage
<1>18. CASE Spawn(th) \/ Notify(th) \/ StartWorker(th) \/ EndStatus(th) \/ EndCancel(th)
    BY <1>2, <1>3, <1>18 DEF Spawn, Notify, StartWorker, EndStatus, EndCancel
<1>19. QED
    BY <1>2, <1>3, <1>4, <1>5, <1>6, <1>7, <1>8, <1>9, <1>10, <1>11, <1>12, <1>13, <1>14, <1>15,
        <1>16, <1>17, <1>18

-----------------------------------------------------------------------------
(* The plans of cancellations.                                             *)

PlanOK(th) ==
    /\ pc[th] # "cancelling" => todo[th] = <<>>
    /\ \A i \in DOMAIN todo[th] :
          todo[th][i][1] = "signal" =>
              i + 1 \in DOMAIN todo[th] /\ todo[th][i + 1] = <<"engine", todo[th][i][2]>>

LEMMA OnePlan ==
    ASSUME PlansOK, NEW th \in Driver, Others(th), PlanOK(th)',
           \A u \in Driver : u # th => todo'[u] = todo[u]
    PROVE  PlansOK'
    BY DEF PlansOK, Others, PlanOK

\* What a plan keeps when its first step is replaced.
LEMMA PlanGoesOn ==
    ASSUME todo \in Plans, PlansOK, NEW th \in Driver, pc'[th] = "cancelling",
           NEW steps \in Seq(Item), Replaced(th, steps),
           \A i \in DOMAIN steps : steps[i][1] = "signal" =>
               i + 1 \in DOMAIN steps /\ steps[i + 1] = <<"engine", steps[i][2]>>
    PROVE  PlanOK(th)'
<1> DEFINE n == Len(steps)
<1>1. n \in Nat
    BY DEF Replaced
<1>2. ASSUME NEW j \in DOMAIN todo'[th], todo'[th][j][1] = "signal"
      PROVE  j + 1 \in DOMAIN todo'[th] /\ todo'[th][j + 1] = <<"engine", todo'[th][j][2]>>
    <2>1. CASE j \in DOMAIN steps /\ todo'[th][j] = steps[j]
        BY <1>2, <2>1 DEF Replaced
    <2>2. CASE /\ j + 1 - n \in DOMAIN todo[th]
               /\ todo'[th][j] = todo[th][j + 1 - n]
        <3>1. PICK i \in DOMAIN todo[th] : i = j + 1 - n /\ todo'[th][j] = todo[th][i]
            BY <2>2
        <3>2. i \in Nat \ {0} /\ j \in Nat
            <4>1. todo[th] \in Seq(Item)
                BY DEF Plans
            <4>2. i \in Nat \ {0}
                BY <4>1
            <4> QED BY <4>2 DEF Replaced
        <3>3. i + 1 \in DOMAIN todo[th] /\ todo[th][i + 1] = <<"engine", todo[th][i][2]>>
            BY <1>2, <3>1 DEF PlansOK
        <3>4. i + 1 # 1 /\ i + 1 + n - 1 = j + 1
            <4> HIDE DEF n
            <4> QED BY <1>1, <3>1, <3>2
        <3>5. i + 1 + n - 1 \in DOMAIN todo'[th] /\ todo'[th][i + 1 + n - 1] = todo[th][i + 1]
            BY <3>3, <3>4 DEF Replaced
        <3> QED BY <3>1, <3>3, <3>4, <3>5
    <2> QED BY <2>1, <2>2 DEF Replaced
<1>3. QED
    BY <1>2 DEF PlanOK


LEMMA PlansKept ==
    ASSUME Inv, [Next]_vars
    PROVE  PlansOK'
<1>1. CASE UNCHANGED <<pc, todo>>
    BY <1>1 DEF Inv, PlansOK, PlanOK
<1>2. ASSUME \/ UNCHANGED vars
             \/ \E a \in Agent : \E c \in Call : SendRequest(a, c)
             \/ \E a \in Agent : \E kind \in Posted : Send(a, kind)
             \/ DestroyWorkers
             \/ \E c \in Call : Work(c)
             \/ \E c \in Call : HandleSignal(c)
             \/ \E c \in Call : SendResult(c)
             \/ \E c \in Call : ForceFailure(c)
             \/ \E c \in Call : TellParent(c)
             \/ \E c \in Call : EndWorker(c)
             \/ \E c \in Call : EndWork(c)
             \/ DestroyPool
             \/ DestroyAgents
             \/ DestroyRegistry
      PROVE  UNCHANGED <<pc, todo>>
    BY <1>2 DEF vars, agents, engines, workers, drivers, cancels, SendRequest, Send,
        DestroyWorkers, Work, HandleSignal, SendResult, ForceFailure, TellParent, EndWorker,
        EndWork, DestroyPool, DestroyAgents, DestroyRegistry, Begin, Goto, Return, EndPump
<1>3. ASSUME NEW th \in Driver, NEW p \in Agent \cup {None}, BeginSpawn(th, p)
      PROVE  PlansOK'
    <2>1. Others(th)
        BY <1>3, OneMoves DEF Inv
    <2>2. UNCHANGED todo /\ pc[th] # "cancelling"
        BY <1>3 DEF BeginSpawn, Begin, cancels
    <2> QED BY <2>1, <2>2, OnePlan DEF Inv, PlansOK, PlanOK
<1>4. ASSUME NEW th \in Driver, NEW a \in Agent, BeginStatus(th, a)
      PROVE  PlansOK'
    <2>1. Others(th)
        BY <1>4, OneMoves DEF Inv
    <2>2. UNCHANGED todo /\ pc[th] # "cancelling"
        BY <1>4 DEF BeginStatus, Begin, cancels
    <2> QED BY <2>1, <2>2, OnePlan DEF Inv, PlansOK, PlanOK
<1>5. ASSUME NEW th \in Driver, NEW a \in Agent, Pump(th, a)
      PROVE  PlansOK'
    <2>1. Others(th)
        BY <1>5, OneMoves DEF Inv
    <2>2. UNCHANGED todo /\ pc[th] # "cancelling"
        BY <1>5 DEF Pump, Begin, cancels
    <2> QED BY <2>1, <2>2, OnePlan DEF Inv, PlansOK, PlanOK
<1>6. ASSUME NEW th \in Driver, NEW a \in Agent, NEW c \in Call, BeginSupervised(th, a, c)
      PROVE  PlansOK'
    <2>1. Others(th)
        BY <1>6, OneMoves DEF Inv
    <2>2. UNCHANGED todo /\ pc[th] # "cancelling"
        BY <1>6 DEF BeginSupervised, Begin, cancels
    <2> QED BY <2>1, <2>2, OnePlan DEF Inv, PlansOK, PlanOK
<1>7. ASSUME NEW th \in Driver, Spawn(th)
      PROVE  PlansOK'
    <2>1. Others(th)
        BY <1>7, OneMoves DEF Inv
    <2>2. UNCHANGED todo /\ pc[th] # "cancelling"
        BY <1>7 DEF Spawn, Begin, cancels
    <2> QED BY <2>1, <2>2, OnePlan DEF Inv, PlansOK, PlanOK
<1>8. ASSUME NEW th \in Driver, Deliver(th)
      PROVE  PlansOK'
    <2>1. Others(th)
        BY <1>8, OneMoves DEF Inv
    <2>2. UNCHANGED todo /\ pc[th] # "cancelling"
        BY <1>8 DEF Deliver, Begin, cancels
    <2> QED BY <2>1, <2>2, OnePlan DEF Inv, PlansOK, PlanOK
<1>9. ASSUME NEW th \in Driver, Notify(th)
      PROVE  PlansOK'
    <2>1. Others(th)
        BY <1>9, OneMoves DEF Inv
    <2>2. UNCHANGED todo /\ pc[th] # "cancelling"
        BY <1>9 DEF Notify, Begin, cancels
    <2> QED BY <2>1, <2>2, OnePlan DEF Inv, PlansOK, PlanOK
<1>10. ASSUME NEW th \in Driver, CreateWorker(th)
      PROVE  PlansOK'
    <2>1. Others(th)
        BY <1>10, OneMoves DEF Inv
    <2>2. UNCHANGED todo /\ pc[th] # "cancelling"
        BY <1>10 DEF CreateWorker, Begin, cancels
    <2> QED BY <2>1, <2>2, OnePlan DEF Inv, PlansOK, PlanOK
<1>11. ASSUME NEW th \in Driver, RecordWorker(th)
      PROVE  PlansOK'
    <2>1. Others(th)
        BY <1>11, OneMoves DEF Inv
    <2>2. UNCHANGED todo /\ pc[th] # "cancelling"
        BY <1>11 DEF RecordWorker, Begin, cancels
    <2> QED BY <2>1, <2>2, OnePlan DEF Inv, PlansOK, PlanOK
<1>12. ASSUME NEW th \in Driver, StartWorker(th)
      PROVE  PlansOK'
    <2>1. Others(th)
        BY <1>12, OneMoves DEF Inv
    <2>2. UNCHANGED todo /\ pc[th] # "cancelling"
        BY <1>12 DEF StartWorker, Begin, cancels
    <2> QED BY <2>1, <2>2, OnePlan DEF Inv, PlansOK, PlanOK
<1>13. ASSUME NEW th \in Driver, FailPendingCall(th)
      PROVE  PlansOK'
    <2>1. Others(th)
        BY <1>13, OneMoves DEF Inv
    <2>2. UNCHANGED todo /\ pc[th] # "cancelling"
        BY <1>13 DEF FailPendingCall, Begin, cancels
    <2> QED BY <2>1, <2>2, OnePlan DEF Inv, PlansOK, PlanOK
<1>14. ASSUME NEW th \in Driver, Admit(th)
      PROVE  PlansOK'
    <2>1. Others(th)
        BY <1>14, OneMoves DEF Inv
    <2>2. UNCHANGED todo /\ pc[th] # "cancelling"
        BY <1>14 DEF Admit, Begin, cancels
    <2> QED BY <2>1, <2>2, OnePlan DEF Inv, PlansOK, PlanOK
<1>15. ASSUME NEW th \in Driver, Inspect(th)
      PROVE  PlansOK'
    <2>1. Others(th)
        BY <1>15, OneMoves DEF Inv
    <2>2. UNCHANGED todo /\ pc[th] # "cancelling"
        BY <1>15 DEF Inspect, Begin, cancels
    <2> QED BY <2>1, <2>2, OnePlan DEF Inv, PlansOK, PlanOK
<1>16. ASSUME NEW th \in Driver, PumpSlice(th)
      PROVE  PlansOK'
    <2>1. Others(th)
        BY <1>16, OneMoves DEF Inv
    <2>2. UNCHANGED todo /\ pc[th] # "cancelling"
        BY <1>16 DEF PumpSlice, Begin, cancels
    <2> QED BY <2>1, <2>2, OnePlan DEF Inv, PlansOK, PlanOK
<1>17. ASSUME NEW th \in Driver, EndStatus(th)
      PROVE  PlansOK'
    <2>1. Others(th)
        BY <1>17, OneMoves DEF Inv
    <2>2. UNCHANGED todo /\ pc[th] # "cancelling"
        BY <1>17 DEF EndStatus, Begin, cancels
    <2> QED BY <2>1, <2>2, OnePlan DEF Inv, PlansOK, PlanOK
<1>18. ASSUME NEW th \in Driver, NEW a \in Agent, BeginCancel(th, a)
      PROVE  PlansOK'
    <2>1. Others(th) /\ todo \in Plans /\ scope \in [Driver -> SUBSET Agent] /\ StartCancel(th, a)
        BY <1>18, OneMoves DEF Inv, Typed, TypeOK, BeginCancel
    <2>2. todo'[th] = <<<<"visit", a>>>> /\ \A u \in Driver : u # th => todo'[u] = todo[u]
        BY <2>1, Started
    <2>3. pc'[th] = "cancelling"
        BY <1>18 DEF BeginCancel, Begin, Goto, Inv, Typed
    <2>4. PlanOK(th)'
        BY <2>2, <2>3 DEF PlanOK
    <2> QED BY <2>1, <2>2, <2>4, OnePlan DEF Inv
<1>19. ASSUME NEW th \in Driver, Timeout(th)
      PROVE  PlansOK'
    <2>1. PICK a \in Agent : a = on[th]
        BY <1>19 DEF Timeout, Inv, StagesOK
    <2>2. Others(th) /\ todo \in Plans /\ scope \in [Driver -> SUBSET Agent] /\ StartCancel(th, a)
        BY <1>19, <2>1, OneMoves DEF Inv, Typed, TypeOK, Timeout
    <2>3. todo'[th] = <<<<"visit", a>>>> /\ \A u \in Driver : u # th => todo'[u] = todo[u]
        BY <2>1, <2>2, Started
    <2>4. pc'[th] = "cancelling"
        BY <1>19 DEF Timeout, Goto, Inv, Typed
    <2>5. PlanOK(th)'
        BY <2>3, <2>4 DEF PlanOK
    <2> QED BY <2>2, <2>3, <2>5, OnePlan DEF Inv
<1>20. ASSUME NEW th \in Driver, Interrupt(th)
      PROVE  PlansOK'
    <2>1. Drivers /\ Rest /\ Others(th)
        BY <1>20, Parts, OneMoves DEF Inv
    <2>2. CASE StartCancel(th, on[th]) /\ Goto(th, "cancelling") /\ waits[th] # None
        <3>1. PICK a \in Agent : a = on[th]
            BY <1>20, <2>1, <2>2 DEF Interrupt, Inv, StagesOK, Drivers, Stage
        <3>2. todo'[th] = <<<<"visit", a>>>> /\ \A u \in Driver : u # th => todo'[u] = todo[u]
            BY <2>1, <2>2, <3>1, Started DEF Rest
        <3>3. PlanOK(th)'
            BY <2>1, <2>2, <3>2 DEF PlanOK, Goto, Drivers
        <3> QED BY <2>1, <3>2, <3>3, OnePlan DEF Inv
    <2>3. CASE Return(th) /\ todo' = [todo EXCEPT ![th] = <<>>]
        <3>1. todo'[th] = <<>> /\ \A u \in Driver : u # th => todo'[u] = todo[u]
            BY <2>1, <2>3, Emptied DEF Rest
        <3>2. PlanOK(th)'
            BY <3>1 DEF PlanOK
        <3> QED BY <2>1, <3>1, <3>2, OnePlan DEF Inv
    <2> QED BY <1>20, <2>2, <2>3 DEF Interrupt
<1>21. ASSUME NEW th \in Driver, EndCancel(th)
      PROVE  PlansOK'
    <2>1. Others(th) /\ UNCHANGED todo /\ todo[th] = <<>>
        BY <1>21, OneMoves DEF Inv, EndCancel
    <2>2. PlanOK(th)'
        BY <2>1 DEF PlanOK
    <2> QED BY <2>1, <2>2, OnePlan DEF Inv
<1>22. ASSUME NEW th \in Driver, NEW a \in Agent, Visit(th, a)
      PROVE  PlansOK'
    <2>1. /\ todo[th] # <<>> /\ todo \in Plans /\ recorded \in SUBSET Agent
          /\ Others(th) /\ pc'[th] = "cancelling"
        BY <1>22, OneMoves DEF Visit, NextIs, Inv, Typed, TypeOK, drivers
    <2>2. CASE Then(th, Below(a)) /\ a \in recorded
        <3>1. /\ Below(a) \in Seq(Item)
              /\ \A i \in DOMAIN Below(a) : Below(a)[i][1] = "signal" =>
                     i + 1 \in DOMAIN Below(a) /\ Below(a)[i + 1] = <<"engine", Below(a)[i][2]>>
            BY <2>1, <2>2, BelowIs
        <3>2. Replaced(th, Below(a))
            BY <2>1, <2>2, <3>1, Replacing
        <3>3. PlanOK(th)'
            BY <2>1, <3>1, <3>2, PlanGoesOn DEF Inv
        <3> QED BY <2>1, <3>2, <3>3, OnePlan DEF Inv, Replaced
    <2>3. CASE Then(th, <<>>)
        <3>1. <<>> \in Seq(Item) /\ DOMAIN <<>> = {}
            OBVIOUS
        <3>2. Replaced(th, <<>>)
            BY <2>1, <2>3, <3>1, Replacing
        <3>3. PlanOK(th)'
            BY <2>1, <3>1, <3>2, PlanGoesOn DEF Inv
        <3> QED BY <2>1, <3>2, <3>3, OnePlan DEF Inv, Replaced
    <2> QED BY <1>22, <2>2, <2>3 DEF Visit, Below
<1>23. ASSUME NEW th \in Driver, NEW a \in Agent, SignalWorkers(th, a)
      PROVE  PlansOK'
    <2>1. /\ todo[th] # <<>> /\ todo \in Plans /\ Then(th, <<>>)
          /\ Others(th) /\ pc'[th] = "cancelling"
        BY <1>23, OneMoves DEF SignalWorkers, NextIs, Inv, Typed, drivers
    <2>2. <<>> \in Seq(Item) /\ DOMAIN <<>> = {}
        OBVIOUS
    <2>3. Replaced(th, <<>>)
        BY <2>1, <2>2, Replacing
    <2>4. PlanOK(th)'
        BY <2>1, <2>2, <2>3, PlanGoesOn DEF Inv
    <2> QED BY <2>1, <2>3, <2>4, OnePlan DEF Inv, Replaced
<1>24. ASSUME NEW th \in Driver, NEW a \in Agent, CancelEngine(th, a)
      PROVE  PlansOK'
    <2>1. /\ todo[th] # <<>> /\ todo \in Plans /\ Then(th, <<>>)
          /\ Others(th) /\ pc'[th] = "cancelling"
        BY <1>24, OneMoves DEF CancelEngine, NextIs, Inv, Typed, drivers
    <2>2. <<>> \in Seq(Item) /\ DOMAIN <<>> = {}
        OBVIOUS
    <2>3. Replaced(th, <<>>)
        BY <2>1, <2>2, Replacing
    <2>4. PlanOK(th)'
        BY <2>1, <2>2, <2>3, PlanGoesOn DEF Inv
    <2> QED BY <2>1, <2>3, <2>4, OnePlan DEF Inv, Replaced
<1>25. QED
    BY Steps, <1>1, <1>2, <1>3, <1>4, <1>5, <1>6, <1>7, <1>8, <1>9, <1>10, <1>11, <1>12, <1>13,
        <1>14, <1>15, <1>16, <1>17, <1>18, <1>19, <1>20, <1>21, <1>22, <1>23, <1>24

-----------------------------------------------------------------------------
(* The trees cancellations go through.                                     *)

Closed(A) == \A c \in recorded : parent[c] \in A => c \in A

LEMMA Trees ==
    ASSUME recorded \in SUBSET Agent, NEW a \in recorded
    PROVE  /\ Tree(a) \subseteq recorded
           /\ \A b \in Tree(a) : b = a \/ \E c \in Children(a) : b \in Tree(c)
<1>1. \A c \in Agent : c \in Tree(c)
    BY DEF Tree
<1>2. \A d \in Agent : \A c \in recorded : parent[c] \in Tree(d) => c \in Tree(d)
    BY DEF Tree
<1>3. Tree(a) \subseteq recorded
    BY DEF Tree
<1> DEFINE A == {a} \cup {b \in Agent : \E c \in Children(a) : b \in Tree(c)}
<1>4. A \in SUBSET Agent /\ a \in A
    OBVIOUS
<1>5. ASSUME NEW c \in recorded, parent[c] \in A PROVE c \in A
    <2>1. CASE parent[c] = a
        <3>1. c \in Children(a) /\ c \in Tree(c)
            BY <1>1, <2>1 DEF Children
        <3> QED BY <3>1
    <2>2. CASE \E d \in Children(a) : parent[c] \in Tree(d)
        BY <1>2, <2>2 DEF Children
    <2> QED BY <1>5, <2>1, <2>2
<1>6. Tree(a) \subseteq A
    <2> HIDE DEF A
    <2> QED BY <1>4, <1>5 DEF Tree
<1>7. QED
    BY <1>3, <1>6

\* What no step takes back before the runtime is destroyed.
Onward ==
    /\ Up
    /\ recorded \subseteq recorded'
    /\ \A c \in recorded : parent'[c] = parent[c]
    /\ disturbed \subseteq disturbed'
    /\ \A b \in recorded : status'[b] = "active" => status[b] = "active"

LEMMA TreesGrow ==
    ASSUME recorded \in SUBSET Agent, Onward
    PROVE  \A a : Tree(a) \subseteq Tree(a)'
<1>1. ASSUME NEW a, NEW b \in Tree(a), NEW A \in SUBSET Agent, a \in A,
             \A c \in recorded' : parent'[c] \in A => c \in A
      PROVE  b \in A
    <2>1. \A c \in recorded : parent[c] \in A => c \in A
        BY <1>1 DEF Onward
    <2> QED BY <1>1, <2>1 DEF Tree
<1>2. ASSUME NEW a, NEW b \in Tree(a) PROVE b \in Tree(a)'
    <2>1. b \in Agent
        BY DEF Tree
    <2>2. \A A \in SUBSET Agent : 
             a \in A /\ (\A c \in recorded' : parent'[c] \in A => c \in A) => b \in A
        BY <1>1
    <2> QED BY <2>1, <2>2 DEF Tree
<1>3. QED
    BY <1>2

LEMMA GoesOn ==
    ASSUME Inv, [Next]_vars, Up'
    PROVE  Onward
<1>1. CASE UNCHANGED <<runtime, recorded, parent, disturbed, status>>
    BY <1>1 DEF Onward, Up
<1>2. ASSUME \/ UNCHANGED vars
             \/ \E th \in Driver : \E p \in Agent \cup {None} : BeginSpawn(th, p)
             \/ \E th \in Driver : \E a \in Agent : BeginStatus(th, a)
             \/ \E th \in Driver : \E a \in Agent : Pump(th, a)
             \/ \E th \in Driver : \E a \in Agent : \E c \in Call : BeginSupervised(th, a, c)
             \/ \E th \in Driver : \E a \in Agent : BeginCancel(th, a)
             \/ \E a \in Agent : \E c \in Call : SendRequest(a, c)
             \/ \E a \in Agent : \E kind \in Posted : Send(a, kind)
             \/ \E th \in Driver : Notify(th)
             \/ \E th \in Driver : CreateWorker(th)
             \/ \E th \in Driver : RecordWorker(th)
             \/ \E th \in Driver : StartWorker(th)
             \/ \E th \in Driver : Inspect(th)
             \/ \E th \in Driver : PumpSlice(th)
             \/ \E th \in Driver : EndStatus(th)
             \/ \E th \in Driver : \E a \in Agent : Visit(th, a)
             \/ \E th \in Driver : \E a \in Agent : SignalWorkers(th, a)
             \/ \E th \in Driver : EndCancel(th)
             \/ \E th \in Driver : Timeout(th)
             \/ \E c \in Call : Work(c)
             \/ \E c \in Call : HandleSignal(c)
             \/ \E c \in Call : SendResult(c)
             \/ \E c \in Call : TellParent(c)
             \/ \E c \in Call : EndWorker(c)
             \/ \E c \in Call : EndWork(c)
      PROVE  UNCHANGED <<runtime, recorded, parent, disturbed, status>>
    BY <1>2 DEF vars, agents, engines, workers, drivers, cancels, BeginSpawn, BeginStatus, Pump,
        BeginSupervised, BeginCancel, SendRequest, Send, Notify, CreateWorker, RecordWorker,
        StartWorker, Inspect, PumpSlice, EndStatus, Visit, SignalWorkers, EndCancel, Timeout,
        Work, HandleSignal, SendResult, TellParent, EndWorker, EndWork, Begin, Goto, Return,
        EndPump
<1>3. ASSUME \/ DestroyWorkers
             \/ DestroyPool
             \/ DestroyAgents
             \/ DestroyRegistry
      PROVE  Onward
    BY <1>3 DEF DestroyWorkers, DestroyPool, DestroyAgents, DestroyRegistry, Up
<1>4. ASSUME NEW th \in Driver, Spawn(th)
      PROVE  Onward
    <2>1. recorded' = recorded \/ (born' = born + 1 /\ recorded' = recorded \cup {born'})
        BY <1>4 DEF Spawn
    <2>2. UNCHANGED <<runtime, disturbed>> /\ Up
        BY <1>4 DEF Spawn, Up
    <2>3. CASE UNCHANGED <<recorded, parent, status>>
        BY <2>2, <2>3 DEF Onward, Up
    <2>4. CASE /\ born' = born + 1 /\ recorded' = recorded \cup {born'}
               /\ parent' = [parent EXCEPT ![born'] = on[th]]
               /\ status' = [status EXCEPT ![born'] = "active"]
        <3>1. born' \notin recorded
            BY <2>2, <2>4 DEF Inv, RegistryOK, Typed, TypeOK
        <3> QED BY <2>2, <2>4, <3>1 DEF Onward, Up, Inv, Typed, TypeOK
    <2> QED BY <1>4, <2>3, <2>4 DEF Spawn
<1>5. ASSUME NEW th \in Driver, Deliver(th)
      PROVE  Onward
    <2>1. PICK a \in Agent, m \in Letter : a = on[th] /\ m = message[th]
        BY <1>5 DEF Deliver, Inv, StagesOK
    <2>2. Drivers /\ Engines /\ disturbed \in SUBSET Agent
          /\ UNCHANGED <<runtime, recorded, parent>>
        BY <1>5, TypedGives, Parts DEF Deliver, Inv, Typed, TypeOK, agents
    <2>3. CASE Disturb({a}) /\ UNCHANGED engines
        BY <2>2, <2>3, Disturbs DEF Onward, Up, engines
    <2>4. CASE Take(a, m) /\ UNCHANGED disturbed
        BY <2>2, <2>4, Taken DEF Onward, Up, Inv, Typed, TypeOK
    <2> QED BY <1>5, <2>1, <2>2, <2>3, <2>4, Delivered
<1>6. ASSUME NEW th \in Driver, FailPendingCall(th)
      PROVE  Onward
    <2>1. PICK a \in Agent, k \in Call : a = on[th] /\ k = at[th]
        BY <1>6 DEF FailPendingCall, Inv, StagesOK, AtCall
    <2>2. Engines /\ disturbed \in SUBSET Agent /\ Result(k, "error") \in Letter
          /\ UNCHANGED <<runtime, recorded, parent>>
        BY <1>6, <2>1, TypedGives, Letters DEF FailPendingCall, Inv, Typed, TypeOK, agents
    <2>3. CASE Disturb({a}) /\ UNCHANGED engines
        BY <2>1, <2>2, <2>3, Disturbs DEF Onward, Up, engines
    <2>4. CASE Take(a, Result(k, "error")) /\ UNCHANGED disturbed
        BY <2>1, <2>2, <2>4, Taken DEF Onward, Up, Inv, Typed, TypeOK
    <2> QED BY <1>6, <2>1, <2>3, <2>4 DEF FailPendingCall
<1>7. ASSUME NEW th \in Driver, Admit(th)
      PROVE  Onward
    <2>1. PICK a \in Agent, k \in Call : a = on[th] /\ k = at[th]
        BY <1>7 DEF Admit, Inv, StagesOK, AtCall
    <2>2. Engines /\ disturbed \in SUBSET Agent /\ Request(k) \in Letter
          /\ UNCHANGED <<runtime, recorded, parent>>
        BY <1>7, <2>1, TypedGives, Letters DEF Admit, Inv, Typed, TypeOK, agents
    <2>3. CASE UNCHANGED <<engines, disturbed>>
        BY <2>2, <2>3 DEF Onward, Up, engines
    <2>4. CASE Take(a, Request(k)) /\ UNCHANGED disturbed
        BY <2>1, <2>2, <2>4, Taken DEF Onward, Up, Inv, Typed, TypeOK
    <2> QED BY <1>7, <2>1, <2>3, <2>4 DEF Admit
<1>8. ASSUME NEW th \in Driver, NEW a \in Agent, CancelEngine(th, a)
      PROVE  Onward
    <2>1. a \in Agent
        OBVIOUS
    <2>2. Engines /\ disturbed \in SUBSET Agent /\ Notice("cancel") \in Letter
          /\ UNCHANGED <<runtime, recorded, parent>>
        BY <1>8, <2>1, TypedGives, Letters DEF CancelEngine, Inv, Typed, TypeOK, agents
    <2>3. CASE Disturb({a}) /\ UNCHANGED engines
        BY <2>1, <2>2, <2>3, Disturbs DEF Onward, Up, engines
    <2>4. CASE Take(a, Notice("cancel")) /\ UNCHANGED disturbed
        BY <2>1, <2>2, <2>4, Taken DEF Onward, Up, Inv, Typed, TypeOK
    <2> QED BY <1>8, <2>1, <2>3, <2>4 DEF CancelEngine
<1>9. ASSUME NEW c \in Call, ForceFailure(c)
      PROVE  Onward
    <2>1. PICK a \in Agent : a = owner[c]
        BY <1>9 DEF ForceFailure, Inv, WorkersOK, Typed, TypeOK
    <2>2. Engines /\ disturbed \in SUBSET Agent /\ Notice("budget_exhausted") \in Letter
          /\ UNCHANGED <<runtime, recorded, parent>>
        BY <1>9, <2>1, TypedGives, Letters DEF ForceFailure, Inv, Typed, TypeOK, agents
    <2>3. CASE Disturb({a}) /\ UNCHANGED engines
        BY <2>1, <2>2, <2>3, Disturbs DEF Onward, Up, engines
    <2>4. CASE Take(a, Notice("budget_exhausted")) /\ UNCHANGED disturbed
        BY <2>1, <2>2, <2>4, Taken DEF Onward, Up, Inv, Typed, TypeOK
    <2> QED BY <1>9, <2>1, <2>3, <2>4 DEF ForceFailure
<1>10. ASSUME NEW th \in Driver, Interrupt(th)
      PROVE  Onward
    <2>1. UNCHANGED <<runtime, recorded, parent, status>> /\ disturbed \subseteq disturbed'
        BY <1>10 DEF Interrupt, Disturb, agents, engines
    <2> QED BY <2>1 DEF Onward, Up
<1>11. QED
    BY Steps, <1>1, <1>2, <1>3, <1>4, <1>5, <1>6, <1>7, <1>8, <1>9, <1>10

LEMMA OneScope ==
    ASSUME ScopesOK, recorded \in SUBSET Agent, Onward, NEW th \in Driver, Others(th), ScopeOK(th)',
           \A u \in Driver : u # th => todo'[u] = todo[u] /\ scope'[u] = scope[u]
    PROVE  ScopesOK'
<1>1. ASSUME NEW u \in Driver, u # th PROVE ScopeOK(u)'
    <2>1. pc'[u] = pc[u] /\ todo'[u] = todo[u] /\ scope'[u] = scope[u]
        BY <1>1 DEF Others
    <2>2. ScopeOK(u) /\ \A a : Tree(a) \subseteq Tree(a)'
        BY TreesGrow DEF ScopesOK, Onward
    <2>3. \A b : Ahead(u, b) => Ahead(u, b)'
        BY <2>1, <2>2 DEF Ahead
    <2> QED BY <2>1, <2>2, <2>3 DEF ScopeOK, Onward
<1>2. QED
    BY <1>1 DEF ScopesOK

LEMMA SameScopes ==
    ASSUME ScopesOK, recorded \in SUBSET Agent, Onward, UNCHANGED <<todo, scope>>,
           \A u \in Driver : pc'[u] = "cancelling" => pc[u] = "cancelling"
    PROVE  ScopesOK'
<1>1. \A a : Tree(a) \subseteq Tree(a)'
    BY TreesGrow
<1>2. \A u \in Driver, b \in Agent : Ahead(u, b) => Ahead(u, b)'
    BY <1>1 DEF Ahead
<1>3. ASSUME NEW u \in Driver PROVE ScopeOK(u)'
    BY <1>2 DEF ScopeOK, ScopesOK, Onward
<1>4. QED
    BY <1>3 DEF ScopesOK

\* A cancellation begins with the whole tree ahead of it.
LEMMA ScopeBegins ==
    ASSUME Onward, recorded \in SUBSET Agent, NEW th \in Driver, NEW a \in recorded,
           todo'[th] = <<<<"visit", a>>>>, scope'[th] = Tree(a)
    PROVE  ScopeOK(th)'
<1>1. 1 \in DOMAIN todo'[th] /\ todo'[th][1] = <<"visit", a>>
    OBVIOUS
<1>2. Tree(a) \subseteq Tree(a)' /\ Tree(a) \subseteq recorded
    BY Trees, TreesGrow
<1>3. \A b \in Tree(a) : Ahead(th, b)'
    BY <1>1, <1>2 DEF Ahead
<1>4. QED
    BY <1>2, <1>3 DEF ScopeOK, Onward

\* It goes on when what its first step stood for is done or still ahead.
LEMMA ScopeGoesOn ==
    ASSUME Onward, recorded \in SUBSET Agent, NEW th \in Driver, ScopeOK(th), pc[th] = "cancelling",
           scope'[th] = scope[th], NEW steps \in Seq(Item), Replaced(th, steps),
           \A b \in Agent :
              \/ todo[th][1] = <<"engine", b>>
              \/ todo[th][1][1] = "visit" /\ b \in Tree(todo[th][1][2])
              => \/ status'[b] # "active" \/ b \in disturbed'
                 \/ \E i \in DOMAIN steps : \/ steps[i] = <<"engine", b>>
                                            \/ steps[i][1] = "visit" /\ b \in Tree(steps[i][2])
    PROVE  ScopeOK(th)'
<1>1. \A a : Tree(a) \subseteq Tree(a)'
    BY TreesGrow
<1>2. ASSUME NEW b \in scope[th], status'[b] = "active", b \notin disturbed'
      PROVE  Ahead(th, b)'
    <2>1. b \in Agent /\ b \in recorded /\ Ahead(th, b)
        BY <1>2 DEF ScopeOK, Onward
    <2>2. PICK i \in DOMAIN todo[th] : \/ todo[th][i] = <<"engine", b>>
                                       \/ todo[th][i][1] = "visit" /\ b \in Tree(todo[th][i][2])
        BY <2>1 DEF Ahead
    <2>3. CASE i = 1
        <3>1. PICK j \in DOMAIN steps : \/ steps[j] = <<"engine", b>>
                                        \/ steps[j][1] = "visit" /\ b \in Tree(steps[j][2])
            BY <1>2, <2>1, <2>2, <2>3
        <3>2. j \in DOMAIN todo'[th] /\ todo'[th][j] = steps[j]
            BY DEF Replaced
        <3> QED BY <1>1, <3>1, <3>2 DEF Ahead
    <2>4. CASE i # 1
        <3>1. PICK j \in DOMAIN todo'[th] : todo'[th][j] = todo[th][i]
            BY <2>4 DEF Replaced
        <3> QED BY <1>1, <2>2, <3>1 DEF Ahead
    <2> QED BY <2>3, <2>4
<1>3. QED
    BY <1>2 DEF ScopeOK, Onward

LEMMA ScopesKept ==
    ASSUME Inv, [Next]_vars
    PROVE  ScopesOK'
<1> SUFFICES ASSUME Up' PROVE ScopesOK'
    BY DEF ScopesOK
<1>1. Onward /\ recorded \in SUBSET Agent
    BY GoesOn DEF Inv, Typed, TypeOK
<1>2. CASE UNCHANGED <<pc, todo, scope>>
    BY <1>2, <1>1, SameScopes DEF Inv
<1>3. ASSUME \/ UNCHANGED vars
             \/ \E a \in Agent : \E c \in Call : SendRequest(a, c)
             \/ \E a \in Agent : \E kind \in Posted : Send(a, kind)
             \/ DestroyWorkers
             \/ \E c \in Call : Work(c)
             \/ \E c \in Call : HandleSignal(c)
             \/ \E c \in Call : SendResult(c)
             \/ \E c \in Call : ForceFailure(c)
             \/ \E c \in Call : TellParent(c)
             \/ \E c \in Call : EndWorker(c)
             \/ \E c \in Call : EndWork(c)
             \/ DestroyPool
             \/ DestroyAgents
             \/ DestroyRegistry
      PROVE  UNCHANGED <<pc, todo, scope>>
    BY <1>3 DEF vars, agents, engines, workers, drivers, cancels, SendRequest, Send,
        DestroyWorkers, Work, HandleSignal, SendResult, ForceFailure, TellParent, EndWorker,
        EndWork, DestroyPool, DestroyAgents, DestroyRegistry, Begin, Goto, Return, EndPump
<1>4. ASSUME \/ \E th \in Driver : \E p \in Agent \cup {None} : BeginSpawn(th, p)
             \/ \E th \in Driver : \E a \in Agent : BeginStatus(th, a)
             \/ \E th \in Driver : \E a \in Agent : Pump(th, a)
             \/ \E th \in Driver : \E a \in Agent : \E c \in Call : BeginSupervised(th, a, c)
             \/ \E th \in Driver : Spawn(th)
             \/ \E th \in Driver : Notify(th)
             \/ \E th \in Driver : CreateWorker(th)
             \/ \E th \in Driver : RecordWorker(th)
             \/ \E th \in Driver : StartWorker(th)
             \/ \E th \in Driver : FailPendingCall(th)
             \/ \E th \in Driver : Admit(th)
             \/ \E th \in Driver : Inspect(th)
             \/ \E th \in Driver : PumpSlice(th)
             \/ \E th \in Driver : EndStatus(th)
      PROVE  ScopesOK'
    <2>1. UNCHANGED cancels
        BY <1>4 DEF BeginSpawn, BeginStatus, Pump, BeginSupervised, Spawn, Notify,
           CreateWorker, RecordWorker,
                 StartWorker, FailPendingCall, Admit, Inspect, PumpSlice, EndStatus
    <2>2. \E th \in Driver, p \in Stage \ {"cancelling"} : pc' = [pc EXCEPT ![th] = p]
        BY <1>4 DEF BeginSpawn, BeginStatus, Pump, BeginSupervised, Spawn, Notify,
           CreateWorker, RecordWorker,
                 StartWorker, FailPendingCall, Admit, Inspect, PumpSlice, EndStatus, Begin, Return, EndPump,
                 Goto, Stage
    <2>3. \A u \in Driver : pc'[u] = "cancelling" => pc[u] = "cancelling"
        BY <2>2 DEF Inv, Typed
    <2> QED BY <1>1, <2>1, <2>3, SameScopes DEF Inv, cancels
<1>5. ASSUME NEW th \in Driver, Deliver(th)
      PROVE  ScopesOK'
    <2>1. Others(th)
        BY <1>5, OneMoves DEF Inv
    <2>2. PICK a \in Agent, m \in Letter : a = on[th] /\ m = message[th]
        BY <1>5 DEF Deliver, Inv, StagesOK
    <2>3. Drivers /\ Engines /\ UNCHANGED <<todo, scope>>
        BY <1>5, TypedGives, Parts DEF Deliver, Inv, cancels
    <2>4. pc'[th] # "cancelling"
        BY <1>5, <2>2, <2>3, Delivered
    <2> QED BY <1>1, <2>1, <2>3, <2>4, SameScopes DEF Inv, Others
<1>6. ASSUME NEW th \in Driver, NEW a \in Agent, BeginCancel(th, a)
      PROVE  ScopesOK'
    <2>1. Others(th) /\ todo \in Plans /\ scope \in [Driver -> SUBSET Agent] /\ StartCancel(th, a)
          /\ a \in recorded
        BY <1>6, OneMoves DEF Inv, Typed, TypeOK, BeginCancel, Begin
    <2>2. /\ todo'[th] = <<<<"visit", a>>>> /\ scope'[th] = Tree(a)
          /\ \A u \in Driver : u # th => todo'[u] = todo[u] /\ scope'[u] = scope[u]
        BY <2>1, Started
    <2>3. ScopeOK(th)'
        BY <1>1, <2>1, <2>2, ScopeBegins
    <2> QED BY <1>1, <2>1, <2>2, <2>3, OneScope DEF Inv
<1>7. ASSUME NEW th \in Driver, Timeout(th)
      PROVE  ScopesOK'
    <2>1. PICK a \in recorded : a = on[th]
        BY <1>1, <1>7, NoneAssumption DEF Timeout, Inv, StagesOK, RegistryOK, Onward
    <2>2. /\ a \in Agent /\ Others(th) /\ todo \in Plans /\ scope \in [Driver -> SUBSET Agent]
          /\ StartCancel(th, a)
        BY <1>7, <1>1, <2>1, OneMoves DEF Inv, Typed, TypeOK, Timeout
    <2>3. /\ todo'[th] = <<<<"visit", a>>>> /\ scope'[th] = Tree(a)
          /\ \A u \in Driver : u # th => todo'[u] = todo[u] /\ scope'[u] = scope[u]
        BY <2>2, Started
    <2>4. ScopeOK(th)'
        BY <1>1, <2>1, <2>3, ScopeBegins
    <2> QED BY <1>1, <2>2, <2>3, <2>4, OneScope DEF Inv
<1>8. ASSUME NEW th \in Driver, Interrupt(th)
      PROVE  ScopesOK'
    <2>1. Drivers /\ Rest /\ Others(th)
        BY <1>8, Parts, OneMoves DEF Inv
    <2>2. CASE StartCancel(th, on[th]) /\ waits[th] # None
        <3>1. PICK a \in recorded : a = on[th]
            BY <1>1, <1>8, <2>1, <2>2, NoneAssumption
                DEF Interrupt, Inv, StagesOK, RegistryOK, Onward, Drivers, Stage
        <3>2. /\ todo'[th] = <<<<"visit", a>>>> /\ scope'[th] = Tree(a)
              /\ \A u \in Driver : u # th => todo'[u] = todo[u] /\ scope'[u] = scope[u]
            BY <1>1, <2>1, <2>2, <3>1, Started DEF Rest
        <3>3. ScopeOK(th)'
            BY <1>1, <3>1, <3>2, ScopeBegins
        <3> QED BY <1>1, <2>1, <3>2, <3>3, OneScope DEF Inv
    <2>3. CASE /\ Return(th)
               /\ todo' = [todo EXCEPT ![th] = <<>>]
               /\ scope' = [scope EXCEPT ![th] = {}]
        <3>1. todo'[th] = <<>> /\ \A u \in Driver : u # th => todo'[u] = todo[u]
            BY <2>1, <2>3, Emptied DEF Rest
        <3>2. scope'[th] = {} /\ \A u \in Driver : u # th => scope'[u] = scope[u]
            BY <2>1, <2>3 DEF Rest
        <3>3. ScopeOK(th)'
            BY <3>2 DEF ScopeOK
        <3> QED BY <1>1, <2>1, <3>1, <3>2, <3>3, OneScope DEF Inv
    <2> QED BY <1>8, <2>2, <2>3 DEF Interrupt
<1>9. ASSUME NEW th \in Driver, EndCancel(th)
      PROVE  ScopesOK'
    <2>1. Others(th) /\ UNCHANGED todo
        BY <1>9, OneMoves DEF Inv, EndCancel
    <2>2. scope'[th] = {} /\ \A u \in Driver : u # th => scope'[u] = scope[u]
        BY <1>9 DEF EndCancel, Inv, Typed, TypeOK
    <2>3. ScopeOK(th)'
        BY <2>2 DEF ScopeOK
    <2> QED BY <1>1, <2>1, <2>2, <2>3, OneScope DEF Inv
<1>10. ASSUME NEW th \in Driver, NEW a \in Agent, Visit(th, a)
      PROVE  ScopesOK'
    <2>1. /\ todo[th] # <<>> /\ todo \in Plans /\ UNCHANGED scope
          /\ Others(th) /\ pc[th] = "cancelling" /\ ScopeOK(th) /\ Head(todo[th]) = <<"visit", a>>
        BY <1>10, <1>1, OneMoves DEF Visit, NextIs, Inv, Typed, ScopesOK, Onward
    <2>2. a \in recorded
        <3>1. 1 \in DOMAIN todo[th] /\ todo[th][1] = <<"visit", a>>
            <4>1. todo[th] \in Seq(Item)
                BY <2>1 DEF Plans
            <4> QED BY <2>1, <4>1
        <3>2. todo[th][1][2] \in recorded
            BY <1>1, <3>1 DEF Inv, RegistryOK, Onward
        <3> QED BY <3>1, <3>2
    <2>3. Then(th, Below(a))
        BY <1>10, <1>1, <2>2 DEF Visit, Below, Onward, Up
    <2>4. /\ Below(a) \in Seq(Item)
          /\ \E i \in DOMAIN Below(a) : Below(a)[i] = <<"engine", a>>
          /\ \A b \in Children(a) : \E i \in DOMAIN Below(a) : Below(a)[i] = <<"visit", b>>
        BY <1>1, <2>2, BelowIs
    <2>5. Replaced(th, Below(a))
        BY <2>1, <2>3, <2>4, Replacing
    <2>6. todo[th][1] = <<"visit", a>>
        BY <2>1, <2>5 DEF Replaced
    <2>7. ASSUME NEW b \in Agent, b \in Tree(a)
          PROVE  \E i \in DOMAIN Below(a) : \/ Below(a)[i] = <<"engine", b>>
                                            \/ Below(a)[i][1] = "visit" /\ b \in Tree(Below(a)[i][2])
        <3>1. CASE b = a
            BY <2>4, <3>1
        <3>2. CASE b # a
            <4>1. PICK c \in Children(a) : b \in Tree(c)
                BY <1>1, <2>2, <2>7, <3>2, Trees
            <4> QED BY <2>4, <4>1
        <3> QED BY <3>1, <3>2
    <2>8. ScopeOK(th)'
        <3> DEFINE steps == Below(a)
        <3>1. \A b \in Agent :
                 \/ todo[th][1] = <<"engine", b>>
                 \/ todo[th][1][1] = "visit" /\ b \in Tree(todo[th][1][2])
                 => \E i \in DOMAIN steps : \/ steps[i] = <<"engine", b>>
                                            \/ steps[i][1] = "visit" /\ b \in Tree(steps[i][2])
            BY <2>6, <2>7
        <3>2. steps \in Seq(Item) /\ Replaced(th, steps)
            BY <2>4, <2>5
        <3> HIDE DEF steps
        <3> QED BY <1>1, <2>1, <3>1, <3>2, ScopeGoesOn
    <2> QED BY <1>1, <2>1, <2>5, <2>8, OneScope DEF Inv, Replaced
<1>11. ASSUME NEW th \in Driver, NEW a \in Agent, SignalWorkers(th, a)
      PROVE  ScopesOK'
    <2>1. /\ todo[th] # <<>> /\ todo \in Plans /\ UNCHANGED scope /\ Then(th, <<>>)
          /\ Others(th) /\ pc[th] = "cancelling" /\ ScopeOK(th) /\ Head(todo[th]) = <<"signal", a>>
        BY <1>11, <1>1, OneMoves DEF SignalWorkers, NextIs, Inv, Typed, ScopesOK, Onward
    <2>2. <<>> \in Seq(Item)
        OBVIOUS
    <2>3. Replaced(th, <<>>)
        BY <2>1, <2>2, Replacing
    <2>4. todo[th][1] = <<"signal", a>>
        BY <2>1, <2>3 DEF Replaced
    <2>5. ScopeOK(th)'
        <3>1. \A b \in Agent : ~(\/ todo[th][1] = <<"engine", b>>
                                 \/ todo[th][1][1] = "visit" /\ b \in Tree(todo[th][1][2]))
            BY <2>4
        <3> QED BY <1>1, <2>1, <2>2, <2>3, <3>1, ScopeGoesOn
    <2> QED BY <1>1, <2>1, <2>3, <2>5, OneScope DEF Inv, Replaced
<1>12. ASSUME NEW th \in Driver, NEW a \in Agent, CancelEngine(th, a)
      PROVE  ScopesOK'
    <2>1. /\ todo[th] # <<>> /\ todo \in Plans /\ UNCHANGED scope /\ Then(th, <<>>)
          /\ Others(th) /\ pc[th] = "cancelling" /\ ScopeOK(th) /\ Head(todo[th]) = <<"engine", a>>
        BY <1>12, <1>1, OneMoves DEF CancelEngine, NextIs, Inv, Typed, ScopesOK, Onward
    <2>2. <<>> \in Seq(Item)
        OBVIOUS
    <2>3. Replaced(th, <<>>)
        BY <2>1, <2>2, Replacing
    <2>4. todo[th][1] = <<"engine", a>>
        BY <2>1, <2>3 DEF Replaced
    <2>5. status'[a] # "active" \/ a \in disturbed'
        <3>1. CASE Disturb({a})
            BY <1>1, <3>1 DEF Disturb, Onward, Up
        <3>2. CASE Take(a, Notice("cancel"))
            <4>1. Engines /\ Notice("cancel") \in Letter
                BY TypedGives, Letters DEF Inv
            <4> QED BY <3>2, <4>1, Taken DEF Notice, Message
        <3> QED BY <1>12, <3>1, <3>2 DEF CancelEngine
    <2>6. ScopeOK(th)'
        <3>1. \A b \in Agent :
                 \/ todo[th][1] = <<"engine", b>>
                 \/ todo[th][1][1] = "visit" /\ b \in Tree(todo[th][1][2])
                 => status'[b] # "active" \/ b \in disturbed'
            BY <2>4, <2>5
        <3> QED BY <1>1, <2>1, <2>2, <2>3, <3>1, ScopeGoesOn
    <2> QED BY <1>1, <2>1, <2>3, <2>6, OneScope DEF Inv, Replaced
<1>13. QED
    BY Steps, <1>2, <1>3, <1>4, <1>5, <1>6, <1>7, <1>8, <1>9, <1>10, <1>11, <1>12

LEMMA ReachesTree ==
    ASSUME Inv, [Next]_vars
    PROVE  \A th \in Driver :
             pc[th] = "cancelling" /\ pc'[th] = "idle" /\ todo[th] = <<>> /\ runtime = "up" =>
                \A a \in scope[th] : status[a] # "active" \/ a \in disturbed'
<1> SUFFICES ASSUME NEW u \in Driver, NEW b \in scope[u],
                    pc[u] = "cancelling", pc'[u] = "idle", todo[u] = <<>>, runtime = "up"
             PROVE  status[b] # "active" \/ b \in disturbed'
    OBVIOUS
<1>1. status[b] # "active" \/ b \in disturbed
    BY DEF Inv, ScopesOK, ScopeOK, Ahead, Up
<1>2. Up'
    <2>1. runtime' = runtime \/ UNCHANGED pc
        <3>1. CASE UNCHANGED vars
            BY <3>1 DEF vars
        <3>2. CASE DestroyWorkers \/ DestroyPool \/ DestroyAgents \/ DestroyRegistry
            BY <3>2 DEF DestroyWorkers, DestroyPool, DestroyAgents, DestroyRegistry, drivers
        <3>3. ASSUME \/ \E th \in Driver : \E p \in Agent \cup {None} : BeginSpawn(th, p)
                     \/ \E th \in Driver : \E a \in Agent : BeginStatus(th, a)
                     \/ \E th \in Driver : \E a \in Agent : Pump(th, a)
                     \/ \E th \in Driver : \E a \in Agent : \E c \in Call : BeginSupervised(th, a, c)
                     \/ \E th \in Driver : \E a \in Agent : BeginCancel(th, a)
                     \/ \E a \in Agent : \E c \in Call : SendRequest(a, c)
                     \/ \E a \in Agent : \E kind \in Posted : Send(a, kind)
                     \/ \E th \in Driver : Spawn(th)
                     \/ \E th \in Driver : Deliver(th)
                     \/ \E th \in Driver : Notify(th)
                     \/ \E th \in Driver : CreateWorker(th)
                     \/ \E th \in Driver : RecordWorker(th)
                     \/ \E th \in Driver : StartWorker(th)
                     \/ \E th \in Driver : FailPendingCall(th)
                     \/ \E th \in Driver : Admit(th)
                     \/ \E th \in Driver : Inspect(th)
                     \/ \E th \in Driver : PumpSlice(th)
                     \/ \E th \in Driver : EndStatus(th)
                     \/ \E th \in Driver : \E a \in Agent : Visit(th, a)
                     \/ \E th \in Driver : \E a \in Agent : SignalWorkers(th, a)
                     \/ \E th \in Driver : \E a \in Agent : CancelEngine(th, a)
                     \/ \E th \in Driver : EndCancel(th)
                     \/ \E th \in Driver : Timeout(th)
                     \/ \E th \in Driver : Interrupt(th)
                     \/ \E c \in Call : Work(c)
                     \/ \E c \in Call : HandleSignal(c)
                     \/ \E c \in Call : SendResult(c)
                     \/ \E c \in Call : ForceFailure(c)
                     \/ \E c \in Call : TellParent(c)
                     \/ \E c \in Call : EndWorker(c)
                     \/ \E c \in Call : EndWork(c)
              PROVE  UNCHANGED runtime
            BY <3>3 DEF BeginSpawn, BeginStatus, Pump, BeginSupervised, BeginCancel, SendRequest,
                Send, Spawn, Deliver, Notify, CreateWorker, RecordWorker, StartWorker,
                FailPendingCall, Admit, Inspect, PumpSlice, EndStatus, Visit, SignalWorkers,
                CancelEngine, EndCancel, Timeout, Interrupt, Work, HandleSignal, SendResult,
                ForceFailure, TellParent, EndWorker, EndWork
        <3> QED BY <3>1, <3>2, <3>3, Steps
    <2> QED BY <2>1 DEF Up
<1>3. disturbed \subseteq disturbed'
    BY <1>2, GoesOn DEF Onward
<1>4. QED
    BY <1>1, <1>3

-----------------------------------------------------------------------------
(* Calls, from hand to hand.                                               *)

\* The letters about calls stay where they are, or are gone.
Quiet ==
    \A a \in Agent : \A i \in DOMAIN mailbox'[a] :
        mailbox'[a][i].call # None => i \in DOMAIN mailbox[a] /\ mailbox[a][i] = mailbox'[a][i]

LEMMA QuietGrown ==
    ASSUME NEW a, NEW m, Grown(a, m), m.call = None
    PROVE  Quiet
    BY DEF Grown, Quiet

LEMMA MailCalls ==
    ASSUME mailbox \in Mailboxes
    PROVE  \A a \in Agent : \A i \in DOMAIN mailbox[a] :
              mailbox[a][i] \in Letter /\ mailbox[a][i].call \in Call \cup {None}
<1>1. \A m \in Letter : m.call \in Call \cup {None}
    BY DEF Letter
<1>2. ASSUME NEW a \in Agent, NEW i \in DOMAIN mailbox[a] PROVE mailbox[a][i] \in Letter
    <2>1. mailbox[a] \in Seq(Letter)
        BY DEF Mailboxes
    <2> QED BY <2>1
<1>3. QED
    BY <1>1, <1>2

\* Workers that are about to be recorded are recorded nowhere yet.
Unrecorded(th) ==
    pc[th] = "recording" => at[th] \notin recordedWorker \cup started \cup signalled

\* A driver may hold what it held, and no more.
LEMMA OneHand ==
    ASSUME HandsOK, MailOK, mailbox \in Mailboxes, NEW th \in Driver, Others(th), Quiet,
           UNCHANGED <<owner, worker>>, HolderOK(th)',
           \A u \in Driver : u # th => Unrecorded(u)',
           \A c \in Call : Holds(th, c)' => Holds(th, c),
           pc'[th] \notin {"recording", "starting"}
    PROVE  HandsOK' /\ MailOK'
<1>1. \A u \in Driver : u # th => \A c : Holds(u, c)' <=> Holds(u, c)
    BY DEF Others, Holds
<1>2. \A u \in Driver : HolderOK(u)'
    <2>1. ASSUME NEW u \in Driver, u # th PROVE HolderOK(u)'
        BY <2>1 DEF HandsOK, HolderOK, Others, InTime, Unrecorded
    <2> QED BY <2>1
<1>3. HandsOK'
    <2>1. \A c \in Call : \A t, u \in Driver : Holds(t, c)' /\ Holds(u, c)' => t = u
        BY <1>1 DEF HandsOK
    <2>2. \A t, u \in Driver : pc'[t] = "recording" /\ pc'[u] = "starting" => at'[t] # at'[u]
        BY DEF HandsOK, Others
    <2> QED BY <1>2, <2>1, <2>2 DEF HandsOK
<1>4. MailOK'
    <2> SUFFICES ASSUME NEW a \in Agent, NEW i \in DOMAIN mailbox'[a], NEW c \in Call,
                        mailbox'[a][i].call = c
                 PROVE  LetterOK(a, i, c)'
        BY DEF MailOK
    <2>1. /\ i \in DOMAIN mailbox[a] /\ mailbox[a][i] = mailbox'[a][i]
          /\ mailbox[a][i] \in Letter
        BY MailCalls, NoneAssumption DEF Quiet
    <2>2. LetterOK(a, i, c)
        BY <2>1 DEF MailOK
    <2>3. \A u \in Driver : ~Holds(u, c)'
        BY <1>1, <2>2 DEF LetterOK
    <2>4. \A j \in DOMAIN mailbox'[a] : mailbox'[a][j].call = c => j = i
        BY <2>2, NoneAssumption DEF LetterOK, Quiet
    <2> QED BY <2>1, <2>2, <2>3, <2>4 DEF LetterOK, InTime
<1>5. QED
    BY <1>3, <1>4

\* The drivers stay where they are, and a worker moves: nobody but who has told it to
\* start, or nobody, has its call.
LEMMA OneWorker ==
    ASSUME HandsOK, MailOK, Quiet, UNCHANGED <<owner, drivers>>, NEW c \in Call,
           \A k \in Call : k # c => worker'[k] = worker[k],
           \/ worker[c] \notin {"none", "orphan", "leaving", "over"} /\ worker'[c] # "none"
           \/ worker[c] \in {"leaving", "over"} /\ worker'[c] \in {"leaving", "over"}
           \/ worker'[c] = worker[c],
           \A u \in Driver : pc[u] = "recording" => at[u] # c \/ worker'[c] = worker[c],
           \A u \in Driver : Unrecorded(u)',
           mailbox \in Mailboxes, StagesOK, Drivers
    PROVE  HandsOK' /\ MailOK'
<1>1. UNCHANGED <<pc, on, at, message, waits>>
    BY DEF drivers
<1>2. \A u \in Driver : \A k : Holds(u, k)' <=> Holds(u, k)
    BY <1>1 DEF Holds
<1>3. ASSUME NEW m \in Letter, m.call # None, InTime(m)
      PROVE  IF m.kind = "request" THEN worker'[m.call] = "none"
                                   ELSE worker'[m.call] \in {"leaving", "over"}
    <2>1. m.call \in Call
        BY <1>3 DEF Letter
    <2> QED BY <1>3, <2>1 DEF InTime
<1>4. ASSUME NEW u \in Driver PROVE HolderOK(u)'
    <2>1. HolderOK(u)
        BY DEF HandsOK
    <2>2. pc[u] \in AtCall => at[u] \in Call
        BY DEF StagesOK
    <2>3. pc[u] = "delivering" => message[u] \in Letter
        BY DEF StagesOK
    <2>4. ASSUME pc[u] = "delivering", message[u].call # None PROVE InTime(message[u])'
        BY <1>1, <1>3, <2>1, <2>3, <2>4 DEF HolderOK, InTime
    <2>5. CASE pc[u] \in AtCall
        <3>1. worker[at[u]] = "none" => worker'[at[u]] = "none"
            BY <2>2, <2>5
        <3>2. worker[at[u]] # "none" => worker'[at[u]] # "none"
            BY <2>2, <2>5
        <3>3. pc[u] = "recording" => worker'[at[u]] = worker[at[u]]
            BY <2>2, <2>5
        <3>4. worker[at[u]] = "orphan" => worker'[at[u]] = "orphan"
            BY <2>2, <2>5
        <3> QED BY <1>1, <2>1, <2>5, <3>1, <3>2, <3>3, <3>4 DEF HolderOK, Unrecorded, AtCall
    <2>6. CASE pc[u] \notin AtCall
        BY <1>1, <2>1, <2>4, <2>6 DEF HolderOK, AtCall
    <2> QED BY <2>5, <2>6
<1>5. HandsOK'
    <2>1. \A k \in Call : \A t, u \in Driver : Holds(t, k)' /\ Holds(u, k)' => t = u
        BY <1>2 DEF HandsOK
    <2> QED BY <1>1, <1>4, <2>1 DEF HandsOK
<1>6. MailOK'
    <2> SUFFICES ASSUME NEW a \in Agent, NEW i \in DOMAIN mailbox'[a], NEW k \in Call,
                        mailbox'[a][i].call = k
                 PROVE  LetterOK(a, i, k)'
        BY DEF MailOK
    <2>1. /\ i \in DOMAIN mailbox[a] /\ mailbox[a][i] = mailbox'[a][i]
          /\ mailbox[a][i] \in Letter
        BY MailCalls, NoneAssumption DEF Quiet
    <2>2. LetterOK(a, i, k)
        BY <2>1 DEF MailOK
    <2>3. \A u \in Driver : ~Holds(u, k)'
        BY <1>2, <2>2 DEF LetterOK
    <2>4. InTime(mailbox[a][i])'
        BY <1>3, <2>1, <2>2, NoneAssumption DEF LetterOK, InTime
    <2>5. \A j \in DOMAIN mailbox'[a] : mailbox'[a][j].call = k => j = i
        BY <2>2, NoneAssumption DEF LetterOK, Quiet
    <2> QED BY <2>1, <2>2, <2>3, <2>4, <2>5 DEF LetterOK
<1>7. QED
    BY <1>5, <1>6

\* A call nobody has made is nowhere.
LEMMA Unheld ==
    ASSUME Inv, NEW c \in Call, owner[c] = None
    PROVE  /\ worker[c] = "none"
           /\ \A u \in Driver : ~Holds(u, c) /\ (pc[u] \in AtCall => at[u] # c)
           /\ \A u \in Driver : pc[u] = "delivering" => message[u].call # c
           /\ \A a \in Agent : \A i \in DOMAIN mailbox[a] : mailbox[a][i].call # c
<1>1. worker[c] = "none"
    BY DEF Inv, WorkersOK
<1>2. ASSUME NEW u \in Driver
      PROVE  /\ ~Holds(u, c) /\ (pc[u] \in AtCall => at[u] # c)
             /\ pc[u] = "delivering" => message[u].call # c
    <2>1. pc[u] \notin {"idle", "spawning"} => on[u] # None
        BY NoneAssumption DEF Inv, StagesOK
    <2>2. HolderOK(u) /\ c # None
        BY NoneAssumption DEF Inv, HandsOK
    <2> QED BY <2>1, <2>2 DEF Holds, HolderOK, AtCall
<1>3. ASSUME NEW a \in Agent, NEW i \in DOMAIN mailbox[a] PROVE mailbox[a][i].call # c
    <2>1. c # None /\ a # None
        BY NoneAssumption
    <2> QED BY <2>1 DEF Inv, MailOK, LetterOK
<1>4. QED
    BY <1>1, <1>2, <1>3

\* The first letter of a mailbox goes to a driver.
LEMMA OneTakes ==
    ASSUME Inv, NEW th \in Driver, NEW a \in Agent, Others(th), Shrunk(a),
           UNCHANGED <<owner, worker, recordedWorker, started, signalled>>,
           pc'[th] = "delivering", on'[th] = a, message'[th] = mailbox[a][1]
    PROVE  HandsOK' /\ MailOK'
<1> DEFINE m == mailbox[a][1]
<1>1. m \in Letter /\ m.call \in Call \cup {None} /\ 1 \in DOMAIN mailbox[a]
    BY MailCalls DEF Inv, Typed, Shrunk
<1>2. m.call # None => /\ owner[m.call] = a /\ InTime(m)
                       /\ \A u \in Driver : ~Holds(u, m.call)
                       /\ \A j \in DOMAIN mailbox[a] : mailbox[a][j].call = m.call => j = 1
    BY <1>1 DEF Inv, MailOK, LetterOK
<1> HIDE DEF m
<1>3. \A u \in Driver : u # th => \A c : Holds(u, c)' <=> Holds(u, c)
    BY DEF Others, Holds
<1>4. \A c : Holds(th, c)' <=> m.call = c
    BY DEF Holds, m
<1>5. \A u \in Driver : HolderOK(u)'
    <2>1. HolderOK(th)'
        BY <1>2 DEF HolderOK, InTime, AtCall, m
    <2>2. ASSUME NEW u \in Driver, u # th PROVE HolderOK(u)'
        BY <2>2 DEF Inv, HandsOK, HolderOK, Others, InTime
    <2> QED BY <2>1, <2>2
<1>6. HandsOK'
    <2>1. ASSUME NEW c \in Call, NEW t \in Driver, NEW u \in Driver, Holds(t, c)', Holds(u, c)'
          PROVE  t = u
        <3>1. c # None
            BY NoneAssumption
        <3> QED BY <1>2, <1>3, <1>4, <2>1, <3>1 DEF Inv, HandsOK
    <2>2. \A t, u \in Driver : pc'[t] = "recording" /\ pc'[u] = "starting" => at'[t] # at'[u]
        BY DEF Inv, HandsOK, Others
    <2> QED BY <1>5, <2>1, <2>2 DEF HandsOK
<1>7. MailOK'
    <2> SUFFICES ASSUME NEW b \in Agent, NEW i \in DOMAIN mailbox'[b], NEW c \in Call,
                        mailbox'[b][i].call = c
                 PROVE  LetterOK(b, i, c)'
        BY DEF MailOK
    <2>1. CASE b # a
        <3>1. mailbox'[b] = mailbox[b]
            BY <2>1 DEF Shrunk
        <3>2. LetterOK(b, i, c)
            BY <3>1 DEF Inv, MailOK
        <3>3. c # m.call
            BY <1>2, <2>1, <3>2, NoneAssumption DEF LetterOK
        <3> QED BY <1>3, <1>4, <3>1, <3>2, <3>3 DEF LetterOK, InTime
    <2>2. CASE b = a
        <3>1. /\ i + 1 \in DOMAIN mailbox[a] /\ mailbox'[a][i] = mailbox[a][i + 1]
              /\ i \in Nat \ {0} /\ \A j \in DOMAIN mailbox'[a] : j \in Nat \ {0}
            BY <2>2 DEF Shrunk
        <3>2. LetterOK(a, i + 1, c)
            BY <2>2, <3>1 DEF Inv, MailOK
        <3>3. c # m.call
            <4>1. i + 1 # 1
                BY <3>1
            <4> QED BY <1>2, <2>2, <3>1, <4>1, NoneAssumption
        <3>4. ASSUME NEW j \in DOMAIN mailbox'[a], mailbox'[a][j].call = c
              PROVE  j = i
            <4>1. j + 1 \in DOMAIN mailbox[a] /\ mailbox'[a][j] = mailbox[a][j + 1]
                BY DEF Shrunk
            <4>2. j + 1 = i + 1
                BY <3>2, <3>4, <4>1 DEF LetterOK
            <4> QED BY <3>1, <4>2
        <3>5. \A u \in Driver : ~Holds(u, c)'
            BY <1>3, <1>4, <3>2, <3>3 DEF LetterOK
        <3>6. owner[c] = a /\ InTime(mailbox[a][i + 1])
            BY <3>2 DEF LetterOK
        <3>7. InTime(mailbox[a][i])'
            BY <3>1, <3>6 DEF InTime
        <3> QED BY <2>2, <3>4, <3>5, <3>6, <3>7 DEF LetterOK
    <2> QED BY <2>1, <2>2
<1>8. QED
    BY <1>6, <1>7

Free == {"idle", "spawning", "notifying", "looping", "pumping", "inspecting", "cancelling"}

\* A driver that is at no call afterwards.
LEMMA FreeHand ==
    ASSUME HandsOK, MailOK, mailbox \in Mailboxes, NEW th \in Driver, Others(th), Quiet,
           UNCHANGED <<owner, worker, recordedWorker, started, signalled>>, pc'[th] \in Free
    PROVE  HandsOK' /\ MailOK'
<1>1. \A u \in Driver : u # th => Unrecorded(u)'
    BY DEF Unrecorded, HandsOK, HolderOK, Others
<1>2. HolderOK(th)' /\ \A c : ~Holds(th, c)'
    BY DEF HolderOK, Holds, Free, AtCall
<1>3. QED
    BY <1>1, <1>2, OneHand DEF Free

LEMMA Recordings ==
    ASSUME HandsOK PROVE \A u \in Driver : Unrecorded(u)
    BY DEF HandsOK, HolderOK, Unrecorded

\* The drivers and the workers stay where they are.
LEMMA SameHands ==
    ASSUME HandsOK, MailOK, mailbox \in Mailboxes, Quiet,
           UNCHANGED <<owner, worker, pc, on, at, message>>,
           (\A u \in Driver : Unrecorded(u)') \/ UNCHANGED <<recordedWorker, started, signalled>>
    PROVE  HandsOK' /\ MailOK'
<1>1. \A u \in Driver : \A k : Holds(u, k)' <=> Holds(u, k)
    BY DEF Holds
<1>2. \A u \in Driver : HolderOK(u)'
    BY DEF HandsOK, HolderOK, InTime, Unrecorded
<1>3. HandsOK'
    <2>1. \A k \in Call : \A t, u \in Driver : Holds(t, k)' /\ Holds(u, k)' => t = u
        BY <1>1 DEF HandsOK
    <2> QED BY <1>2, <2>1 DEF HandsOK
<1>4. MailOK'
    <2> SUFFICES ASSUME NEW a \in Agent, NEW i \in DOMAIN mailbox'[a], NEW c \in Call,
                        mailbox'[a][i].call = c
                 PROVE  LetterOK(a, i, c)'
        BY DEF MailOK
    <2>1. i \in DOMAIN mailbox[a] /\ mailbox[a][i] = mailbox'[a][i]
        BY NoneAssumption DEF Quiet
    <2>2. LetterOK(a, i, c)
        BY <2>1 DEF MailOK
    <2>3. \A j \in DOMAIN mailbox'[a] : mailbox'[a][j].call = c => j = i
        BY <2>2, NoneAssumption DEF LetterOK, Quiet
    <2> QED BY <1>1, <2>1, <2>2, <2>3 DEF LetterOK, InTime
<1>5. QED
    BY <1>3, <1>4

LEMMA HandsKept ==
    ASSUME Inv, [Next]_vars
    PROVE  HandsOK' /\ MailOK'
<1>1. CASE UNCHANGED <<mailbox, owner, worker, recordedWorker, started, signalled, pc, on, at, message>>
    BY <1>1, SameHands DEF Inv, Typed, Quiet
<1>2. ASSUME \/ UNCHANGED vars
             \/ \E th \in Driver : \E a \in Agent : Visit(th, a)
             \/ \E th \in Driver : \E a \in Agent : CancelEngine(th, a)
             \/ DestroyPool
      PROVE  UNCHANGED <<mailbox, owner, worker, recordedWorker, started, signalled, pc, on, at, message>>
    BY <1>2 DEF vars, agents, engines, workers, drivers, cancels, Visit, CancelEngine,
        DestroyPool, Begin, Goto, Return, EndPump
<1>3. ASSUME NEW th \in Driver, NEW p \in Agent \cup {None}, BeginSpawn(th, p)
      PROVE  HandsOK' /\ MailOK'
    <2>1. /\ mailbox \in Mailboxes /\ Others(th) /\ HandsOK /\ MailOK
          /\ UNCHANGED <<mailbox, owner, worker, recordedWorker, started, signalled>>
        BY <1>3, OneMoves DEF BeginSpawn, Inv, Typed, workers
    <2>2. Quiet
        BY <2>1 DEF Quiet
    <2>3. pc'[th] \in Free
        BY <1>3 DEF BeginSpawn, Goto, Free, Inv, Typed
    <2> QED BY <2>1, <2>2, <2>3, FreeHand
<1>4. ASSUME NEW th \in Driver, NEW a \in Agent, BeginStatus(th, a)
      PROVE  HandsOK' /\ MailOK'
    <2>1. /\ mailbox \in Mailboxes /\ Others(th) /\ HandsOK /\ MailOK
          /\ UNCHANGED <<mailbox, owner, worker, recordedWorker, started, signalled>>
        BY <1>4, OneMoves DEF BeginStatus, Inv, Typed, workers
    <2>2. Quiet
        BY <2>1 DEF Quiet
    <2>3. pc'[th] \in Free
        BY <1>4 DEF BeginStatus, Begin, Goto, Free, Inv, Typed
    <2> QED BY <2>1, <2>2, <2>3, FreeHand
<1>5. ASSUME NEW th \in Driver, NEW a \in Agent, BeginCancel(th, a)
      PROVE  HandsOK' /\ MailOK'
    <2>1. /\ mailbox \in Mailboxes /\ Others(th) /\ HandsOK /\ MailOK
          /\ UNCHANGED <<mailbox, owner, worker, recordedWorker, started, signalled>>
        BY <1>5, OneMoves DEF BeginCancel, Inv, Typed, workers
    <2>2. Quiet
        BY <2>1 DEF Quiet
    <2>3. pc'[th] \in Free
        BY <1>5 DEF BeginCancel, Begin, Goto, Free, Inv, Typed
    <2> QED BY <2>1, <2>2, <2>3, FreeHand
<1>6. ASSUME NEW th \in Driver, Timeout(th)
      PROVE  HandsOK' /\ MailOK'
    <2>1. /\ mailbox \in Mailboxes /\ Others(th) /\ HandsOK /\ MailOK
          /\ UNCHANGED <<mailbox, owner, worker, recordedWorker, started, signalled>>
        BY <1>6, OneMoves DEF Timeout, Inv, Typed, workers
    <2>2. Quiet
        BY <2>1 DEF Quiet
    <2>3. pc'[th] \in Free
        BY <1>6 DEF Timeout, Goto, Free, Inv, Typed
    <2> QED BY <2>1, <2>2, <2>3, FreeHand
<1>7. ASSUME NEW th \in Driver, Inspect(th)
      PROVE  HandsOK' /\ MailOK'
    <2>1. /\ mailbox \in Mailboxes /\ Others(th) /\ HandsOK /\ MailOK
          /\ UNCHANGED <<mailbox, owner, worker, recordedWorker, started, signalled>>
        BY <1>7, OneMoves DEF Inspect, Inv, Typed, workers
    <2>2. Quiet
        BY <2>1 DEF Quiet
    <2>3. pc'[th] \in Free
        BY <1>7 DEF Inspect, Return, Goto, Free, Inv, Typed
    <2> QED BY <2>1, <2>2, <2>3, FreeHand
<1>8. ASSUME NEW th \in Driver, EndStatus(th)
      PROVE  HandsOK' /\ MailOK'
    <2>1. /\ mailbox \in Mailboxes /\ Others(th) /\ HandsOK /\ MailOK
          /\ UNCHANGED <<mailbox, owner, worker, recordedWorker, started, signalled>>
        BY <1>8, OneMoves DEF EndStatus, Inv, Typed, workers
    <2>2. Quiet
        BY <2>1 DEF Quiet
    <2>3. pc'[th] \in Free
        BY <1>8 DEF EndStatus, Return, Goto, Free, Inv, Typed
    <2> QED BY <2>1, <2>2, <2>3, FreeHand
<1>9. ASSUME NEW th \in Driver, EndCancel(th)
      PROVE  HandsOK' /\ MailOK'
    <2>1. /\ mailbox \in Mailboxes /\ Others(th) /\ HandsOK /\ MailOK
          /\ UNCHANGED <<mailbox, owner, worker, recordedWorker, started, signalled>>
        BY <1>9, OneMoves DEF EndCancel, Inv, Typed, workers
    <2>2. Quiet
        BY <2>1 DEF Quiet
    <2>3. pc'[th] \in Free
        BY <1>9 DEF EndCancel, Return, Goto, Free, Inv, Typed
    <2> QED BY <2>1, <2>2, <2>3, FreeHand
<1>10. ASSUME NEW th \in Driver, Interrupt(th)
      PROVE  HandsOK' /\ MailOK'
    <2>1. /\ mailbox \in Mailboxes /\ Others(th) /\ HandsOK /\ MailOK
          /\ UNCHANGED <<mailbox, owner, worker, recordedWorker, started, signalled>>
        BY <1>10, OneMoves DEF Interrupt, Inv, Typed, workers
    <2>2. Quiet
        BY <2>1 DEF Quiet
    <2>3. pc'[th] \in Free
        BY <1>10 DEF Interrupt, Return, Goto, Free, Inv, Typed
    <2> QED BY <2>1, <2>2, <2>3, FreeHand
<1>11. ASSUME NEW th \in Driver, FailPendingCall(th)
      PROVE  HandsOK' /\ MailOK'
    <2>1. /\ mailbox \in Mailboxes /\ Others(th) /\ HandsOK /\ MailOK
          /\ UNCHANGED <<mailbox, owner, worker, recordedWorker, started, signalled>>
        BY <1>11, OneMoves DEF FailPendingCall, Inv, Typed, workers
    <2>2. Quiet
        BY <2>1 DEF Quiet
    <2>3. pc'[th] \in Free
        <3>1. CASE Return(th)
            BY <3>1 DEF Return, Goto, Free, Inv, Typed
        <3>2. CASE Goto(th, "notifying")
            BY <3>2 DEF Goto, Free, Inv, Typed
        <3> QED BY <1>11, <3>1, <3>2 DEF FailPendingCall
    <2> QED BY <2>1, <2>2, <2>3, FreeHand
<1>12. ASSUME NEW th \in Driver, Notify(th)
      PROVE  HandsOK' /\ MailOK'
    <2>1. /\ mailbox \in Mailboxes /\ Others(th) /\ HandsOK /\ MailOK /\ Boxed
          /\ UNCHANGED <<owner, worker, recordedWorker, started, signalled>>
        BY <1>12, OneMoves, TypedGives DEF Notify, Inv, Typed, workers
    <2>2. Notice("note").call = None /\ Notice("note") \in Letter
        BY Letters DEF Notice, Message
    <2>3. Quiet
        BY <1>12, <2>1, <2>2, Told, QuietGrown DEF Notify
    <2>4. pc'[th] \in Free
        <3>1. CASE Return(th)
            BY <3>1 DEF Return, Goto, Free, Inv, Typed
        <3>2. CASE EndPump(th)
            BY <3>1, <3>2, PumpEnded, Parts DEF Free, Inv
        <3> QED BY <1>12, <3>1, <3>2 DEF Notify
    <2> QED BY <2>1, <2>3, <2>4, FreeHand
<1>13. ASSUME NEW th \in Driver, Spawn(th)
      PROVE  HandsOK' /\ MailOK'
    <2>1. /\ mailbox \in Mailboxes /\ Others(th) /\ HandsOK /\ MailOK /\ Boxed
          /\ UNCHANGED <<owner, worker, recordedWorker, started, signalled>>
        BY <1>13, OneMoves, TypedGives DEF Spawn, Inv, Typed, workers
    <2>2. Notice("note").call = None /\ Notice("note") \in Letter
        BY Letters DEF Notice, Message
    <2>3. Quiet
        <3>1. CASE UNCHANGED mailbox
            BY <3>1 DEF Quiet
        <3>2. CASE SendTo(on[th], Notice("note"))
            BY <2>1, <2>2, <3>2, Sent, QuietGrown
        <3> QED BY <1>13, <3>1, <3>2 DEF Spawn
    <2>4. pc'[th] \in Free
        BY <1>13 DEF Spawn, Return, Goto, Free, Inv, Typed
    <2> QED BY <2>1, <2>3, <2>4, FreeHand
<1>14. ASSUME NEW th \in Driver, StartWorker(th)
      PROVE  HandsOK' /\ MailOK'
    <2>1. /\ mailbox \in Mailboxes /\ Others(th) /\ HandsOK /\ MailOK /\ Drivers
          /\ UNCHANGED <<mailbox, owner, worker, recordedWorker, signalled>>
          /\ pc[th] = "starting" /\ started' \subseteq started \cup {at[th]}
        BY <1>14, OneMoves, Parts DEF StartWorker, Inv, Typed
    <2>2. Quiet
        BY <2>1 DEF Quiet
    <2>3. pc'[th] \in {"idle", "looping"}
        <3>1. CASE Return(th)
            BY <2>1, <3>1, Returned
        <3>2. CASE EndPump(th)
            BY <2>1, <3>2, PumpEnded
        <3> QED BY <1>14, <3>1, <3>2 DEF StartWorker
    <2>4. HolderOK(th)' /\ \A c : ~Holds(th, c)'
        BY <2>3 DEF HolderOK, Holds, AtCall
    <2>5. \A u \in Driver : u # th => Unrecorded(u)'
        BY <2>1 DEF Unrecorded, HandsOK, HolderOK, Others
    <2> QED BY <2>1, <2>2, <2>3, <2>4, <2>5, OneHand
<1>15. ASSUME NEW th \in Driver, PumpSlice(th)
      PROVE  HandsOK' /\ MailOK'
    <2>1. /\ mailbox \in Mailboxes /\ Others(th) /\ HandsOK /\ MailOK /\ Drivers /\ Boxed
          /\ UNCHANGED <<owner, worker, recordedWorker, started, signalled>>
        BY <1>15, OneMoves, Parts, TypedGives DEF PumpSlice, Inv, Typed, workers
    <2>2. PICK a \in Agent : a = on[th]
        BY <1>15 DEF PumpSlice, Inv, StagesOK
    <2>3. CASE Receive(th, a) /\ Goto(th, "delivering") /\ UNCHANGED <<on, at, waits>>
        <3>1. Shrunk(a) /\ message'[th] = mailbox[a][1]
            BY <2>1, <2>3, Received DEF Drivers
        <3>2. pc'[th] = "delivering" /\ on'[th] = a
            BY <2>1, <2>2, <2>3 DEF Goto, Drivers
        <3> QED BY <2>1, <3>1, <3>2, OneTakes
    <2>4. CASE EndPump(th) /\ UNCHANGED mailbox
        <3>1. pc'[th] \in Free
            BY <2>1, <2>4, PumpEnded DEF Free
        <3> QED BY <2>1, <2>4, <3>1, FreeHand DEF Quiet
    <2>5. CASE Return(th) /\ UNCHANGED mailbox
        <3>1. pc'[th] \in Free
            BY <2>1, <2>5, Returned DEF Free
        <3> QED BY <2>1, <2>5, <3>1, FreeHand DEF Quiet
    <2> QED BY <1>15, <2>2, <2>3, <2>4, <2>5 DEF PumpSlice
<1>16. ASSUME NEW th \in Driver, NEW a \in Agent, Pump(th, a)
      PROVE  HandsOK' /\ MailOK'
    <2>1. /\ mailbox \in Mailboxes /\ Others(th) /\ Drivers /\ Boxed
          /\ UNCHANGED <<owner, worker, recordedWorker, started, signalled>>
        BY <1>16, OneMoves, Parts, TypedGives DEF Pump, Inv, Typed, workers
    <2>2. Shrunk(a) /\ message'[th] = mailbox[a][1]
        BY <1>16, <2>1, Received DEF Drivers, Pump
    <2>3. pc'[th] = "delivering" /\ on'[th] = a
        BY <1>16, <2>1 DEF Pump, Begin, Goto, Drivers
    <2> QED BY <2>1, <2>2, <2>3, OneTakes
<1>17. ASSUME NEW th \in Driver, Deliver(th)
      PROVE  HandsOK' /\ MailOK'
    <2>1. /\ mailbox \in Mailboxes /\ Others(th) /\ HandsOK /\ MailOK /\ Drivers /\ Engines
          /\ UNCHANGED <<mailbox, owner, worker, recordedWorker, started, signalled>>
        BY <1>17, OneMoves, Parts, TypedGives DEF Deliver, Inv, Typed, workers
    <2>2. PICK a \in Agent, m \in Letter : a = on[th] /\ m = message[th]
        BY <1>17 DEF Deliver, Inv, StagesOK
    <2>3. Quiet
        BY <2>1 DEF Quiet
    <2>4. CASE pc'[th] \in Free
        BY <2>1, <2>3, <2>4, FreeHand
    <2>5. CASE /\ pc'[th] = "creating" /\ on'[th] = a /\ at'[th] = m.call
               /\ m.kind = "request" /\ m.call \in Call
        <3>1. pc[th] = "delivering" /\ HolderOK(th) /\ m.call # None
            BY <1>17, <2>1, <2>5, NoneAssumption DEF Deliver, HandsOK
        <3>2. owner[m.call] = a /\ worker[m.call] = "none"
            BY <2>2, <2>5, <3>1 DEF HolderOK, InTime
        <3>3. HolderOK(th)'
            BY <2>1, <2>5, <3>2 DEF HolderOK, AtCall
        <3>4. \A c \in Call : Holds(th, c)' => Holds(th, c)
            BY <2>2, <2>5, <3>1 DEF Holds
        <3>5. \A u \in Driver : u # th => Unrecorded(u)'
            BY <2>1 DEF Unrecorded, HandsOK, HolderOK, Others
        <3> QED BY <2>1, <2>3, <2>5, <3>3, <3>4, <3>5, OneHand
    <2> QED BY <1>17, <2>1, <2>2, <2>4, <2>5, Delivered DEF Free
<1>18. ASSUME NEW th \in Driver, Admit(th)
      PROVE  HandsOK' /\ MailOK'
    <2>1. /\ mailbox \in Mailboxes /\ Others(th) /\ HandsOK /\ MailOK /\ Drivers
          /\ UNCHANGED <<mailbox, owner, worker, recordedWorker, started, signalled>>
        BY <1>18, OneMoves, Parts DEF Admit, Inv, Typed, workers
    <2>2. Quiet
        BY <2>1 DEF Quiet
    <2>3. CASE Return(th)
        <3>1. pc'[th] \in Free
            BY <2>1, <2>3, Returned DEF Free
        <3> QED BY <2>1, <2>2, <3>1, FreeHand
    <2>4. CASE Goto(th, "creating") /\ UNCHANGED <<on, at, message, waits>>
        <3>1. pc[th] = "admitting" /\ HolderOK(th) /\ pc'[th] = "creating"
              /\ at'[th] = at[th] /\ on'[th] = on[th]
            BY <1>18, <2>1, <2>4, Gone DEF Admit, HandsOK, Stage
        <3>2. HolderOK(th)'
            BY <2>1, <3>1 DEF HolderOK, AtCall
        <3>3. \A c \in Call : Holds(th, c)' => Holds(th, c)
            BY <3>1 DEF Holds
        <3>4. \A u \in Driver : u # th => Unrecorded(u)'
            BY <2>1 DEF Unrecorded, HandsOK, HolderOK, Others
        <3> QED BY <2>1, <2>2, <3>1, <3>2, <3>3, <3>4, OneHand
    <2> QED BY <1>18, <2>3, <2>4 DEF Admit
<1>19. ASSUME NEW th \in Driver, NEW a \in Agent, NEW c \in Call, BeginSupervised(th, a, c)
      PROVE  HandsOK' /\ MailOK'
    <2>1. /\ mailbox \in Mailboxes /\ Others(th) /\ HandsOK /\ MailOK /\ owner[c] = None
          /\ UNCHANGED <<mailbox, worker, recordedWorker, started, signalled>>
        BY <1>19, OneMoves DEF BeginSupervised, Fresh, Inv, Typed, workers
    <2>2. /\ pc'[th] = "admitting" /\ on'[th] = a /\ at'[th] = c
          /\ owner'[c] = a /\ \A k \in Call : k # c => owner'[k] = owner[k]
        BY <1>19 DEF BeginSupervised, Begin, Goto, Assign, Inv, Typed, TypeOK
    <2>3. /\ worker[c] = "none"
          /\ \A u \in Driver : ~Holds(u, c) /\ (pc[u] \in AtCall => at[u] # c)
          /\ \A u \in Driver : pc[u] = "delivering" => message[u].call # c
          /\ \A b \in Agent : \A i \in DOMAIN mailbox[b] : mailbox[b][i].call # c
        BY <2>1, Unheld
    <2>4. \A u \in Driver : u # th => \A k : Holds(u, k)' <=> Holds(u, k)
        BY <2>1 DEF Others, Holds
    <2>5. \A k : Holds(th, k)' <=> k = c
        BY <2>2 DEF Holds
    <2>6. ASSUME NEW u \in Driver, u # th PROVE HolderOK(u)'
        <3>1. HolderOK(u) /\ (pc[u] \in AtCall => at[u] \in Call)
              /\ (pc[u] = "delivering" => message[u] \in Letter)
            BY DEF Inv, HandsOK, StagesOK
        <3>2. pc[u] = "delivering" => message[u].call \in Call \cup {None}
            BY <3>1 DEF Letter
        <3> QED BY <2>1, <2>2, <2>3, <2>6, <3>1, <3>2 DEF HolderOK, Others, InTime, AtCall
    <2>7. HolderOK(th)'
        BY <2>1, <2>2, <2>3 DEF HolderOK, AtCall
    <2>8. HandsOK'
        <3>1. \A k \in Call : \A t, u \in Driver : Holds(t, k)' /\ Holds(u, k)' => t = u
            BY <2>1, <2>3, <2>4, <2>5 DEF HandsOK
        <3>2. \A t, u \in Driver : pc'[t] = "recording" /\ pc'[u] = "starting" => at'[t] # at'[u]
            BY <2>1, <2>2 DEF HandsOK, Others
        <3> QED BY <2>6, <2>7, <3>1, <3>2 DEF HandsOK
    <2>9. MailOK'
        <3> SUFFICES ASSUME NEW b \in Agent, NEW i \in DOMAIN mailbox'[b], NEW k \in Call,
                            mailbox'[b][i].call = k
                     PROVE  LetterOK(b, i, k)'
            BY DEF MailOK
        <3>1. LetterOK(b, i, k) /\ k # c
            BY <2>1, <2>3 DEF MailOK
        <3> QED BY <2>1, <2>2, <2>4, <2>5, <3>1 DEF LetterOK, InTime
    <2> QED BY <2>8, <2>9
<1>20. ASSUME NEW a \in Agent, NEW c \in Call, SendRequest(a, c)
      PROVE  HandsOK' /\ MailOK'
    <2>1. /\ HandsOK /\ MailOK /\ owner[c] = None /\ Boxed
          /\ UNCHANGED <<worker, recordedWorker, started, signalled, pc, on, at, message>>
        BY <1>20, TypedGives DEF SendRequest, Fresh, Inv, workers, drivers
    <2>2. owner'[c] = a /\ \A k \in Call : k # c => owner'[k] = owner[k]
        BY <1>20 DEF SendRequest, Assign, Inv, Typed, TypeOK
    <2>3. /\ worker[c] = "none"
          /\ \A u \in Driver : ~Holds(u, c) /\ (pc[u] \in AtCall => at[u] # c)
          /\ \A u \in Driver : pc[u] = "delivering" => message[u].call # c
          /\ \A b \in Agent : \A i \in DOMAIN mailbox[b] : mailbox[b][i].call # c
        BY <2>1, Unheld
    <2>4. \A u \in Driver : \A k : Holds(u, k)' <=> Holds(u, k)
        BY <2>1 DEF Holds
    <2>5. Grown(a, Request(c)) /\ Request(c).call = c /\ Request(c).kind = "request"
        BY <1>20, <2>1, Sent, Letters DEF SendRequest, Request, Message
    <2>6. ASSUME NEW u \in Driver PROVE HolderOK(u)'
        <3>1. HolderOK(u) /\ (pc[u] \in AtCall => at[u] \in Call)
              /\ (pc[u] = "delivering" => message[u] \in Letter)
            BY DEF Inv, HandsOK, StagesOK
        <3>2. pc[u] = "delivering" => message[u].call \in Call \cup {None}
            BY <3>1 DEF Letter
        <3> QED BY <2>1, <2>2, <2>3, <3>1, <3>2 DEF HolderOK, InTime, AtCall
    <2>7. HandsOK'
        <3>1. \A k \in Call : \A t, u \in Driver : Holds(t, k)' /\ Holds(u, k)' => t = u
            BY <2>1, <2>4 DEF HandsOK
        <3> QED BY <2>1, <2>6, <3>1 DEF HandsOK
    <2>8. MailOK'
        <3> SUFFICES ASSUME NEW b \in Agent, NEW i \in DOMAIN mailbox'[b], NEW k \in Call,
                            mailbox'[b][i].call = k
                     PROVE  LetterOK(b, i, k)'
            BY DEF MailOK
        <3>1. CASE i \in DOMAIN mailbox[b]
            <4>1. mailbox'[b][i] = mailbox[b][i] /\ LetterOK(b, i, k) /\ k # c
                BY <2>1, <2>3, <2>5, <3>1 DEF Grown, MailOK
            <4>2. \A j \in DOMAIN mailbox'[b] : mailbox'[b][j].call = k =>
                     j \in DOMAIN mailbox[b] /\ mailbox[b][j].call = k
                BY <2>5, <4>1 DEF Grown
            <4>3. InTime(mailbox[b][i])'
                BY <2>1, <4>1 DEF LetterOK, InTime
            <4> QED BY <2>2, <2>4, <4>1, <4>2, <4>3 DEF LetterOK
        <3>2. CASE i \notin DOMAIN mailbox[b]
            <4>1. b = a /\ mailbox'[b][i] = Request(c) /\ k = c /\ i = Len(mailbox[a]) + 1
                BY <2>5, <3>2 DEF Grown
            <4>2. \A j \in DOMAIN mailbox'[b] : mailbox'[b][j].call = c => j = i
                BY <2>3, <2>5, <4>1 DEF Grown
            <4>3. InTime(mailbox[b][i])'
                BY <2>1, <2>3, <2>5, <4>1 DEF InTime
            <4> QED BY <2>2, <2>3, <2>4, <4>1, <4>2, <4>3 DEF LetterOK
        <3> QED BY <3>1, <3>2
    <2> QED BY <2>7, <2>8
<1>21. ASSUME NEW a \in Agent, NEW kind \in Posted, Send(a, kind)
      PROVE  HandsOK' /\ MailOK'
    <2>1. /\ HandsOK /\ MailOK /\ mailbox \in Mailboxes /\ Boxed /\ Notice(kind).call = None
          /\ Notice(kind) \in Letter
          /\ UNCHANGED <<owner, worker, recordedWorker, started, signalled, pc, on, at, message>>
        BY <1>21, TypedGives, Letters, PostedAssumption DEF Send, Inv, Typed, workers, drivers,
           Notice, Message
    <2>2. Quiet
        BY <1>21, <2>1, Sent, QuietGrown DEF Send
    <2> QED BY <2>1, <2>2, SameHands
<1>22. ASSUME DestroyAgents
      PROVE  HandsOK' /\ MailOK'
    <2>1. /\ HandsOK /\ MailOK /\ mailbox \in Mailboxes
          /\ UNCHANGED <<owner, worker, recordedWorker, started, signalled, pc, on, at, message>>
        BY <1>22 DEF DestroyAgents, Inv, Typed, workers, drivers
    <2>2. Quiet
        BY <1>22 DEF DestroyAgents, Quiet
    <2> QED BY <2>1, <2>2, SameHands
<1>23. ASSUME DestroyRegistry
      PROVE  HandsOK' /\ MailOK'
    <2>1. /\ HandsOK /\ MailOK /\ mailbox \in Mailboxes
          /\ UNCHANGED <<owner, worker, mailbox, started, signalled, pc, on, at, message>>
          /\ recordedWorker' = {}
        BY <1>23 DEF DestroyRegistry, Inv, Typed, workers, drivers
    <2>2. Quiet /\ \A u \in Driver : Unrecorded(u)'
        BY <2>1 DEF Quiet, Unrecorded, HandsOK, HolderOK
    <2> QED BY <2>1, <2>2, SameHands
<1>24. ASSUME NEW th \in Driver, NEW a \in Agent, SignalWorkers(th, a)
      PROVE  HandsOK' /\ MailOK'
    <2>1. /\ HandsOK /\ MailOK /\ mailbox \in Mailboxes
          /\ UNCHANGED <<owner, worker, mailbox, started, recordedWorker, pc, on, at, message>>
          /\ signalled' \subseteq signalled \cup recordedWorker
        BY <1>24 DEF SignalWorkers, Signal, Inv, Typed, workers, drivers
    <2>2. Quiet /\ \A u \in Driver : Unrecorded(u)'
        BY <2>1 DEF Quiet, Unrecorded, HandsOK, HolderOK
    <2> QED BY <2>1, <2>2, SameHands
<1>25. ASSUME DestroyWorkers
      PROVE  HandsOK' /\ MailOK'
    <2>1. /\ HandsOK /\ MailOK /\ mailbox \in Mailboxes
          /\ UNCHANGED <<owner, worker, mailbox, started, recordedWorker, pc, on, at, message>>
          /\ signalled' \subseteq signalled \cup recordedWorker
        BY <1>25 DEF DestroyWorkers, Signal, Inv, Typed, workers, drivers
    <2>2. Quiet /\ \A u \in Driver : Unrecorded(u)'
        BY <2>1 DEF Quiet, Unrecorded, HandsOK, HolderOK
    <2> QED BY <2>1, <2>2, SameHands
<1>26. ASSUME NEW th \in Driver, CreateWorker(th)
      PROVE  HandsOK' /\ MailOK'
    <2>1. /\ mailbox \in Mailboxes /\ Others(th) /\ HandsOK /\ MailOK /\ Drivers
          /\ UNCHANGED <<mailbox, owner, recordedWorker, started, signalled, on, at, message>>
          /\ pc[th] = "creating" /\ HolderOK(th)
        BY <1>26, OneMoves, Parts DEF CreateWorker, Inv, Typed, HandsOK
    <2>2. PICK c \in Call : c = at[th]
        BY <1>26 DEF CreateWorker, Inv, StagesOK, AtCall
    <2>3. Quiet /\ \A u \in Driver : u # th => Unrecorded(u)'
        BY <2>1 DEF Quiet, Unrecorded, HandsOK, HolderOK, Others
    <2>4. owner[c] = on[th] /\ worker[c] = "none"
        BY <2>1, <2>2 DEF HolderOK, AtCall
    <2>5. Holds(th, c) /\ \A k : Holds(th, k) => k = c
        BY <2>1, <2>2 DEF Holds
    <2>6. CASE Goto(th, "refusing") /\ UNCHANGED worker
        <3>1. pc'[th] = "refusing"
            BY <2>1, <2>6 DEF Goto, Drivers
        <3>2. HolderOK(th)' /\ \A k \in Call : Holds(th, k)' => Holds(th, k)
            BY <2>1, <2>2, <2>4, <2>5, <2>6, <3>1 DEF HolderOK, Holds, AtCall
        <3> QED BY <2>1, <2>3, <2>6, <3>1, <3>2, OneHand
    <2>7. ASSUME NEW p, NEW s, <<p, s>> \in {<<"recording", "waiting">>, <<"refusing", "orphan">>},
                 Goto(th, p), worker' = [worker EXCEPT ![c] = s]
          PROVE  HandsOK' /\ MailOK'
        <3>1. /\ pc'[th] = p /\ worker'[c] = s
              /\ \/ p = "recording" /\ s = "waiting"
                 \/ p = "refusing" /\ s = "orphan"
              /\ \A k \in Call : k # c => worker'[k] = worker[k]
            BY <2>1, <2>7 DEF Goto, Drivers, Inv, Typed, TypeOK
        <3>2. \A u \in Driver : u # th => ~Holds(u, c)
            BY <2>1, <2>5 DEF HandsOK
        <3>3. /\ \A u \in Driver : u # th => \A k : Holds(u, k)' <=> Holds(u, k)
              /\ \A k : Holds(th, k)' => k = c
            BY <2>1, <2>2, <3>1 DEF Others, Holds
        <3>4. c \notin recordedWorker \cup started \cup signalled
            BY <2>4 DEF Inv, WorkersOK, WorkerFactsAreLive, Live
        <3>5. HolderOK(th)'
            BY <2>1, <2>2, <2>4, <3>1, <3>4 DEF HolderOK, AtCall
        <3>6. ASSUME NEW u \in Driver, u # th PROVE HolderOK(u)'
            <4>1. HolderOK(u) /\ (pc[u] \in AtCall => at[u] \in Call)
                  /\ (pc[u] = "delivering" => message[u] \in Letter)
                BY DEF Inv, HandsOK, StagesOK
            <4>2. pc[u] = "delivering" => message[u].call \in Call \cup {None}
                BY <4>1 DEF Letter
            <4>3. ~Holds(u, c)
                BY <3>2, <3>6
            <4>4. CASE pc[u] = "delivering"
                BY <2>1, <3>1, <3>6, <4>1, <4>2, <4>3, <4>4 DEF HolderOK, Holds, Others,
                   InTime, AtCall
            <4>5. CASE pc[u] \in AtCall
                BY <2>1, <3>1, <3>6, <4>1, <4>3, <4>5 DEF HolderOK, Holds, Others, AtCall
            <4>6. CASE pc[u] # "delivering" /\ pc[u] \notin AtCall
                BY <2>1, <3>6, <4>6 DEF HolderOK, Others, AtCall
            <4> QED BY <4>4, <4>5, <4>6
        <3>7. HandsOK'
            <4>1. \A k \in Call : \A t, u \in Driver : Holds(t, k)' /\ Holds(u, k)' => t = u
                BY <2>1, <3>2, <3>3 DEF HandsOK
            <4>2. ASSUME NEW t \in Driver, NEW u \in Driver, pc'[t] = "recording", pc'[u] = "starting"
                  PROVE  at'[t] # at'[u]
                <5>1. u # th /\ pc[u] = "starting" /\ at'[u] = at[u]
                    BY <2>1, <3>1, <4>2 DEF Others
                <5>2. CASE t = th
                    <6>1. worker[at[u]] # "none"
                        BY <2>1, <5>1 DEF HandsOK, HolderOK
                    <6> QED BY <2>1, <2>2, <2>4, <5>1, <5>2, <6>1
                <5>3. CASE t # th
                    BY <2>1, <4>2, <5>1, <5>3 DEF HandsOK, Others
                <5> QED BY <5>2, <5>3
            <4> QED BY <3>5, <3>6, <4>1, <4>2 DEF HandsOK
        <3>8. MailOK'
            <4> SUFFICES ASSUME NEW b \in Agent, NEW i \in DOMAIN mailbox'[b], NEW k \in Call,
                                mailbox'[b][i].call = k
                         PROVE  LetterOK(b, i, k)'
                BY DEF MailOK
            <4>1. LetterOK(b, i, k) /\ k # c
                BY <2>1, <2>5 DEF MailOK, LetterOK
            <4> QED BY <2>1, <3>1, <3>3, <4>1 DEF LetterOK, InTime
        <3> QED BY <3>7, <3>8
    <2>8. \/ Goto(th, "refusing") /\ UNCHANGED worker
          \/ Goto(th, "recording") /\ worker' = [worker EXCEPT ![c] = "waiting"]
          \/ Goto(th, "refusing") /\ worker' = [worker EXCEPT ![c] = "orphan"]
        BY <1>26, <2>2 DEF CreateWorker
    <2> QED BY <2>6, <2>7, <2>8
<1>27. ASSUME NEW th \in Driver, RecordWorker(th)
      PROVE  HandsOK' /\ MailOK'
    <2>1. /\ Others(th) /\ HandsOK /\ MailOK
          /\ UNCHANGED <<mailbox, owner, worker, started, signalled, on, at, message>>
          /\ recordedWorker' = recordedWorker \cup {at[th]}
          /\ pc[th] = "recording" /\ HolderOK(th) /\ pc'[th] = "starting"
        BY <1>27, OneMoves DEF RecordWorker, Goto, Inv, Typed, HandsOK
    <2>2. PICK c \in Call : c = at[th]
        BY <1>27 DEF RecordWorker, Inv, StagesOK, AtCall
    <2>3. /\ \A u \in Driver : u # th => \A k : Holds(u, k)' <=> Holds(u, k)
          /\ \A k : ~Holds(th, k)'
        BY <2>1 DEF Others, Holds
    <2>4. \A u \in Driver : u # th /\ pc[u] = "recording" => at[u] # c
        BY <2>1, <2>2 DEF HandsOK, Holds
    <2>5. HolderOK(th)'
        BY <2>1, <2>2 DEF HolderOK, AtCall
    <2>6. \A u \in Driver : u # th => HolderOK(u)'
        BY <2>1, <2>2, <2>4 DEF HandsOK, HolderOK, Others, InTime
    <2>7. HandsOK'
        <3>1. \A k \in Call : \A t, u \in Driver : Holds(t, k)' /\ Holds(u, k)' => t = u
            BY <2>1, <2>3 DEF HandsOK
        <3>2. \A t, u \in Driver : pc'[t] = "recording" /\ pc'[u] = "starting" => at'[t] # at'[u]
            BY <2>1, <2>2, <2>4 DEF HandsOK, Others
        <3> QED BY <2>5, <2>6, <3>1, <3>2 DEF HandsOK
    <2>8. MailOK'
        BY <2>1, <2>3 DEF MailOK, LetterOK, InTime
    <2> QED BY <2>7, <2>8
<1>28. ASSUME NEW c \in Call, Work(c)
      PROVE  HandsOK' /\ MailOK'
    <2>1. /\ HandsOK /\ MailOK /\ mailbox \in Mailboxes /\ StagesOK /\ Drivers /\ Boxed
          /\ UNCHANGED <<owner, drivers>>
          /\ recordedWorker' \subseteq recordedWorker
          /\ started' \subseteq started /\ signalled' \subseteq signalled
        BY <1>28, Parts, TypedGives DEF Work, Inv, Typed
    <2>2. \A u \in Driver : Unrecorded(u)'
        BY <2>1, Recordings DEF Unrecorded, drivers
    <2>3. \A k \in Call : k # c => worker'[k] = worker[k]
        BY <1>28 DEF Work, Move, Inv, Typed, TypeOK
    <2>4. worker[c] \notin {"none", "orphan", "leaving", "over"} /\ worker'[c] # "none"
        BY <1>28 DEF Work, Move, Inv, Typed, TypeOK
    <2>5. \A u \in Driver : pc[u] = "recording" => at[u] # c
        BY <1>28, <2>1 DEF Work, HandsOK, HolderOK
    <2>6. Quiet
        BY <1>28 DEF Work, Quiet
    <2> QED BY <2>1, <2>2, <2>3, <2>4, <2>5, <2>6, OneWorker
<1>29. ASSUME NEW c \in Call, EndWork(c)
      PROVE  HandsOK' /\ MailOK'
    <2>1. /\ HandsOK /\ MailOK /\ mailbox \in Mailboxes /\ StagesOK /\ Drivers /\ Boxed
          /\ UNCHANGED <<owner, drivers>>
          /\ recordedWorker' \subseteq recordedWorker
          /\ started' \subseteq started /\ signalled' \subseteq signalled
        BY <1>29, Parts, TypedGives DEF EndWork, Inv, Typed
    <2>2. \A u \in Driver : Unrecorded(u)'
        BY <2>1, Recordings DEF Unrecorded, drivers
    <2>3. \A k \in Call : k # c => worker'[k] = worker[k]
        BY <1>29 DEF EndWork, Move, Inv, Typed, TypeOK
    <2>4. worker[c] \notin {"none", "orphan", "leaving", "over"} /\ worker'[c] # "none"
        BY <1>29 DEF EndWork, Move, Inv, Typed, TypeOK
    <2>5. \A u \in Driver : pc[u] = "recording" => at[u] # c
        BY <1>29, <2>1 DEF EndWork, HandsOK, HolderOK
    <2>6. Quiet
        BY <1>29 DEF EndWork, Quiet
    <2> QED BY <2>1, <2>2, <2>3, <2>4, <2>5, <2>6, OneWorker
<1>30. ASSUME NEW c \in Call, ForceFailure(c)
      PROVE  HandsOK' /\ MailOK'
    <2>1. /\ HandsOK /\ MailOK /\ mailbox \in Mailboxes /\ StagesOK /\ Drivers /\ Boxed
          /\ UNCHANGED <<owner, drivers>>
          /\ recordedWorker' \subseteq recordedWorker
          /\ started' \subseteq started /\ signalled' \subseteq signalled
        BY <1>30, Parts, TypedGives DEF ForceFailure, Inv, Typed
    <2>2. \A u \in Driver : Unrecorded(u)'
        BY <2>1, Recordings DEF Unrecorded, drivers
    <2>3. \A k \in Call : k # c => worker'[k] = worker[k]
        <3>1. \E p : worker' = [worker EXCEPT ![c] = p]
            BY <1>30 DEF ForceFailure, Move
        <3> QED BY <3>1 DEF Inv, Typed, TypeOK
    <2>4. worker[c] \notin {"none", "orphan", "leaving", "over"} /\ worker'[c] # "none"
        <3>1. worker[c] = "failing" /\ \E p \in {"leaving", "telling"} : worker' = [worker EXCEPT ![c] = p]
            BY <1>30 DEF ForceFailure, Move
        <3> QED BY <3>1 DEF Inv, Typed, TypeOK
    <2>5. \A u \in Driver : pc[u] = "recording" => at[u] # c
        BY <1>30, <2>1 DEF ForceFailure, HandsOK, HolderOK
    <2>6. Quiet
        BY <1>30 DEF ForceFailure, Quiet
    <2> QED BY <2>1, <2>2, <2>3, <2>4, <2>5, <2>6, OneWorker
<1>31. ASSUME NEW c \in Call, EndWorker(c)
      PROVE  HandsOK' /\ MailOK'
    <2>1. /\ HandsOK /\ MailOK /\ mailbox \in Mailboxes /\ StagesOK /\ Drivers /\ Boxed
          /\ UNCHANGED <<owner, drivers>>
          /\ recordedWorker' \subseteq recordedWorker
          /\ started' \subseteq started /\ signalled' \subseteq signalled
        BY <1>31, Parts, TypedGives DEF EndWorker, Inv, Typed
    <2>2. \A u \in Driver : Unrecorded(u)'
        BY <2>1, Recordings DEF Unrecorded, drivers
    <2>3. \A k \in Call : k # c => worker'[k] = worker[k]
        BY <1>31 DEF EndWorker, Move, Inv, Typed, TypeOK
    <2>4. worker[c] \in {"leaving", "over"} /\ worker'[c] \in {"leaving", "over"}
        BY <1>31 DEF EndWorker, Move, Inv, Typed, TypeOK
    <2>5. \A u \in Driver : pc[u] = "recording" => at[u] # c
        BY <1>31, <2>1 DEF EndWorker, HandsOK, HolderOK
    <2>6. Quiet
        BY <1>31 DEF EndWorker, Quiet
    <2> QED BY <2>1, <2>2, <2>3, <2>4, <2>5, <2>6, OneWorker
<1>32. ASSUME NEW c \in Call, TellParent(c)
      PROVE  HandsOK' /\ MailOK'
    <2>1. /\ HandsOK /\ MailOK /\ mailbox \in Mailboxes /\ StagesOK /\ Drivers /\ Boxed
          /\ UNCHANGED <<owner, drivers>>
          /\ recordedWorker' \subseteq recordedWorker
          /\ started' \subseteq started /\ signalled' \subseteq signalled
        BY <1>32, Parts, TypedGives DEF TellParent, Inv, Typed
    <2>2. \A u \in Driver : Unrecorded(u)'
        BY <2>1, Recordings DEF Unrecorded, drivers
    <2>3. \A k \in Call : k # c => worker'[k] = worker[k]
        BY <1>32 DEF TellParent, Move, Inv, Typed, TypeOK
    <2>4. worker[c] \notin {"none", "orphan", "leaving", "over"} /\ worker'[c] # "none"
        BY <1>32 DEF TellParent, Move, Inv, Typed, TypeOK
    <2>5. \A u \in Driver : pc[u] = "recording" => at[u] # c
        BY <1>32, <2>1 DEF TellParent, HandsOK, HolderOK
    <2>6. Quiet
        <3>1. Notice("note").call = None
            BY DEF Notice, Message
        <3> QED BY <1>32, <2>1, <3>1, Told, QuietGrown DEF TellParent
    <2> QED BY <2>1, <2>2, <2>3, <2>4, <2>5, <2>6, OneWorker
<1>33. ASSUME NEW c \in Call, HandleSignal(c)
      PROVE  HandsOK' /\ MailOK'
    <2>1. /\ HandsOK /\ MailOK /\ mailbox \in Mailboxes /\ StagesOK /\ Drivers /\ Boxed
          /\ UNCHANGED <<owner, drivers>>
          /\ recordedWorker' \subseteq recordedWorker
          /\ started' \subseteq started /\ signalled' \subseteq signalled
        BY <1>33, Parts, TypedGives DEF HandleSignal, Inv, Typed
    <2>2. \A u \in Driver : Unrecorded(u)'
        BY <2>1, Recordings DEF Unrecorded, drivers
    <2>3. \A k \in Call : k # c => worker'[k] = worker[k]
        BY <1>33 DEF HandleSignal, Move, Inv, Typed, TypeOK
    <2>4. \/ worker[c] \notin {"none", "orphan", "leaving", "over"} /\ worker'[c] # "none"
          \/ worker[c] = "leaving" /\ worker'[c] = "leaving"
        <3>1. \/ worker[c] \in {"waiting", "running"} /\ Move(c, "sending")
              \/ worker[c] = "sending" /\ Move(c, "failing")
              \/ worker[c] \in {"sending", "failing", "telling", "leaving"} /\ Move(c, "leaving")
            BY <1>33 DEF HandleSignal
        <3> QED BY <3>1 DEF Move, Inv, Typed, TypeOK
    <2>5. \A u \in Driver : pc[u] = "recording" => at[u] # c
        BY <1>33, <2>1 DEF HandleSignal, HandsOK, HolderOK
    <2>6. Quiet
        BY <1>33 DEF HandleSignal, Quiet
    <2> QED BY <2>1, <2>2, <2>3, <2>4, <2>5, <2>6, OneWorker
<1>34. ASSUME NEW c \in Call, SendResult(c)
      PROVE  HandsOK' /\ MailOK'
    <2>1. /\ HandsOK /\ MailOK /\ mailbox \in Mailboxes /\ StagesOK /\ Drivers /\ Boxed
          /\ UNCHANGED <<owner, drivers, recordedWorker, started, signalled>>
          /\ worker[c] = "sending"
        BY <1>34, Parts, TypedGives DEF SendResult, Inv, Typed
    <2>2. PICK a \in Agent : a = owner[c]
        BY <2>1 DEF Inv, WorkersOK, Typed, TypeOK
    <2>3. /\ \A k \in Call : k # c => worker'[k] = worker[k]
          /\ worker'[c] \in {"failing", "leaving"}
          /\ HasRoom(a) => worker'[c] = "leaving"
        BY <1>34, <2>2 DEF SendResult, Move, Inv, Typed, TypeOK
    <2>4. PICK m \in Letter : /\ SendTo(a, m) /\ m.call = c /\ m.kind = "result"
        <3>1. Result(c, result[c]) \in Letter /\ Result(c, result[c]).call = c
              /\ Result(c, result[c]).kind = "result"
            BY Letters DEF Inv, Typed, TypeOK, Result, Message
        <3> QED BY <1>34, <2>2, <3>1 DEF SendResult
    <2>5. Grown(a, m)
        BY <2>1, <2>4, Sent
    <2>6. UNCHANGED <<pc, on, at, message>>
        BY <2>1 DEF drivers
    <2>7. ASSUME NEW u \in Driver PROVE ~Holds(u, c) /\ (pc[u] = "recording" => at[u] # c)
        <3>1. HolderOK(u) /\ c # None
            BY <2>1, NoneAssumption DEF HandsOK
        <3> QED BY <2>1, <3>1 DEF HolderOK, Holds, InTime
    <2>8. \A b \in Agent : \A i \in DOMAIN mailbox[b] : mailbox[b][i].call # c
        BY <2>1 DEF MailOK, LetterOK, InTime
    <2>9. \A u \in Driver : \A k : Holds(u, k)' <=> Holds(u, k)
        BY <2>6 DEF Holds
    <2>10. ASSUME NEW u \in Driver PROVE HolderOK(u)'
        <3>1. HolderOK(u) /\ (pc[u] \in AtCall => at[u] \in Call)
              /\ (pc[u] = "delivering" => message[u] \in Letter)
            BY <2>1 DEF HandsOK, StagesOK
        <3>2. pc[u] = "delivering" => message[u].call \in Call \cup {None}
            BY <3>1 DEF Letter
        <3>3. ~Holds(u, c) /\ (pc[u] = "recording" => at[u] # c)
            BY <2>7
        <3> QED BY <2>1, <2>3, <2>6, <3>1, <3>2, <3>3 DEF HolderOK, Holds, InTime, AtCall
    <2>11. HandsOK'
        <3>1. \A k \in Call : \A t, u \in Driver : Holds(t, k)' /\ Holds(u, k)' => t = u
            BY <2>1, <2>9 DEF HandsOK
        <3> QED BY <2>1, <2>6, <2>10, <3>1 DEF HandsOK
    <2>12. MailOK'
        <3> SUFFICES ASSUME NEW b \in Agent, NEW i \in DOMAIN mailbox'[b], NEW k \in Call,
                            mailbox'[b][i].call = k
                     PROVE  LetterOK(b, i, k)'
            BY DEF MailOK
        <3>1. CASE i \in DOMAIN mailbox[b]
            <4>1. mailbox'[b][i] = mailbox[b][i] /\ LetterOK(b, i, k) /\ k # c
                BY <2>1, <2>5, <2>8, <3>1 DEF Grown, MailOK
            <4>2. \A j \in DOMAIN mailbox'[b] : mailbox'[b][j].call = k =>
                     j \in DOMAIN mailbox[b] /\ mailbox[b][j].call = k
                BY <2>4, <2>5, <4>1 DEF Grown
            <4>3. InTime(mailbox[b][i])'
                BY <2>1, <2>3, <3>1, <4>1 DEF LetterOK, InTime
            <4> QED BY <2>1, <2>9, <4>1, <4>2, <4>3 DEF LetterOK
        <3>2. CASE i \notin DOMAIN mailbox[b]
            <4>1. b = a /\ mailbox'[b][i] = m /\ k = c /\ i = Len(mailbox[a]) + 1 /\ HasRoom(a)
                BY <2>4, <2>5, <3>2 DEF Grown
            <4>2. \A j \in DOMAIN mailbox'[b] : mailbox'[b][j].call = c => j = i
                BY <2>5, <2>8, <4>1 DEF Grown
            <4>3. InTime(mailbox[b][i])'
                BY <2>3, <2>4, <4>1 DEF InTime
            <4> QED BY <2>1, <2>2, <2>7, <2>9, <4>1, <4>2, <4>3 DEF LetterOK
        <3> QED BY <3>1, <3>2
    <2> QED BY <2>11, <2>12
<1>35. QED
    BY Steps, <1>1, <1>2, <1>3, <1>4, <1>5, <1>6, <1>7, <1>8, <1>9, <1>10, <1>11, <1>12, <1>13,
        <1>14, <1>15, <1>16, <1>17, <1>18, <1>19, <1>20, <1>21, <1>22, <1>23, <1>24, <1>25, <1>26,
        <1>27, <1>28, <1>29, <1>30, <1>31, <1>32, <1>33, <1>34

-----------------------------------------------------------------------------
(* The calls an agent waits for.                                           *)

LEMMA EngineTakes ==
    ASSUME Engines, EnginesOK, NEW a \in Agent, NEW m \in Letter, Take(a, m), UNCHANGED owner,
           m.kind = "request" => owner[m.call] = a
    PROVE  EnginesOK'
<1>1. /\ pending' \in [Agent -> SUBSET Call]
      /\ \A b \in Agent : b # a => pending'[b] = pending[b]
      /\ pending'[a] = IF m.kind = "request" /\ status[a] = "active" THEN pending[a] \cup {m.call}
                       ELSE IF m.kind = "result" THEN pending[a] \ {m.call} ELSE pending[a]
    BY Taken DEF Engines
<1>2. \A c \in pending'[a] : c \in pending[a] \/ (m.kind = "request" /\ c = m.call)
    BY <1>1
<1>3. QED
    BY <1>1, <1>2 DEF EnginesOK

LEMMA EnginesKept ==
    ASSUME Inv, [Next]_vars
    PROVE  EnginesOK'
<1>1. CASE UNCHANGED <<pending, owner>>
    BY <1>1 DEF Inv, EnginesOK
<1>2. ASSUME \/ UNCHANGED vars
             \/ \E th \in Driver : \E p \in Agent \cup {None} : BeginSpawn(th, p)
             \/ \E th \in Driver : \E a \in Agent : BeginStatus(th, a)
             \/ \E th \in Driver : \E a \in Agent : Pump(th, a)
             \/ \E th \in Driver : \E a \in Agent : BeginCancel(th, a)
             \/ \E a \in Agent : \E kind \in Posted : Send(a, kind)
             \/ DestroyWorkers
             \/ \E th \in Driver : Spawn(th)
             \/ \E th \in Driver : Notify(th)
             \/ \E th \in Driver : CreateWorker(th)
             \/ \E th \in Driver : RecordWorker(th)
             \/ \E th \in Driver : StartWorker(th)
             \/ \E th \in Driver : Inspect(th)
             \/ \E th \in Driver : PumpSlice(th)
             \/ \E th \in Driver : EndStatus(th)
             \/ \E th \in Driver : \E a \in Agent : Visit(th, a)
             \/ \E th \in Driver : \E a \in Agent : SignalWorkers(th, a)
             \/ \E th \in Driver : EndCancel(th)
             \/ \E th \in Driver : Timeout(th)
             \/ \E th \in Driver : Interrupt(th)
             \/ \E c \in Call : Work(c)
             \/ \E c \in Call : HandleSignal(c)
             \/ \E c \in Call : SendResult(c)
             \/ \E c \in Call : TellParent(c)
             \/ \E c \in Call : EndWorker(c)
             \/ \E c \in Call : EndWork(c)
             \/ DestroyPool
             \/ DestroyRegistry
      PROVE  UNCHANGED <<pending, owner>>
    BY <1>2 DEF vars, agents, engines, workers, drivers, cancels, BeginSpawn, BeginStatus, Pump,
        BeginCancel, Send, DestroyWorkers, Spawn, Notify, CreateWorker, RecordWorker, StartWorker,
        Inspect, PumpSlice, EndStatus, Visit, SignalWorkers, EndCancel, Timeout, Interrupt, Work,
        HandleSignal, SendResult, TellParent, EndWorker, EndWork, DestroyPool, DestroyRegistry,
        Begin, Goto, Return, EndPump
<1>3. ASSUME \/ \E th \in Driver : \E a \in Agent : \E c \in Call : BeginSupervised(th, a, c)
             \/ \E a \in Agent : \E c \in Call : SendRequest(a, c)
      PROVE  EnginesOK'
    <2>1. PICK a \in Agent, c \in Call : owner[c] = None /\ owner' = [owner EXCEPT ![c] = a]
        BY <1>3 DEF BeginSupervised, SendRequest, Fresh, Assign
    <2>2. UNCHANGED pending
        BY <1>3 DEF BeginSupervised, SendRequest, engines
    <2> QED BY <2>1, <2>2, NoneAssumption DEF Inv, Typed, TypeOK, EnginesOK
<1>4. ASSUME DestroyAgents
      PROVE  EnginesOK'
    BY <1>4 DEF DestroyAgents, Inv, Typed, TypeOK, EnginesOK
<1>5. ASSUME NEW th \in Driver, Deliver(th)
      PROVE  EnginesOK'
    <2>1. /\ Drivers /\ Engines /\ EnginesOK /\ UNCHANGED owner /\ pc[th] = "delivering"
          /\ HolderOK(th)
        BY <1>5, Parts, TypedGives DEF Deliver, Inv, HandsOK
    <2>2. PICK a \in Agent, m \in Letter : a = on[th] /\ m = message[th]
        BY <2>1 DEF Inv, StagesOK
    <2>3. m.kind = "request" => owner[m.call] = a
        BY <2>1, <2>2 DEF HolderOK, Letter
    <2>4. CASE UNCHANGED engines
        BY <2>1, <2>4 DEF EnginesOK, engines
    <2>5. CASE Take(a, m)
        BY <2>1, <2>3, <2>5, EngineTakes
    <2> QED BY <1>5, <2>1, <2>2, <2>4, <2>5, Delivered
<1>6. ASSUME NEW th \in Driver, FailPendingCall(th)
      PROVE  EnginesOK'
    <2>1. Engines /\ EnginesOK /\ UNCHANGED owner
        BY <1>6, TypedGives DEF FailPendingCall, Inv
    <2>2. PICK a \in Agent, k \in Call : a = on[th] /\ k = at[th]
        BY <1>6 DEF FailPendingCall, Inv, StagesOK, AtCall
    <2>3. /\ Result(k, "error") \in Letter
          /\ Result(k, "error").kind = "request" => owner[Result(k, "error").call] = a
        BY Letters DEF Result, Message
    <2>4. CASE UNCHANGED engines
        BY <2>1, <2>4 DEF EnginesOK, engines
    <2>5. CASE Take(a, Result(k, "error"))
        BY <2>1, <2>2, <2>3, <2>5, EngineTakes
    <2> QED BY <1>6, <2>2, <2>4, <2>5 DEF FailPendingCall
<1>7. ASSUME NEW th \in Driver, Admit(th)
      PROVE  EnginesOK'
    <2>1. Engines /\ EnginesOK /\ UNCHANGED owner
        BY <1>7, TypedGives DEF Admit, Inv
    <2>2. PICK a \in Agent, k \in Call : a = on[th] /\ k = at[th]
        BY <1>7 DEF Admit, Inv, StagesOK, AtCall
    <2>3. Request(k) \in Letter /\ (Request(k).kind = "request" => owner[Request(k).call] = a)
        BY <1>7, <2>2, Letters DEF Request, Message, Inv, HandsOK, HolderOK, AtCall, Admit
    <2>4. CASE UNCHANGED engines
        BY <2>1, <2>4 DEF EnginesOK, engines
    <2>5. CASE Take(a, Request(k))
        BY <2>1, <2>2, <2>3, <2>5, EngineTakes
    <2> QED BY <1>7, <2>2, <2>4, <2>5 DEF Admit
<1>8. ASSUME NEW th \in Driver, NEW a \in Agent, CancelEngine(th, a)
      PROVE  EnginesOK'
    <2>1. Engines /\ EnginesOK /\ UNCHANGED owner
        BY <1>8, TypedGives DEF CancelEngine, Inv
    <2>2. a \in Agent
        OBVIOUS
    <2>3. /\ Notice("cancel") \in Letter
          /\ Notice("cancel").kind = "request" => owner[Notice("cancel").call] = a
        BY Letters DEF Notice, Message
    <2>4. CASE UNCHANGED engines
        BY <2>1, <2>4 DEF EnginesOK, engines
    <2>5. CASE Take(a, Notice("cancel"))
        BY <2>1, <2>2, <2>3, <2>5, EngineTakes
    <2> QED BY <1>8, <2>2, <2>4, <2>5 DEF CancelEngine
<1>9. ASSUME NEW c \in Call, ForceFailure(c)
      PROVE  EnginesOK'
    <2>1. Engines /\ EnginesOK /\ UNCHANGED owner
        BY <1>9, TypedGives DEF ForceFailure, Inv
    <2>2. PICK a \in Agent : a = owner[c]
        BY <1>9 DEF ForceFailure, Inv, WorkersOK, Typed, TypeOK
    <2>3. /\ Notice("budget_exhausted") \in Letter
          /\ Notice("budget_exhausted").kind = "request" =>
                 owner[Notice("budget_exhausted").call] = a
        BY Letters DEF Notice, Message
    <2>4. CASE UNCHANGED engines
        BY <2>1, <2>4 DEF EnginesOK, engines
    <2>5. CASE Take(a, Notice("budget_exhausted"))
        BY <2>1, <2>2, <2>3, <2>5, EngineTakes
    <2> QED BY <1>9, <2>2, <2>4, <2>5 DEF ForceFailure
<1>10. QED
    BY Steps, <1>1, <1>2, <1>3, <1>4, <1>5, <1>6, <1>7, <1>8, <1>9

\* An agent that is not active any more, or whose engine is about to be told, stays so.
LEMMA DoomedIf ==
    ASSUME Onward, NEW a \in recorded, Doomed(a), a \notin disturbed',
           \A th \in Driver : \A i \in DOMAIN todo[th] : todo[th][i] = <<"engine", a>> =>
               \E j \in DOMAIN todo'[th] : todo'[th][j] = <<"engine", a>>
    PROVE  Doomed(a)'
    BY DEF Doomed, Onward

LEMMA DoomedStays ==
    ASSUME Inv, [Next]_vars, Up', NEW x \in recorded, Doomed(x), x \notin disturbed'
    PROVE  Doomed(x)'
<1>1. Onward /\ Up' /\ x \in Agent /\ Doomed(x) /\ x \notin disturbed'
    BY GoesOn DEF Inv, Typed, TypeOK
<1>2. CASE UNCHANGED todo
    BY <1>1, <1>2, DoomedIf
<1>3. ASSUME \/ UNCHANGED vars
             \/ \E th \in Driver : \E p \in Agent \cup {None} : BeginSpawn(th, p)
             \/ \E th \in Driver : \E a \in Agent : BeginStatus(th, a)
             \/ \E th \in Driver : \E a \in Agent : Pump(th, a)
             \/ \E th \in Driver : \E a \in Agent : \E c \in Call : BeginSupervised(th, a, c)
             \/ \E a \in Agent : \E c \in Call : SendRequest(a, c)
             \/ \E a \in Agent : \E kind \in Posted : Send(a, kind)
             \/ \E th \in Driver : Spawn(th)
             \/ \E th \in Driver : Deliver(th)
             \/ \E th \in Driver : Notify(th)
             \/ \E th \in Driver : CreateWorker(th)
             \/ \E th \in Driver : RecordWorker(th)
             \/ \E th \in Driver : StartWorker(th)
             \/ \E th \in Driver : FailPendingCall(th)
             \/ \E th \in Driver : Admit(th)
             \/ \E th \in Driver : Inspect(th)
             \/ \E th \in Driver : PumpSlice(th)
             \/ \E th \in Driver : EndStatus(th)
             \/ \E th \in Driver : EndCancel(th)
             \/ \E c \in Call : Work(c)
             \/ \E c \in Call : HandleSignal(c)
             \/ \E c \in Call : SendResult(c)
             \/ \E c \in Call : ForceFailure(c)
             \/ \E c \in Call : TellParent(c)
             \/ \E c \in Call : EndWorker(c)
             \/ \E c \in Call : EndWork(c)
      PROVE  UNCHANGED <<todo>>
    BY <1>3 DEF vars, agents, engines, workers, drivers, cancels, BeginSpawn, BeginStatus, Pump,
        BeginSupervised, SendRequest, Send, Spawn, Deliver, Notify, CreateWorker, RecordWorker,
        StartWorker, FailPendingCall, Admit, Inspect, PumpSlice, EndStatus, EndCancel, Work,
        HandleSignal, SendResult, ForceFailure, TellParent, EndWorker, EndWork, Begin, Goto,
        Return, EndPump
<1>4. ASSUME NEW th \in Driver, NEW a \in Agent, BeginCancel(th, a)
      PROVE  Doomed(x)'
    <2>1. todo \in Plans /\ scope \in [Driver -> SUBSET Agent] /\ todo[th] = <<>>
        BY <1>4 DEF BeginCancel, Begin, Inv, Typed, TypeOK, PlansOK
    <2>2. PICK b \in Agent : StartCancel(th, b)
        BY <1>4 DEF BeginCancel, Inv, StagesOK
    <2>3. \A u \in Driver : u # th => todo'[u] = todo[u]
        BY <2>1, <2>2, Started
    <2>4. DOMAIN todo[th] = {}
        BY <2>1
    <2> QED BY <1>1, <2>3, <2>4, DoomedIf
<1>5. ASSUME NEW th \in Driver, Timeout(th)
      PROVE  Doomed(x)'
    <2>1. todo \in Plans /\ scope \in [Driver -> SUBSET Agent] /\ todo[th] = <<>>
        BY <1>5 DEF Timeout, Begin, Inv, Typed, TypeOK, PlansOK
    <2>2. PICK b \in Agent : StartCancel(th, b)
        BY <1>5 DEF Timeout, Inv, StagesOK
    <2>3. \A u \in Driver : u # th => todo'[u] = todo[u]
        BY <2>1, <2>2, Started
    <2>4. DOMAIN todo[th] = {}
        BY <2>1
    <2> QED BY <1>1, <2>3, <2>4, DoomedIf
<1>6. ASSUME NEW th \in Driver, Interrupt(th)
      PROVE  Doomed(x)'
    <2>1. Drivers /\ Rest
        BY Parts DEF Inv
    <2>2. \A u \in Driver : u # th => todo'[u] = todo[u]
        <3>1. CASE StartCancel(th, on[th]) /\ waits[th] # None
            <4>1. PICK a \in Agent : a = on[th]
                BY <1>6, <2>1, <3>1 DEF Interrupt, Inv, StagesOK, Drivers, Stage
            <4> QED BY <2>1, <3>1, <4>1, Started DEF Rest
        <3>2. CASE todo' = [todo EXCEPT ![th] = <<>>]
            BY <2>1, <3>2, Emptied DEF Rest
        <3> QED BY <1>6, <3>1, <3>2 DEF Interrupt
    <2>3. \A i \in DOMAIN todo[th] : todo[th][i] # <<"engine", x>>
        <3> DEFINE cut == {a \in Agent : on[th] = a \/ \E i \in DOMAIN todo[th] : todo[th][i] = <<"engine", a>>}
        <3>1. Disturb(cut)
            BY <1>6 DEF Interrupt
        <3>2. cut \subseteq disturbed'
            <4> HIDE DEF cut
            <4> QED BY <1>1, <3>1 DEF Disturb, Onward, Up
        <3>3. x \in Agent /\ x \notin cut
            BY <1>1, <3>2
        <3> QED BY <3>3
    <2> QED BY <1>1, <2>2, <2>3, DoomedIf
<1>7. ASSUME NEW th \in Driver, NEW a \in Agent, Visit(th, a)
      PROVE  Doomed(x)'
    <2>1. /\ todo[th] # <<>> /\ todo \in Plans /\ recorded \in SUBSET Agent
          /\ Head(todo[th]) = <<"visit", a>>
        BY <1>7 DEF Visit, NextIs, Inv, Typed, TypeOK
    <2>2. PICK steps \in Seq(Item) : Then(th, steps)
        <3>1. CASE Then(th, Below(a)) /\ a \in recorded
            BY <2>1, <3>1, BelowIs
        <3>2. CASE Then(th, <<>>)
            <4>1. <<>> \in Seq(Item)
                OBVIOUS
            <4> QED BY <3>2, <4>1
        <3> QED BY <1>7, <3>1, <3>2 DEF Visit, Below
    <2>3. Replaced(th, steps)
        BY <2>1, <2>2, Replacing
    <2>4. todo[th][1] # <<"engine", x>>
        BY <2>1, <2>3 DEF Replaced
    <2>5. \A i \in DOMAIN todo[th] : i # 1 => \E j \in DOMAIN todo'[th] : todo'[th][j] = todo[th][i]
        BY <2>3 DEF Replaced
    <2>6. \A u \in Driver : u # th => todo'[u] = todo[u]
        BY <2>3 DEF Replaced
    <2>7. ASSUME NEW u \in Driver, NEW i \in DOMAIN todo[u], todo[u][i] = <<"engine", x>>
          PROVE  \E j \in DOMAIN todo'[u] : todo'[u][j] = <<"engine", x>>
        BY <2>4, <2>5, <2>6, <2>7
    <2> QED BY <1>1, <2>7, DoomedIf
<1>8. ASSUME NEW th \in Driver, NEW a \in Agent, SignalWorkers(th, a)
      PROVE  Doomed(x)'
    <2>1. /\ todo[th] # <<>> /\ todo \in Plans /\ Then(th, <<>>) /\ <<>> \in Seq(Item)
          /\ Head(todo[th]) = <<"signal", a>>
        BY <1>8 DEF SignalWorkers, NextIs, Inv, Typed
    <2>2. Replaced(th, <<>>)
        BY <2>1, Replacing
    <2>3. todo[th][1] # <<"engine", x>>
        BY <2>1, <2>2 DEF Replaced
    <2>4. \A i \in DOMAIN todo[th] : i # 1 => \E j \in DOMAIN todo'[th] : todo'[th][j] = todo[th][i]
        BY <2>2 DEF Replaced
    <2>5. \A u \in Driver : u # th => todo'[u] = todo[u]
        BY <2>2 DEF Replaced
    <2> QED BY <1>1, <2>3, <2>4, <2>5, DoomedIf
<1>9. ASSUME NEW th \in Driver, NEW a \in Agent, CancelEngine(th, a)
      PROVE  Doomed(x)'
    <2>1. /\ todo[th] # <<>> /\ todo \in Plans /\ Then(th, <<>>) /\ <<>> \in Seq(Item)
          /\ Head(todo[th]) = <<"engine", a>>
        BY <1>9 DEF CancelEngine, NextIs, Inv, Typed
    <2>2. Replaced(th, <<>>)
        BY <2>1, Replacing
    <2>3. CASE x = a
        <3>1. CASE Disturb({a})
            BY <1>1, <2>3, <3>1 DEF Disturb, Onward, Up
        <3>2. CASE Take(a, Notice("cancel"))
            <4>1. Engines /\ Notice("cancel") \in Letter
                BY TypedGives, Letters DEF Inv
            <4>2. status'[a] # "active"
                BY <3>2, <4>1, Taken DEF Notice, Message
            <4> QED BY <2>3, <4>2 DEF Doomed
        <3> QED BY <1>9, <3>1, <3>2 DEF CancelEngine
    <2>4. CASE x # a
        <3>1. todo[th][1] # <<"engine", x>>
            BY <2>1, <2>2, <2>4 DEF Replaced
        <3>2. \A i \in DOMAIN todo[th] : i # 1 => \E j \in DOMAIN todo'[th] : todo'[th][j] = todo[th][i]
            BY <2>2 DEF Replaced
        <3>3. \A u \in Driver : u # th => todo'[u] = todo[u]
            BY <2>2 DEF Replaced
        <3> QED BY <1>1, <3>1, <3>2, <3>3, DoomedIf
    <2> QED BY <2>3, <2>4
<1>10. ASSUME \/ DestroyWorkers
             \/ DestroyPool
             \/ DestroyAgents
             \/ DestroyRegistry
      PROVE  Doomed(x)'
    BY <1>10, <1>1 DEF DestroyWorkers, DestroyPool, DestroyAgents, DestroyRegistry, Up
<1>11. QED
    BY Steps, <1>2, <1>3, <1>4, <1>5, <1>6, <1>7, <1>8, <1>9, <1>10

-----------------------------------------------------------------------------
(* Calls in flight.                                                        *)

Busy == {"waiting", "running", "sending"}

Carries(th, c) ==
    \/ pc[th] \in {"creating", "recording", "refusing"} /\ at[th] = c
    \/ pc[th] = "delivering" /\ message[th].kind = "result" /\ message[th].call = c

Boxes(a, c) == \E i \in DOMAIN mailbox[a] : mailbox[a][i].kind = "result" /\ mailbox[a][i].call = c

LEMMA Flight ==
    ASSUME NEW c
    PROVE  InFlight(c) <=> worker[c] \in Busy \/ (\E th \in Driver : Carries(th, c)) \/ Boxes(owner[c], c)
    BY DEF InFlight, Busy, Carries, Boxes

LEMMA CarriesHolds ==
    ASSUME NEW th, NEW c, Carries(th, c) PROVE Holds(th, c)
    BY DEF Carries, Holds

\* k is accounted for with its agent x, whom nothing disturbs.
Kept(k, x) ==
    /\ x \in Agent /\ x = owner[k] /\ x = owner'[k]
    /\ x \notin disturbed'
    /\ Up /\ destroyed = {}
    /\ AccountOK(k)
    /\ Doomed(x) => Doomed(x)'

LEMMA KeptIf ==
    ASSUME Inv, [Next]_vars, Up', NEW k \in Call, owner'[k] = owner[k], owner'[k] # None,
           owner'[k] \notin disturbed'
    PROVE  \E x \in recorded : Kept(k, x)
<1>1. Onward /\ destroyed = {}
    BY GoesOn DEF Inv, RegistryOK, Onward
<1>2. PICK x \in recorded : x = owner[k]
    BY <1>1 DEF Inv, RegistryOK, Onward
<1>3. x \in Agent /\ AccountOK(k) /\ x \notin disturbed'
    BY <1>1, <1>2 DEF Inv, Typed, TypeOK, AccountsOK, Onward
<1>4. Doomed(x) => Doomed(x)'
    BY <1>3, DoomedStays
<1>5. QED
    BY <1>1, <1>2, <1>3, <1>4 DEF Kept, Onward

LEMMA AccountStays ==
    ASSUME NEW k \in Call, NEW x, Kept(k, x), InFlight(k)' <=> InFlight(k),
           k \in pending'[x] <=> k \in pending[x],
           worker[k] = "failing" => worker'[k] = "failing",
           k \in signalled' => k \in signalled \/ Doomed(x)'
    PROVE  AccountOK(k)'
<1>1. AccountOK(k) <=> /\ k \in pending[x] => InFlight(k) \/ worker[k] = "failing" \/ Doomed(x)
                       /\ InFlight(k) => k \in pending[x]
                       /\ k \in signalled => Doomed(x)
    BY DEF AccountOK, Kept
<1>2. AccountOK(k)' <=> /\ k \in pending'[x] => InFlight(k)' \/ worker'[k] = "failing" \/ Doomed(x)'
                        /\ InFlight(k)' => k \in pending'[x]
                        /\ k \in signalled' => Doomed(x)'
    BY DEF AccountOK, Kept
<1>3. QED
    BY <1>1, <1>2 DEF Kept

\* Nothing about k changes.
LEMMA Calm ==
    ASSUME NEW k \in Call, NEW x, Kept(k, x),
           worker'[k] \in Busy <=> worker[k] \in Busy,
           worker[k] = "failing" => worker'[k] = "failing",
           \A u \in Driver : Carries(u, k)' <=> Carries(u, k),
           Boxes(x, k)' <=> Boxes(x, k),
           k \in pending'[x] <=> k \in pending[x],
           k \in signalled' => k \in signalled
    PROVE  AccountOK(k)'
<1>1. InFlight(k) <=> worker[k] \in Busy \/ (\E th \in Driver : Carries(th, k)) \/ Boxes(x, k)
    BY Flight DEF Kept
<1>2. InFlight(k)' <=> worker'[k] \in Busy \/ (\E th \in Driver : Carries(th, k)') \/ Boxes(x, k)'
    BY DEF Kept, InFlight, Busy, Carries, Boxes
<1>3. QED
    BY <1>1, <1>2, AccountStays

LEMMA OneCarries ==
    ASSUME NEW th \in Driver, Others(th), NEW k, Carries(th, k)' <=> Carries(th, k)
    PROVE  \A u \in Driver : Carries(u, k)' <=> Carries(u, k)
    BY DEF Others, Carries

LEMMA NoneCarries ==
    ASSUME UNCHANGED drivers, NEW k
    PROVE  \A u \in Driver : Carries(u, k)' <=> Carries(u, k)
    BY DEF drivers, Carries

LEMMA BoxesGrown ==
    ASSUME NEW a, NEW m, Grown(a, m), NEW x \in Agent, NEW k, m.kind # "result" \/ m.call # k
    PROVE  Boxes(x, k)' <=> Boxes(x, k)
    BY DEF Grown, Boxes

\* A letter that goes from the mailbox to a driver stays in flight.
LEMMA TakenStays ==
    ASSUME Inv, NEW k \in Call, NEW x, Kept(k, x), NEW th \in Driver, NEW a \in Agent, Others(th),
           Shrunk(a), UNCHANGED <<worker, signalled, pending>>,
           pc[th] \notin {"creating", "recording", "refusing", "delivering"},
           pc'[th] = "delivering", message'[th] = mailbox[a][1]
    PROVE  AccountOK(k)'
<1> DEFINE m == mailbox[a][1]
<1>1. 1 \in DOMAIN mailbox[a] /\ k # None
    BY NoneAssumption DEF Shrunk
<1>2. ~Carries(th, k) /\ (Carries(th, k)' <=> m.kind = "result" /\ m.call = k)
    BY DEF Carries
<1>3. CASE m.kind = "result" /\ m.call = k
    <2>1. a = x
        <3>1. LetterOK(a, 1, k)
            BY <1>1, <1>3 DEF Inv, MailOK
        <3> QED BY <3>1 DEF LetterOK, Kept
    <2>2. InFlight(k) /\ InFlight(k)'
        <3>1. Boxes(x, k)
            BY <1>1, <1>3, <2>1 DEF Boxes
        <3>2. InFlight(k)
            BY <3>1, Flight DEF Kept
        <3>3. InFlight(k)'
            BY <1>2, <1>3 DEF InFlight, Carries
        <3> QED BY <3>2, <3>3
    <2> QED BY <2>2, AccountStays
<1>4. CASE ~(m.kind = "result" /\ m.call = k)
    <2>1. \A u \in Driver : Carries(u, k)' <=> Carries(u, k)
        BY <1>2, <1>4, OneCarries
    <2>2. Boxes(x, k)' <=> Boxes(x, k)
        <3>1. CASE x # a
            BY <3>1 DEF Shrunk, Boxes, Kept
        <3>2. CASE x = a
            <4>1. ASSUME Boxes(x, k) PROVE Boxes(x, k)'
                <5>1. PICK i \in DOMAIN mailbox[a] : mailbox[a][i].kind = "result" /\ mailbox[a][i].call = k
                    BY <3>2, <4>1 DEF Boxes
                <5>2. i - 1 \in DOMAIN mailbox'[a] /\ mailbox'[a][i - 1] = mailbox[a][i]
                    BY <1>4, <5>1 DEF Shrunk
                <5> QED BY <3>2, <5>1, <5>2 DEF Boxes
            <4>2. ASSUME Boxes(x, k)' PROVE Boxes(x, k)
                <5>1. PICK i \in DOMAIN mailbox'[a] : mailbox'[a][i].kind = "result" /\ mailbox'[a][i].call = k
                    BY <3>2, <4>2 DEF Boxes
                <5>2. i + 1 \in DOMAIN mailbox[a] /\ mailbox'[a][i] = mailbox[a][i + 1]
                    BY <5>1 DEF Shrunk
                <5> QED BY <3>2, <5>1, <5>2 DEF Boxes
            <4> QED BY <4>1, <4>2
        <3> QED BY <3>1, <3>2
    <2> QED BY <2>1, <2>2, Calm
<1>5. QED
    BY <1>3, <1>4

\* The letter, call or result a driver has in hand is nowhere else.
LEMMA InHandOnly ==
    ASSUME Inv, NEW th \in Driver, NEW c \in Call, Holds(th, c), worker[c] \notin Busy
    PROVE  /\ \A u \in Driver : u # th => ~Carries(u, c)
           /\ \A a \in Agent : ~Boxes(a, c)
           /\ InFlight(c) <=> Carries(th, c)
<1>1. \A u \in Driver : u # th => ~Carries(u, c)
    BY CarriesHolds DEF Inv, HandsOK
<1>2. \A a \in Agent : ~Boxes(a, c)
    BY DEF Inv, MailOK, LetterOK, Boxes
<1>3. owner[c] \in Agent
    <2>1. owner[c] = on[th] /\ pc[th] \notin {"idle", "spawning"}
        BY NoneAssumption DEF Inv, HandsOK, HolderOK, Holds, AtCall
    <2> QED BY <2>1 DEF Inv, StagesOK
<1>4. InFlight(c) <=> worker[c] \in Busy \/ (\E u \in Driver : Carries(u, c)) \/ Boxes(owner[c], c)
    BY Flight
<1>5. QED
    BY <1>1, <1>2, <1>3, <1>4

\* A call that was just made is in nobody's account.
LEMMA FreshAccount ==
    ASSUME Inv, NEW c \in Call, owner[c] = None, NEW a \in Agent, owner'[c] = a,
           UNCHANGED <<signalled, pending, worker>>,
           \A u \in Driver : Carries(u, c)' <=> Carries(u, c),
           UNCHANGED mailbox \/ \A b \in Agent : Boxes(b, c)' <=> Boxes(b, c)
    PROVE  AccountOK(c)'
<1>1. worker[c] = "none" /\ (\A u \in Driver : ~Carries(u, c)) /\ \A b \in Agent : ~Boxes(b, c)
    BY Unheld, CarriesHolds DEF Boxes
<1>2. c \notin pending[a] /\ c \notin signalled
    BY <1>1, NoneAssumption DEF Inv, EnginesOK, WorkersOK, Live
<1>3. ~Boxes(a, c)'
    BY <1>1 DEF Boxes
<1>4. ~InFlight(c)'
    BY <1>1, <1>3 DEF InFlight, Busy, Carries, Boxes
<1>5. QED
    BY <1>2, <1>4 DEF AccountOK

LEMMA AccountsKept ==
    ASSUME Inv, [Next]_vars
    PROVE  AccountsOK'
<1> SUFFICES ASSUME Up', NEW k \in Call, owner'[k] # None, owner'[k] \notin disturbed'
             PROVE  AccountOK(k)'
    BY DEF AccountsOK
<1>1. Inv /\ Up' /\ [Next]_vars /\ owner'[k] # None /\ owner'[k] \notin disturbed'
    OBVIOUS
<1>2. CASE UNCHANGED vars
    <2>1. PICK x \in recorded : Kept(k, x)
        BY <1>1, <1>2, KeptIf DEF vars
    <2> QED BY <1>2, <2>1, AccountStays DEF vars, workers, engines, drivers, InFlight
<1>3. ASSUME NEW th \in Driver, NEW p \in Agent \cup {None}, BeginSpawn(th, p)
      PROVE  AccountOK(k)'
    <2>1. PICK x \in recorded : Kept(k, x)
        BY <1>3, <1>1, KeptIf DEF BeginSpawn
    <2>2. /\ Others(th) /\ UNCHANGED <<worker, signalled, mailbox, pending>>
          /\ pc[th] \notin {"creating", "recording", "refusing", "delivering"}
          /\ pc'[th] \notin {"creating", "recording", "refusing", "delivering"}
        BY <1>3, <1>1, OneMoves DEF BeginSpawn, Goto, Inv, Typed, workers, engines
    <2>3. \A u \in Driver : Carries(u, k)' <=> Carries(u, k)
        BY <2>2, OneCarries DEF Carries
    <2>4. Boxes(x, k)' <=> Boxes(x, k)
        BY <2>2 DEF Boxes
    <2> QED BY <2>1, <2>2, <2>3, <2>4, Calm
<1>4. ASSUME NEW th \in Driver, NEW a \in Agent, BeginStatus(th, a)
      PROVE  AccountOK(k)'
    <2>1. PICK x \in recorded : Kept(k, x)
        BY <1>4, <1>1, KeptIf DEF BeginStatus
    <2>2. /\ Others(th) /\ UNCHANGED <<worker, signalled, mailbox, pending>>
          /\ pc[th] \notin {"creating", "recording", "refusing", "delivering"}
          /\ pc'[th] \notin {"creating", "recording", "refusing", "delivering"}
        BY <1>4, <1>1, OneMoves DEF BeginStatus, Begin, Goto, Inv, Typed, workers, engines
    <2>3. \A u \in Driver : Carries(u, k)' <=> Carries(u, k)
        BY <2>2, OneCarries DEF Carries
    <2>4. Boxes(x, k)' <=> Boxes(x, k)
        BY <2>2 DEF Boxes
    <2> QED BY <2>1, <2>2, <2>3, <2>4, Calm
<1>5. ASSUME NEW th \in Driver, NEW a \in Agent, BeginCancel(th, a)
      PROVE  AccountOK(k)'
    <2>1. PICK x \in recorded : Kept(k, x)
        BY <1>5, <1>1, KeptIf DEF BeginCancel
    <2>2. /\ Others(th) /\ UNCHANGED <<worker, signalled, mailbox, pending>>
          /\ pc[th] \notin {"creating", "recording", "refusing", "delivering"}
          /\ pc'[th] \notin {"creating", "recording", "refusing", "delivering"}
        BY <1>5, <1>1, OneMoves DEF BeginCancel, Begin, Goto, Inv, Typed, workers, engines
    <2>3. \A u \in Driver : Carries(u, k)' <=> Carries(u, k)
        BY <2>2, OneCarries DEF Carries
    <2>4. Boxes(x, k)' <=> Boxes(x, k)
        BY <2>2 DEF Boxes
    <2> QED BY <2>1, <2>2, <2>3, <2>4, Calm
<1>6. ASSUME NEW th \in Driver, Timeout(th)
      PROVE  AccountOK(k)'
    <2>1. PICK x \in recorded : Kept(k, x)
        BY <1>6, <1>1, KeptIf DEF Timeout
    <2>2. /\ Others(th) /\ UNCHANGED <<worker, signalled, mailbox, pending>>
          /\ pc[th] \notin {"creating", "recording", "refusing", "delivering"}
          /\ pc'[th] \notin {"creating", "recording", "refusing", "delivering"}
        BY <1>6, <1>1, OneMoves DEF Timeout, Goto, Inv, Typed, workers, engines
    <2>3. \A u \in Driver : Carries(u, k)' <=> Carries(u, k)
        BY <2>2, OneCarries DEF Carries
    <2>4. Boxes(x, k)' <=> Boxes(x, k)
        BY <2>2 DEF Boxes
    <2> QED BY <2>1, <2>2, <2>3, <2>4, Calm
<1>7. ASSUME NEW th \in Driver, Inspect(th)
      PROVE  AccountOK(k)'
    <2>1. PICK x \in recorded : Kept(k, x)
        BY <1>7, <1>1, KeptIf DEF Inspect
    <2>2. /\ Others(th) /\ UNCHANGED <<worker, signalled, mailbox, pending>>
          /\ pc[th] \notin {"creating", "recording", "refusing", "delivering"}
          /\ pc'[th] \notin {"creating", "recording", "refusing", "delivering"}
        BY <1>7, <1>1, OneMoves DEF Inspect, Return, Goto, Inv, Typed, workers, engines
    <2>3. \A u \in Driver : Carries(u, k)' <=> Carries(u, k)
        BY <2>2, OneCarries DEF Carries
    <2>4. Boxes(x, k)' <=> Boxes(x, k)
        BY <2>2 DEF Boxes
    <2> QED BY <2>1, <2>2, <2>3, <2>4, Calm
<1>8. ASSUME NEW th \in Driver, EndStatus(th)
      PROVE  AccountOK(k)'
    <2>1. PICK x \in recorded : Kept(k, x)
        BY <1>8, <1>1, KeptIf DEF EndStatus
    <2>2. /\ Others(th) /\ UNCHANGED <<worker, signalled, mailbox, pending>>
          /\ pc[th] \notin {"creating", "recording", "refusing", "delivering"}
          /\ pc'[th] \notin {"creating", "recording", "refusing", "delivering"}
        BY <1>8, <1>1, OneMoves DEF EndStatus, Return, Goto, Inv, Typed, workers, engines
    <2>3. \A u \in Driver : Carries(u, k)' <=> Carries(u, k)
        BY <2>2, OneCarries DEF Carries
    <2>4. Boxes(x, k)' <=> Boxes(x, k)
        BY <2>2 DEF Boxes
    <2> QED BY <2>1, <2>2, <2>3, <2>4, Calm
<1>9. ASSUME NEW th \in Driver, EndCancel(th)
      PROVE  AccountOK(k)'
    <2>1. PICK x \in recorded : Kept(k, x)
        BY <1>9, <1>1, KeptIf DEF EndCancel
    <2>2. /\ Others(th) /\ UNCHANGED <<worker, signalled, mailbox, pending>>
          /\ pc[th] \notin {"creating", "recording", "refusing", "delivering"}
          /\ pc'[th] \notin {"creating", "recording", "refusing", "delivering"}
        BY <1>9, <1>1, OneMoves DEF EndCancel, Return, Goto, Inv, Typed, workers, engines
    <2>3. \A u \in Driver : Carries(u, k)' <=> Carries(u, k)
        BY <2>2, OneCarries DEF Carries
    <2>4. Boxes(x, k)' <=> Boxes(x, k)
        BY <2>2 DEF Boxes
    <2> QED BY <2>1, <2>2, <2>3, <2>4, Calm
<1>10. ASSUME NEW th \in Driver, Interrupt(th)
      PROVE  AccountOK(k)'
    <2>1. PICK x \in recorded : Kept(k, x)
        BY <1>10, <1>1, KeptIf DEF Interrupt
    <2>2. /\ Others(th) /\ UNCHANGED <<worker, signalled, mailbox, pending>>
          /\ pc'[th] \notin {"creating", "recording", "refusing", "delivering"}
        BY <1>10, <1>1, OneMoves DEF Interrupt, Return, Goto, Inv, Typed, workers, engines
    <2>3. on[th] # x
        <3> DEFINE cut == {a \in Agent : on[th] = a \/ \E i \in DOMAIN todo[th] : todo[th][i] = <<"engine", a>>}
        <3>1. Disturb(cut)
            BY <1>10 DEF Interrupt
        <3>2. x \in Agent /\ x \notin cut
            <4> HIDE DEF cut
            <4> QED BY <2>1, <3>1 DEF Disturb, Kept, Up
        <3> QED BY <3>2
    <2>4. ~Carries(th, k) /\ ~Carries(th, k)'
        <3>1. Carries(th, k) => owner[k] = on[th]
            BY <1>1, NoneAssumption DEF Carries, Inv, HandsOK, HolderOK, AtCall
        <3> QED BY <2>1, <2>2, <2>3, <3>1 DEF Carries, Kept
    <2>5. \A u \in Driver : Carries(u, k)' <=> Carries(u, k)
        BY <2>2, <2>4, OneCarries
    <2>6. Boxes(x, k)' <=> Boxes(x, k)
        BY <2>2 DEF Boxes
    <2> QED BY <2>1, <2>2, <2>5, <2>6, Calm
<1>11. ASSUME NEW th \in Driver, Notify(th)
      PROVE  AccountOK(k)'
    <2>1. PICK x \in recorded : Kept(k, x)
        BY <1>11, <1>1, KeptIf DEF Notify
    <2>2. /\ Others(th) /\ UNCHANGED <<worker, signalled, pending>> /\ Boxed /\ Drivers
          /\ pc[th] = "notifying" /\ NotifyParent(on[th])
        BY <1>11, <1>1, OneMoves, TypedGives, Parts DEF Notify, Inv, workers, engines
    <2>3. Notice("note").kind # "result" /\ Notice("note") \in Letter
        BY Letters DEF Notice, Message
    <2>4. Boxes(x, k)' <=> Boxes(x, k)
        BY <2>1, <2>2, <2>3, Told, BoxesGrown DEF Kept
    <2>5. pc'[th] \in {"idle", "looping"}
        <3>1. CASE Return(th)
            BY <2>2, <3>1, Returned
        <3>2. CASE EndPump(th)
            BY <2>2, <3>2, PumpEnded
        <3> QED BY <1>11, <3>1, <3>2 DEF Notify
    <2>6. \A u \in Driver : Carries(u, k)' <=> Carries(u, k)
        BY <2>2, <2>5, OneCarries DEF Carries
    <2> QED BY <2>1, <2>2, <2>4, <2>6, Calm
<1>12. ASSUME NEW th \in Driver, Spawn(th)
      PROVE  AccountOK(k)'
    <2>1. PICK x \in recorded : Kept(k, x)
        BY <1>12, <1>1, KeptIf DEF Spawn
    <2>2. /\ Others(th) /\ UNCHANGED <<worker, signalled, pending>> /\ Boxed
          /\ pc[th] = "spawning" /\ pc'[th] = "idle"
        BY <1>12, <1>1, OneMoves, TypedGives DEF Spawn, Return, Goto, Inv, Typed, workers
    <2>3. Notice("note").kind # "result" /\ Notice("note") \in Letter
        BY Letters DEF Notice, Message
    <2>4. Boxes(x, k)' <=> Boxes(x, k)
        <3>1. CASE UNCHANGED mailbox
            BY <3>1 DEF Boxes
        <3>2. CASE SendTo(on[th], Notice("note"))
            <4>1. Grown(on[th], Notice("note"))
                BY <2>2, <2>3, <3>2, Sent
            <4> QED BY <2>1, <2>3, <4>1, BoxesGrown DEF Kept
        <3> QED BY <1>12, <3>1, <3>2 DEF Spawn
    <2>5. \A u \in Driver : Carries(u, k)' <=> Carries(u, k)
        BY <2>2, OneCarries DEF Carries
    <2> QED BY <2>1, <2>2, <2>4, <2>5, Calm
<1>13. ASSUME NEW th \in Driver, StartWorker(th)
      PROVE  AccountOK(k)'
    <2>1. PICK x \in recorded : Kept(k, x)
        BY <1>13, <1>1, KeptIf DEF StartWorker
    <2>2. /\ Others(th) /\ UNCHANGED <<worker, signalled, pending, mailbox>> /\ Drivers
          /\ pc[th] = "starting"
        BY <1>13, <1>1, OneMoves, Parts DEF StartWorker, Inv, engines
    <2>3. pc'[th] \in {"idle", "looping"}
        <3>1. CASE Return(th)
            BY <2>2, <3>1, Returned
        <3>2. CASE EndPump(th)
            BY <2>2, <3>2, PumpEnded
        <3> QED BY <1>13, <3>1, <3>2 DEF StartWorker
    <2>4. \A u \in Driver : Carries(u, k)' <=> Carries(u, k)
        BY <2>2, <2>3, OneCarries DEF Carries
    <2>5. Boxes(x, k)' <=> Boxes(x, k)
        BY <2>2 DEF Boxes
    <2> QED BY <2>1, <2>2, <2>4, <2>5, Calm
<1>14. ASSUME NEW th \in Driver, NEW a \in Agent, Pump(th, a)
      PROVE  AccountOK(k)'
    <2>1. PICK x \in recorded : Kept(k, x)
        BY <1>14, <1>1, KeptIf DEF Pump
    <2>2. /\ Others(th) /\ UNCHANGED <<worker, signalled, pending>> /\ Drivers /\ Boxed
        BY <1>14, <1>1, OneMoves, Parts, TypedGives DEF Pump, Inv, workers, engines
    <2>3. Shrunk(a) /\ message'[th] = mailbox[a][1]
        BY <1>14, <2>2, Received DEF Drivers, Pump
    <2>4. pc[th] = "idle" /\ pc'[th] = "delivering"
        BY <1>14, <2>2 DEF Pump, Begin, Goto, Drivers
    <2> QED BY <1>1, <2>1, <2>2, <2>3, <2>4, TakenStays
<1>15. ASSUME NEW th \in Driver, PumpSlice(th)
      PROVE  AccountOK(k)'
    <2>1. PICK x \in recorded : Kept(k, x)
        BY <1>15, <1>1, KeptIf DEF PumpSlice
    <2>2. /\ Others(th) /\ UNCHANGED <<worker, signalled, pending>> /\ Drivers /\ Boxed
          /\ pc[th] = "pumping"
        BY <1>15, <1>1, OneMoves, Parts, TypedGives DEF PumpSlice, Inv, workers, engines
    <2>3. PICK a \in Agent : a = on[th]
        BY <1>15, <1>1 DEF PumpSlice, Inv, StagesOK
    <2>4. CASE Receive(th, a) /\ Goto(th, "delivering")
        <3>1. Shrunk(a) /\ message'[th] = mailbox[a][1] /\ pc'[th] = "delivering"
            BY <2>2, <2>4, Received DEF Drivers, Goto
        <3> QED BY <1>1, <2>1, <2>2, <3>1, TakenStays
    <2>5. CASE (EndPump(th) \/ Return(th)) /\ UNCHANGED mailbox
        <3>1. pc'[th] \in {"idle", "looping"}
            BY <2>2, <2>5, Returned, PumpEnded
        <3>2. \A u \in Driver : Carries(u, k)' <=> Carries(u, k)
            BY <2>2, <3>1, OneCarries DEF Carries
        <3>3. Boxes(x, k)' <=> Boxes(x, k)
            BY <2>5 DEF Boxes
        <3> QED BY <2>1, <2>2, <3>2, <3>3, Calm
    <2> QED BY <1>15, <2>3, <2>4, <2>5 DEF PumpSlice
<1>16. ASSUME NEW th \in Driver, Deliver(th)
      PROVE  AccountOK(k)'
    <2>1. PICK x \in recorded : Kept(k, x)
        BY <1>16, <1>1, KeptIf DEF Deliver
    <2>2. /\ Others(th) /\ UNCHANGED <<worker, signalled, mailbox, owner>> /\ Drivers /\ Engines
          /\ pc[th] = "delivering" /\ HolderOK(th) /\ disturbed \in SUBSET Agent /\ Up
        BY <1>16, <1>1, <2>1, OneMoves, Parts, TypedGives DEF Deliver, Inv, Typed, TypeOK,
           HandsOK, workers, Kept
    <2>3. PICK a \in Agent, m \in Letter : a = on[th] /\ m = message[th]
        BY <1>1, <2>2 DEF Inv, StagesOK
    <2>4. Boxes(x, k)' <=> Boxes(x, k)
        BY <2>2 DEF Boxes
    <2>5. m.call = k => owner[k] = a /\ InTime(m) /\ Holds(th, k)
        BY <2>2, <2>3, NoneAssumption DEF HolderOK, Holds
    <2>6. Carries(th, k) <=> m.kind = "result" /\ m.call = k
        BY <2>2, <2>3 DEF Carries
    <2>7. CASE Disturb({a}) /\ UNCHANGED engines /\ pc'[th] = "idle"
        <3>1. a # x
            BY <2>1, <2>2, <2>7, Disturbs DEF Kept
        <3>2. ~Carries(th, k) /\ ~Carries(th, k)'
            BY <2>1, <2>5, <2>6, <2>7, <3>1 DEF Kept, Carries
        <3>3. \A u \in Driver : Carries(u, k)' <=> Carries(u, k)
            BY <2>2, <3>2, OneCarries
        <3> QED BY <2>1, <2>2, <2>4, <2>7, <3>3, Calm DEF engines
    <2>8. CASE /\ Take(a, m) /\ pc'[th] = "creating" /\ at'[th] = m.call
               /\ m.kind = "request" /\ m.call \in Call /\ status[a] = "active"
        <3>1. /\ pending'[a] = pending[a] \cup {m.call}
              /\ \A b \in Agent : b # a => pending'[b] = pending[b]
            BY <2>2, <2>8, Taken
        <3>2. CASE k = m.call
            <4>1. x = a /\ worker[k] = "none"
                BY <2>1, <2>5, <2>8, <3>2 DEF Kept, InTime
            <4>2. InFlight(k)' /\ k \in pending'[x] /\ k \notin signalled'
                BY <1>1, <2>2, <2>8, <3>1, <3>2, <4>1 DEF InFlight, Inv, WorkersOK, Live
            <4> QED BY <2>1, <4>2 DEF AccountOK, Kept
        <3>3. CASE k # m.call
            <4>1. ~Carries(th, k) /\ ~Carries(th, k)'
                BY <2>6, <2>8, <3>3 DEF Carries
            <4>2. \A u \in Driver : Carries(u, k)' <=> Carries(u, k)
                BY <2>2, <4>1, OneCarries
            <4>3. k \in pending'[x] <=> k \in pending[x]
                BY <2>1, <3>1, <3>3 DEF Kept
            <4> QED BY <2>1, <2>2, <2>4, <4>2, <4>3, Calm
        <3> QED BY <3>2, <3>3
    <2>9. CASE /\ Take(a, m) /\ Reply(a, m) # "dispatch"
               /\ pc'[th] \in {"notifying", "idle", "looping"}
        <3>1. /\ m.kind = "request" => pending'[a] = pending[a]
              /\ m.kind = "result" => pending'[a] = pending[a] \ {m.call}
              /\ m.kind \notin {"request", "result"} => pending'[a] = pending[a]
              /\ \A b \in Agent : b # a => pending'[b] = pending[b]
            <4>1. /\ pending'[a] = IF m.kind = "request" /\ status[a] = "active" THEN pending[a] \cup {m.call}
                                   ELSE IF m.kind = "result" THEN pending[a] \ {m.call} ELSE pending[a]
                  /\ \A b \in Agent : b # a => pending'[b] = pending[b]
                  /\ ~(m.kind = "request" /\ status[a] = "active" /\ m.call \notin pending[a])
                BY <2>2, <2>9, Taken
            <4> QED BY <4>1
        <3>2. ~Carries(th, k)'
            BY <2>9 DEF Carries
        <3>3. CASE m.kind = "result" /\ m.call = k
            <4>1. x = a /\ worker[k] \in {"leaving", "over"} /\ Holds(th, k)
                BY <2>1, <2>5, <3>3 DEF Kept, InTime
            <4>2. worker[k] \notin Busy
                BY <4>1 DEF Busy
            <4>3. \A u \in Driver : u # th => ~Carries(u, k)
                BY <1>1, <4>1, <4>2, InHandOnly
            <4>4. \A u \in Driver : ~Carries(u, k)'
                BY <2>2, <3>2, <4>3 DEF Others, Carries
            <4>5. ~Boxes(x, k)'
                BY <1>1, <2>1, <2>4, <4>1, <4>2, InHandOnly DEF Kept
            <4>6. ~InFlight(k)'
                BY <2>1, <2>2, <4>2, <4>4, <4>5 DEF InFlight, Kept, Busy, Carries, Boxes
            <4>7. k \notin pending'[x]
                BY <3>1, <3>3, <4>1
            <4> QED BY <2>1, <2>2, <4>6, <4>7 DEF AccountOK, Kept
        <3>4. CASE ~(m.kind = "result" /\ m.call = k)
            <4>1. \A u \in Driver : Carries(u, k)' <=> Carries(u, k)
                BY <2>2, <2>6, <3>2, <3>4, OneCarries
            <4>2. k \in pending'[x] <=> k \in pending[x]
                BY <2>1, <3>1, <3>4 DEF Kept
            <4> QED BY <2>1, <2>2, <2>4, <4>1, <4>2, Calm
        <3> QED BY <3>3, <3>4
    <2> QED BY <1>16, <2>2, <2>3, <2>7, <2>8, <2>9, Delivered
<1>17. ASSUME NEW th \in Driver, FailPendingCall(th)
      PROVE  AccountOK(k)'
    <2>1. PICK x \in recorded : Kept(k, x)
        BY <1>17, <1>1, KeptIf DEF FailPendingCall
    <2>2. /\ Others(th) /\ UNCHANGED <<worker, signalled, mailbox, owner>> /\ Drivers /\ Engines
          /\ pc[th] = "refusing" /\ HolderOK(th) /\ disturbed \in SUBSET Agent /\ Up
        BY <1>17, <1>1, <2>1, OneMoves, Parts, TypedGives DEF FailPendingCall, Inv, Typed,
           TypeOK, HandsOK, workers, Kept
    <2>3. PICK a \in Agent, c \in Call : a = on[th] /\ c = at[th]
        BY <1>1, <2>2 DEF Inv, StagesOK, AtCall
    <2>4. Boxes(x, k)' <=> Boxes(x, k)
        BY <2>2 DEF Boxes
    <2>5. /\ owner[c] = a /\ worker[c] \in {"none", "orphan"}
          /\ Holds(th, c) /\ (Carries(th, k) <=> k = c)
        BY <2>2, <2>3 DEF HolderOK, Holds, Carries, AtCall
    <2>6. CASE Disturb({a}) /\ UNCHANGED engines /\ Return(th)
        <3>1. a # x /\ pc'[th] = "idle"
            BY <2>1, <2>2, <2>6, Disturbs, Returned DEF Kept
        <3>2. ~Carries(th, k) /\ ~Carries(th, k)'
            BY <2>1, <2>5, <3>1 DEF Kept, Carries
        <3>3. \A u \in Driver : Carries(u, k)' <=> Carries(u, k)
            BY <2>2, <3>2, OneCarries
        <3> QED BY <2>1, <2>2, <2>4, <2>6, <3>3, Calm DEF engines
    <2>7. CASE Take(a, Result(c, "error")) /\ Goto(th, "notifying")
        <3>1. /\ pending'[a] = pending[a] \ {c}
              /\ \A b \in Agent : b # a => pending'[b] = pending[b]
            <4>1. /\ Result(c, "error") \in Letter /\ Result(c, "error").kind = "result"
                  /\ Result(c, "error").call = c
                BY Letters DEF Result, Message
            <4> QED BY <2>2, <2>7, <4>1, Taken
        <3>2. ~Carries(th, k)'
            BY <2>2, <2>7 DEF Carries, Goto, Drivers
        <3>3. CASE k = c
            <4>1. x = a /\ worker[k] \notin Busy /\ k \notin signalled
                BY <1>1, <2>1, <2>5, <3>3 DEF Kept, Busy, Inv, WorkersOK, Live
            <4>2. \A u \in Driver : u # th => ~Carries(u, k)
                BY <1>1, <2>5, <3>3, <4>1, InHandOnly
            <4>3. \A u \in Driver : ~Carries(u, k)'
                BY <2>2, <3>2, <4>2 DEF Others, Carries
            <4>4. ~Boxes(x, k)'
                BY <1>1, <2>1, <2>4, <2>5, <3>3, <4>1, InHandOnly DEF Kept
            <4>5. ~InFlight(k)'
                BY <2>1, <2>2, <4>1, <4>3, <4>4 DEF InFlight, Kept, Busy, Carries, Boxes
            <4> QED BY <2>1, <2>2, <3>1, <3>3, <4>1, <4>5 DEF AccountOK, Kept
        <3>4. CASE k # c
            <4>1. \A u \in Driver : Carries(u, k)' <=> Carries(u, k)
                BY <2>2, <2>5, <3>2, <3>4, OneCarries
            <4>2. k \in pending'[x] <=> k \in pending[x]
                BY <2>1, <3>1, <3>4 DEF Kept
            <4> QED BY <2>1, <2>2, <2>4, <4>1, <4>2, Calm
        <3> QED BY <3>3, <3>4
    <2> QED BY <1>17, <2>3, <2>6, <2>7 DEF FailPendingCall
<1>18. ASSUME NEW th \in Driver, Admit(th)
      PROVE  AccountOK(k)'
    <2>1. PICK x \in recorded : Kept(k, x)
        BY <1>18, <1>1, KeptIf DEF Admit
    <2>2. /\ Others(th) /\ UNCHANGED <<worker, signalled, mailbox, owner>> /\ Drivers /\ Engines
          /\ pc[th] = "admitting" /\ HolderOK(th)
        BY <1>18, <1>1, OneMoves, Parts, TypedGives DEF Admit, Inv, HandsOK, workers
    <2>3. PICK a \in Agent, c \in Call : a = on[th] /\ c = at[th]
        BY <1>1, <2>2 DEF Inv, StagesOK, AtCall
    <2>4. Boxes(x, k)' <=> Boxes(x, k)
        BY <2>2 DEF Boxes
    <2>5. owner[c] = a /\ worker[c] = "none" /\ ~Carries(th, k)
        BY <2>2, <2>3 DEF HolderOK, Carries, AtCall
    <2>6. CASE Return(th) /\ (k \in pending'[x] <=> k \in pending[x])
        <3>1. ~Carries(th, k)'
            BY <2>2, <2>6, Returned DEF Carries
        <3>2. \A u \in Driver : Carries(u, k)' <=> Carries(u, k)
            BY <2>2, <2>5, <3>1, OneCarries
        <3> QED BY <2>1, <2>2, <2>4, <2>6, <3>2, Calm
    <2>7. ASSUME Take(a, Request(c))
          PROVE  /\ pending'[a] = IF status[a] = "active" THEN pending[a] \cup {c} ELSE pending[a]
                 /\ \A b \in Agent : b # a => pending'[b] = pending[b]
                 /\ Reply(a, Request(c)) = "dispatch" <=> status[a] = "active" /\ c \notin pending[a]
        <3>1. /\ Request(c) \in Letter /\ Request(c).kind = "request" /\ Request(c).call = c
            BY Letters DEF Request, Message
        <3> QED BY <2>2, <2>7, <3>1, Taken
    <2>8. CASE Return(th) /\ UNCHANGED engines
        BY <2>6, <2>8 DEF engines
    <2>9. CASE Take(a, Request(c)) /\ Return(th) /\ Reply(a, Request(c)) # "dispatch"
        <3>1. pending'[a] = pending[a]
            BY <2>7, <2>9
        <3> QED BY <2>1, <2>6, <2>7, <2>9, <3>1 DEF Kept
    <2>10. CASE /\ Take(a, Request(c)) /\ Reply(a, Request(c)) = "dispatch"
                /\ Goto(th, "creating") /\ UNCHANGED <<on, at, message, waits>>
        <3>1. pc'[th] = "creating" /\ at'[th] = c
            BY <2>2, <2>3, <2>10 DEF Goto, Drivers
        <3>2. CASE k = c
            <4>1. x = a /\ k \in pending'[x] /\ k \notin signalled'
                BY <1>1, <2>1, <2>2, <2>5, <2>7, <2>10, <3>2 DEF Kept, Inv, WorkersOK, Live
            <4>2. InFlight(k)'
                BY <3>1, <3>2 DEF InFlight
            <4> QED BY <2>1, <4>1, <4>2 DEF AccountOK, Kept
        <3>3. CASE k # c
            <4>1. ~Carries(th, k)'
                BY <3>1, <3>3 DEF Carries
            <4>2. \A u \in Driver : Carries(u, k)' <=> Carries(u, k)
                BY <2>2, <2>5, <4>1, OneCarries
            <4>3. k \in pending'[x] <=> k \in pending[x]
                BY <2>1, <2>7, <2>10, <3>3 DEF Kept
            <4> QED BY <2>1, <2>2, <2>4, <4>2, <4>3, Calm
        <3> QED BY <3>2, <3>3
    <2> QED BY <1>18, <2>3, <2>8, <2>9, <2>10 DEF Admit
<1>19. ASSUME NEW th \in Driver, CreateWorker(th)
      PROVE  AccountOK(k)'
    <2>1. PICK x \in recorded : Kept(k, x)
        BY <1>19, <1>1, KeptIf DEF CreateWorker
    <2>2. /\ Others(th) /\ UNCHANGED <<signalled, mailbox, owner, pending, at>> /\ Drivers
          /\ pc[th] = "creating" /\ HolderOK(th) /\ pc'[th] \in {"recording", "refusing"}
          /\ \/ UNCHANGED worker
             \/ \E s \in {"waiting", "orphan"} : worker' = [worker EXCEPT ![at[th]] = s]
        BY <1>19, <1>1, OneMoves, Parts DEF CreateWorker, Inv, Typed, HandsOK, engines, Goto
    <2>3. PICK c \in Call : c = at[th]
        BY <1>1, <2>2 DEF Inv, StagesOK, AtCall
    <2>4. Boxes(x, k)' <=> Boxes(x, k)
        BY <2>2 DEF Boxes
    <2>5. worker[c] = "none" /\ (Carries(th, k) <=> k = c) /\ (Carries(th, k)' <=> k = c)
        BY <2>2, <2>3 DEF HolderOK, Carries, AtCall
    <2>6. \A u \in Driver : Carries(u, k)' <=> Carries(u, k)
        BY <2>2, <2>5, OneCarries
    <2>7. CASE k = c
        <3>1. InFlight(k) /\ InFlight(k)'
            BY <2>2, <2>3, <2>7 DEF InFlight
        <3> QED BY <2>1, <2>2, <2>5, <2>7, <3>1, AccountStays
    <2>8. CASE k # c
        <3>1. worker'[k] = worker[k]
            BY <1>1, <2>2, <2>3, <2>8 DEF Inv, Typed, TypeOK
        <3> QED BY <2>1, <2>2, <2>4, <2>6, <3>1, Calm
    <2> QED BY <2>7, <2>8
<1>20. ASSUME NEW th \in Driver, RecordWorker(th)
      PROVE  AccountOK(k)'
    <2>1. PICK x \in recorded : Kept(k, x)
        BY <1>20, <1>1, KeptIf DEF RecordWorker
    <2>2. /\ Others(th) /\ UNCHANGED <<signalled, mailbox, owner, pending, at, worker>>
          /\ pc[th] = "recording" /\ HolderOK(th) /\ pc'[th] = "starting"
        BY <1>20, <1>1, OneMoves DEF RecordWorker, Inv, Typed, HandsOK, engines, Goto
    <2>3. PICK c \in Call : c = at[th]
        BY <1>1, <2>2 DEF Inv, StagesOK, AtCall
    <2>4. Boxes(x, k)' <=> Boxes(x, k)
        BY <2>2 DEF Boxes
    <2>5. worker[c] = "waiting" /\ (Carries(th, k) <=> k = c) /\ ~Carries(th, k)'
        BY <2>2, <2>3 DEF HolderOK, Carries, AtCall
    <2>6. CASE k = c
        <3>1. InFlight(k) /\ InFlight(k)'
            BY <2>2, <2>5, <2>6 DEF InFlight
        <3> QED BY <2>1, <2>2, <2>6, <3>1, AccountStays
    <2>7. CASE k # c
        <3>1. \A u \in Driver : Carries(u, k)' <=> Carries(u, k)
            BY <2>2, <2>5, <2>7, OneCarries
        <3> QED BY <2>1, <2>2, <2>4, <3>1, Calm
    <2> QED BY <2>6, <2>7
<1>21. ASSUME NEW th \in Driver, NEW a \in Agent, NEW c \in Call, BeginSupervised(th, a, c)
      PROVE  AccountOK(k)'
    <2>1. /\ Others(th) /\ UNCHANGED <<signalled, mailbox, pending, worker>> /\ owner[c] = None
          /\ pc[th] = "idle" /\ pc'[th] = "admitting"
        BY <1>21, <1>1, OneMoves DEF BeginSupervised, Begin, Goto, Fresh, Inv, Typed, workers,
           engines
    <2>2. owner'[c] = a /\ \A d \in Call : d # c => owner'[d] = owner[d]
        BY <1>21, <1>1 DEF BeginSupervised, Assign, Inv, Typed, TypeOK
    <2>3. ~Carries(th, k) /\ ~Carries(th, k)'
        BY <2>1 DEF Carries
    <2>4. \A u \in Driver : Carries(u, k)' <=> Carries(u, k)
        BY <2>1, <2>3, OneCarries
    <2>5. CASE k = c
        BY <1>1, <2>1, <2>2, <2>4, <2>5, FreshAccount
    <2>6. CASE k # c
        <3>1. PICK x \in recorded : Kept(k, x)
            BY <1>1, <2>2, <2>6, KeptIf
        <3> QED BY <2>1, <2>4, <3>1, Calm DEF Boxes
    <2> QED BY <2>5, <2>6
<1>22. ASSUME NEW a \in Agent, NEW c \in Call, SendRequest(a, c)
      PROVE  AccountOK(k)'
    <2>1. /\ UNCHANGED <<signalled, pending, worker, drivers>> /\ owner[c] = None /\ Boxed
        BY <1>22, <1>1, TypedGives DEF SendRequest, Fresh, Inv, workers, engines
    <2>2. owner'[c] = a /\ \A d \in Call : d # c => owner'[d] = owner[d]
        BY <1>22, <1>1 DEF SendRequest, Assign, Inv, Typed, TypeOK
    <2>3. \A u \in Driver : Carries(u, k)' <=> Carries(u, k)
        BY <2>1, NoneCarries
    <2>4. Grown(a, Request(c)) /\ Request(c).kind = "request"
        BY <1>22, <2>1, Sent, Letters DEF SendRequest, Request, Message
    <2>5. \A b \in Agent : Boxes(b, k)' <=> Boxes(b, k)
        BY <2>4, BoxesGrown
    <2>6. CASE k = c
        BY <1>1, <2>1, <2>2, <2>3, <2>5, <2>6, FreshAccount
    <2>7. CASE k # c
        <3>1. PICK x \in recorded : Kept(k, x)
            BY <1>1, <2>2, <2>7, KeptIf
        <3>2. Boxes(x, k)' <=> Boxes(x, k)
            BY <2>5, <3>1 DEF Kept
        <3> QED BY <2>1, <2>3, <3>1, <3>2, Calm
    <2> QED BY <2>6, <2>7
<1>23. ASSUME NEW a \in Agent, NEW kind \in Posted, Send(a, kind)
      PROVE  AccountOK(k)'
    <2>1. PICK x \in recorded : Kept(k, x)
        BY <1>23, <1>1, KeptIf DEF Send
    <2>2. UNCHANGED <<signalled, pending, worker, drivers>> /\ Boxed
        BY <1>23, <1>1, TypedGives DEF Send, Inv, workers, engines
    <2>3. \A u \in Driver : Carries(u, k)' <=> Carries(u, k)
        BY <2>2, NoneCarries
    <2>4. Notice(kind) \in Letter /\ Notice(kind).kind # "result"
        BY Letters, PostedAssumption DEF Notice, Message
    <2>5. Boxes(x, k)' <=> Boxes(x, k)
        BY <1>23, <2>1, <2>2, <2>4, Sent, BoxesGrown DEF Send, Kept
    <2> QED BY <2>1, <2>2, <2>3, <2>5, Calm
<1>24. ASSUME NEW th \in Driver, NEW a \in Agent, SignalWorkers(th, a)
      PROVE  AccountOK(k)'
    <2>1. PICK x \in recorded : Kept(k, x)
        BY <1>24, <1>1, KeptIf DEF SignalWorkers
    <2>2. /\ UNCHANGED <<pending, worker, drivers, mailbox>>
          /\ signalled' = signalled \cup {c \in recordedWorker : owner[c] \in {a} /\ worker[c] # "over"}
          /\ todo[th] # <<>> /\ todo \in Plans /\ Then(th, <<>>) /\ <<>> \in Seq(Item)
          /\ Head(todo[th]) = <<"signal", a>>
        BY <1>24, <1>1 DEF SignalWorkers, Signal, NextIs, Inv, Typed, engines
    <2>3. Replaced(th, <<>>)
        BY <2>2, Replacing
    <2>4. Doomed(a)'
        <3>1. 1 \in DOMAIN todo[th] /\ todo[th][1] = <<"signal", a>>
            BY <2>2, <2>3 DEF Replaced
        <3>2. 1 + 1 \in DOMAIN todo[th] /\ todo[th][1 + 1] = <<"engine", a>>
            BY <1>1, <3>1 DEF Inv, PlansOK
        <3>3. 1 + 1 # 1
            OBVIOUS
        <3>4. \E j \in DOMAIN todo'[th] : todo'[th][j] = <<"engine", a>>
            BY <2>3, <3>2, <3>3 DEF Replaced
        <3> QED BY <3>4 DEF Doomed
    <2>5. \A u \in Driver : Carries(u, k)' <=> Carries(u, k)
        BY <2>2, NoneCarries
    <2>6. k \in signalled' => k \in signalled \/ Doomed(x)'
        BY <2>1, <2>2, <2>4 DEF Kept
    <2>7. InFlight(k)' <=> InFlight(k)
        BY <2>1, <2>2 DEF InFlight, Kept, drivers
    <2> QED BY <2>1, <2>2, <2>6, <2>7, AccountStays
<1>25. ASSUME NEW th \in Driver, NEW a \in Agent, CancelEngine(th, a)
      PROVE  AccountOK(k)'
    <2>1. PICK x \in recorded : Kept(k, x)
        BY <1>25, <1>1, KeptIf DEF CancelEngine
    <2>2. UNCHANGED <<signalled, worker, drivers, mailbox>>
        BY <1>25 DEF CancelEngine, workers
    <2>3. \A u \in Driver : Carries(u, k)' <=> Carries(u, k)
        BY <2>2, NoneCarries
    <2>4. k \in pending'[x] <=> k \in pending[x]
        <3>1. /\ Notice("cancel") \in Letter /\ Notice("cancel").kind \notin {"request", "result"} /\ Engines
            BY <1>1, Letters, TypedGives DEF Notice, Message, Inv
        <3>2. CASE Take(a, Notice("cancel"))
            <4>1. \A b \in Agent : k \in pending'[b] <=> k \in pending[b]
                BY <3>1, <3>2, Taken
            <4> QED BY <2>1, <4>1 DEF Kept
        <3> QED BY <1>25, <3>2 DEF CancelEngine, engines
    <2>5. Boxes(x, k)' <=> Boxes(x, k)
        BY <2>2 DEF Boxes
    <2> QED BY <2>1, <2>2, <2>3, <2>4, <2>5, Calm
<1>26. ASSUME NEW th \in Driver, NEW a \in Agent, Visit(th, a)
      PROVE  AccountOK(k)'
    <2>1. PICK x \in recorded : Kept(k, x)
        BY <1>26, <1>1, KeptIf DEF Visit
    <2>2. UNCHANGED <<signalled, worker, drivers, mailbox, pending>>
        BY <1>26 DEF Visit, workers, engines
    <2>3. \A u \in Driver : Carries(u, k)' <=> Carries(u, k)
        BY <2>2, NoneCarries
    <2>4. Boxes(x, k)' <=> Boxes(x, k)
        BY <2>2 DEF Boxes
    <2> QED BY <2>1, <2>2, <2>3, <2>4, Calm
<1>27. ASSUME NEW c \in Call, Work(c)
      PROVE  AccountOK(k)'
    <2>1. PICK x \in recorded : Kept(k, x)
        BY <1>27, <1>1, KeptIf DEF Work
    <2>2. UNCHANGED <<drivers, mailbox, pending>> /\ signalled' \subseteq signalled
        BY <1>27 DEF Work, engines
    <2>3. \A u \in Driver : Carries(u, k)' <=> Carries(u, k)
        BY <2>2, NoneCarries
    <2>4. Boxes(x, k)' <=> Boxes(x, k)
        BY <2>2 DEF Boxes
    <2>5. /\ worker'[k] \in Busy <=> worker[k] \in Busy
          /\ worker[k] = "failing" => worker'[k] = "failing"
        BY <1>27, <1>1 DEF Work, Move, Busy, Inv, Typed, TypeOK
    <2> QED BY <2>1, <2>2, <2>3, <2>4, <2>5, Calm
<1>28. ASSUME NEW c \in Call, EndWork(c)
      PROVE  AccountOK(k)'
    <2>1. PICK x \in recorded : Kept(k, x)
        BY <1>28, <1>1, KeptIf DEF EndWork
    <2>2. UNCHANGED <<drivers, mailbox, pending>> /\ signalled' \subseteq signalled
        BY <1>28 DEF EndWork, engines
    <2>3. \A u \in Driver : Carries(u, k)' <=> Carries(u, k)
        BY <2>2, NoneCarries
    <2>4. Boxes(x, k)' <=> Boxes(x, k)
        BY <2>2 DEF Boxes
    <2>5. /\ worker'[k] \in Busy <=> worker[k] \in Busy
          /\ worker[k] = "failing" => worker'[k] = "failing"
        BY <1>28, <1>1 DEF EndWork, Move, Busy, Inv, Typed, TypeOK
    <2> QED BY <2>1, <2>2, <2>3, <2>4, <2>5, Calm
<1>29. ASSUME NEW c \in Call, EndWorker(c)
      PROVE  AccountOK(k)'
    <2>1. PICK x \in recorded : Kept(k, x)
        BY <1>29, <1>1, KeptIf DEF EndWorker
    <2>2. UNCHANGED <<drivers, mailbox, pending>> /\ signalled' \subseteq signalled
        BY <1>29 DEF EndWorker, engines
    <2>3. \A u \in Driver : Carries(u, k)' <=> Carries(u, k)
        BY <2>2, NoneCarries
    <2>4. Boxes(x, k)' <=> Boxes(x, k)
        BY <2>2 DEF Boxes
    <2>5. /\ worker'[k] \in Busy <=> worker[k] \in Busy
          /\ worker[k] = "failing" => worker'[k] = "failing"
        BY <1>29, <1>1 DEF EndWorker, Move, Busy, Inv, Typed, TypeOK
    <2> QED BY <2>1, <2>2, <2>3, <2>4, <2>5, Calm
<1>30. ASSUME NEW c \in Call, TellParent(c)
      PROVE  AccountOK(k)'
    <2>1. PICK x \in recorded : Kept(k, x)
        BY <1>30, <1>1, KeptIf DEF TellParent
    <2>2. UNCHANGED <<drivers, pending, signalled>> /\ Boxed /\ NotifyParent(owner[c])
        BY <1>30, <1>1, TypedGives DEF TellParent, engines, Inv
    <2>3. \A u \in Driver : Carries(u, k)' <=> Carries(u, k)
        BY <2>2, NoneCarries
    <2>4. Notice("note").kind # "result"
        BY DEF Notice, Message
    <2>5. Boxes(x, k)' <=> Boxes(x, k)
        BY <2>1, <2>2, <2>4, Told, BoxesGrown DEF Kept
    <2>6. /\ worker'[k] \in Busy <=> worker[k] \in Busy
          /\ worker[k] = "failing" => worker'[k] = "failing"
        BY <1>30, <1>1 DEF TellParent, Move, Busy, Inv, Typed, TypeOK
    <2> QED BY <2>1, <2>2, <2>3, <2>5, <2>6, Calm
<1>31. ASSUME NEW c \in Call, HandleSignal(c)
      PROVE  AccountOK(k)'
    <2>1. PICK x \in recorded : Kept(k, x)
        BY <1>31, <1>1, KeptIf DEF HandleSignal
    <2>2. UNCHANGED <<drivers, mailbox, pending>> /\ signalled' \subseteq signalled /\ c \in signalled
        BY <1>31 DEF HandleSignal, engines
    <2>3. \A u \in Driver : Carries(u, k)' <=> Carries(u, k)
        BY <2>2, NoneCarries
    <2>4. Boxes(x, k)' <=> Boxes(x, k)
        BY <2>2 DEF Boxes
    <2>5. CASE k # c
        <3>1. worker'[k] = worker[k]
            <4>1. \E p : Move(c, p)
                BY <1>31 DEF HandleSignal
            <4> QED BY <1>1, <2>5, <4>1 DEF Move, Inv, Typed, TypeOK
        <3> QED BY <2>1, <2>2, <2>3, <2>4, <3>1, Calm
    <2>6. CASE k = c
        <3>1. Doomed(x)'
            BY <2>1, <2>2, <2>6 DEF Kept, AccountOK
        <3>2. worker'[k] \in Busy => worker[k] \in Busy
            <4>1. \/ worker[c] \in {"waiting", "running"} /\ Move(c, "sending")
                  \/ worker[c] = "sending" /\ Move(c, "failing")
                  \/ worker[c] \in {"sending", "failing", "telling", "leaving"} /\ Move(c, "leaving")
                BY <1>31 DEF HandleSignal
            <4> QED BY <1>1, <2>6, <4>1 DEF Move, Busy, Inv, Typed, TypeOK
        <3>3. InFlight(k)' => InFlight(k)
            <4>1. InFlight(k) <=> worker[k] \in Busy \/ (\E u \in Driver : Carries(u, k)) \/ Boxes(x, k)
                BY <2>1, Flight DEF Kept
            <4>2. InFlight(k)' <=> worker'[k] \in Busy \/ (\E u \in Driver : Carries(u, k)') \/ Boxes(x, k)'
                BY <2>1 DEF Kept, InFlight, Busy, Carries, Boxes
            <4> QED BY <2>3, <2>4, <3>2, <4>1, <4>2
        <3> QED BY <2>1, <2>2, <3>1, <3>3 DEF AccountOK, Kept
    <2> QED BY <2>5, <2>6
<1>32. ASSUME NEW c \in Call, ForceFailure(c)
      PROVE  AccountOK(k)'
    <2>1. PICK x \in recorded : Kept(k, x)
        BY <1>32, <1>1, KeptIf DEF ForceFailure
    <2>2. /\ UNCHANGED <<drivers, mailbox, signalled>> /\ worker[c] = "failing"
          /\ \E p \in {"leaving", "telling"} : worker' = [worker EXCEPT ![c] = p]
        BY <1>32 DEF ForceFailure, Move
    <2>3. \A u \in Driver : Carries(u, k)' <=> Carries(u, k)
        BY <2>2, NoneCarries
    <2>4. PICK a \in Agent : a = owner[c]
        BY <1>32, <1>1 DEF ForceFailure, Inv, WorkersOK, Typed, TypeOK
    <2>5. Boxes(x, k)' <=> Boxes(x, k)
        BY <2>2 DEF Boxes
    <2>6. /\ Notice("budget_exhausted") \in Letter /\ Engines
          /\ Notice("budget_exhausted").kind = "budget_exhausted"
        BY <1>1, Letters, TypedGives DEF Notice, Message, Inv
    <2>7. k \in pending'[x] <=> k \in pending[x]
        <3>1. CASE Take(a, Notice("budget_exhausted"))
            <4> DEFINE m == Notice("budget_exhausted")
            <4>1. m \in Letter /\ m.kind = "budget_exhausted" /\ Engines /\ Take(a, m) /\ a \in Agent
                BY <2>4, <2>6, <3>1
            <4> HIDE DEF m
            <4>2. \A b \in Agent : k \in pending'[b] <=> k \in pending[b]
                BY <4>1, Taken
            <4> QED BY <2>1, <4>2 DEF Kept
        <3> QED BY <1>32, <2>4, <3>1 DEF ForceFailure, engines
    <2>8. worker'[k] \in Busy <=> worker[k] \in Busy
        BY <1>1, <2>2 DEF Busy, Inv, Typed, TypeOK
    <2>9. CASE k # c
        <3>1. worker'[k] = worker[k]
            BY <1>1, <2>2, <2>9 DEF Inv, Typed, TypeOK
        <3> QED BY <2>1, <2>2, <2>3, <2>5, <2>7, <3>1, Calm
    <2>10. CASE k = c
        <3>1. x = a
            BY <2>1, <2>4, <2>10 DEF Kept
        <3>2. Doomed(x)'
            <4>1. CASE Disturb({a})
                BY <2>1, <3>1, <4>1 DEF Disturb, Kept, Up
            <4>2. CASE Take(a, Notice("budget_exhausted"))
                <5>1. status'[a] # "active"
                    BY <2>4, <2>6, <4>2, Taken
                <5> QED BY <3>1, <5>1 DEF Doomed
            <4> QED BY <1>32, <2>4, <4>1, <4>2 DEF ForceFailure
        <3>3. InFlight(k)' <=> InFlight(k)
            <4>1. InFlight(k) <=> worker[k] \in Busy \/ (\E u \in Driver : Carries(u, k)) \/ Boxes(x, k)
                BY <2>1, Flight DEF Kept
            <4>2. InFlight(k)' <=> worker'[k] \in Busy \/ (\E u \in Driver : Carries(u, k)') \/ Boxes(x, k)'
                BY <2>1 DEF Kept, InFlight, Busy, Carries, Boxes
            <4> QED BY <2>3, <2>5, <2>8, <4>1, <4>2
        <3> QED BY <2>1, <2>7, <3>2, <3>3 DEF AccountOK, Kept
    <2> QED BY <2>9, <2>10
<1>33. ASSUME NEW c \in Call, SendResult(c)
      PROVE  AccountOK(k)'
    <2>1. PICK x \in recorded : Kept(k, x)
        BY <1>33, <1>1, KeptIf DEF SendResult
    <2>2. /\ UNCHANGED <<drivers, signalled, pending>> /\ worker[c] = "sending" /\ Boxed
          /\ recorded \in SUBSET Agent
        BY <1>33, <1>1, TypedGives DEF SendResult, Inv, Typed, TypeOK, engines
    <2>3. \A u \in Driver : Carries(u, k)' <=> Carries(u, k)
        BY <2>2, NoneCarries
    <2>4. PICK m \in Letter : SendTo(owner[c], m) /\ m.call = c /\ m.kind = "result"
        <3>1. Result(c, result[c]) \in Letter /\ Result(c, result[c]).call = c
              /\ Result(c, result[c]).kind = "result"
            BY <1>1, Letters DEF Inv, Typed, TypeOK, Result, Message
        <3> QED BY <1>33, <3>1 DEF SendResult
    <2>5. Grown(owner[c], m)
        BY <2>2, <2>4, Sent
    <2>6. CASE k # c
        <3>1. worker'[k] = worker[k]
            BY <1>33, <1>1, <2>6 DEF SendResult, Move, Inv, Typed, TypeOK
        <3>2. Boxes(x, k)' <=> Boxes(x, k)
            BY <2>1, <2>4, <2>5, <2>6, BoxesGrown DEF Kept
        <3> QED BY <2>1, <2>2, <2>3, <3>1, <3>2, Calm
    <2>7. CASE k = c
        <3>1. k \in pending[x]
            BY <2>1, <2>2, <2>7 DEF Kept, AccountOK, InFlight
        <3>2. InFlight(k)' \/ worker'[k] = "failing"
            <4>1. CASE HasRoom(x)
                <5>1. \E i \in DOMAIN mailbox'[x] : mailbox'[x][i] = m
                    BY <2>1, <2>5, <2>7, <4>1 DEF Kept, Grown
                <5> QED BY <2>1, <2>4, <2>7, <5>1 DEF Kept, InFlight
            <4>2. CASE ~HasRoom(x)
                BY <1>33, <1>1, <2>1, <2>7, <4>2 DEF SendResult, Move, Kept, Inv, Typed, TypeOK
            <4> QED BY <4>1, <4>2
        <3> QED BY <2>1, <2>2, <3>1, <3>2 DEF AccountOK, Kept
    <2> QED BY <2>6, <2>7
<1>34. ASSUME \/ DestroyWorkers
             \/ DestroyPool
             \/ DestroyAgents
             \/ DestroyRegistry
      PROVE  AccountOK(k)'
    BY <1>34, <1>1 DEF DestroyWorkers, DestroyPool, DestroyAgents, DestroyRegistry, Up
<1>35. QED
    BY Steps, <1>1, <1>2, <1>3, <1>4, <1>5, <1>6, <1>7, <1>8, <1>9, <1>10, <1>11, <1>12, <1>13,
        <1>14, <1>15, <1>16, <1>17, <1>18, <1>19, <1>20, <1>21, <1>22, <1>23, <1>24, <1>25, <1>26,
        <1>27, <1>28, <1>29, <1>30, <1>31, <1>32, <1>33, <1>34

-----------------------------------------------------------------------------
(* The invariant, and what it gives.                                       *)

LEMMA Starts == ASSUME Init PROVE Inv
<1>1. mailbox \in Mailboxes /\ todo \in Plans
    <2>1. <<>> \in Seq(Letter) /\ <<>> \in Seq(Item)
        OBVIOUS
    <2> QED BY <2>1 DEF Init, Mailboxes, Plans
<1>2. Typed
    <2>1. \A a \in Agent : Len(mailbox[a]) <= MailboxSize
        BY MailboxAssumption DEF Init
    <2> QED BY <1>1, <2>1, MaxAgentsAssumption DEF Init, Typed, TypeOK, Stage
<1>3. \A a \in Agent : DOMAIN mailbox[a] = {}
    BY DEF Init
<1>4. \A th \in Driver : DOMAIN todo[th] = {}
    BY DEF Init
<1>5. StagesOK /\ WorkersOK /\ EnginesOK
    BY DEF Init, StagesOK, AtCall, WorkersOK, WorkerFactsAreLive, EnginesOK
<1>6. RegistryOK /\ AccountsOK
    BY <1>4 DEF Init, RegistryOK, AccountsOK
<1>7. HandsOK /\ MailOK
    BY <1>3 DEF Init, HandsOK, HolderOK, Holds, AtCall, MailOK
<1>8. PlansOK /\ ScopesOK
    BY <1>4 DEF Init, PlansOK, ScopesOK, ScopeOK
<1> QED BY <1>2, <1>5, <1>6, <1>7, <1>8 DEF Inv

LEMMA Keeps == ASSUME Inv, [Next]_vars PROVE Inv'
    BY TypesKept, RegistryKept, HandsKept, WorkersKept, EnginesKept, AccountsKept, PlansKept,
       ScopesKept DEF Inv

LEMMA Invariance == Spec => []Inv
<1>1. Init => Inv
    BY Starts
<1>2. Inv /\ [Next]_vars => Inv'
    BY Keeps
<1> QED BY <1>1, <1>2, PTL DEF Spec

\* Records, engines, mailboxes, calls, workers and drivers keep their types, and the
\* registry and each mailbox their bounds: spawn_locked/7, internal_send/4.
THEOREM Typing == Spec => []TypeOK
<1>1. Inv => TypeOK
    BY DEF Inv, Typed
<1> QED BY <1>1, Invariance, PTL

\* A worker fact names a thread that exists, although one thread records it and
\* another removes it: schedule_created_worker/5, worker_entry/6.
THEOREM WorkersAreRecorded == Spec => []WorkerFactsAreLive
<1>1. Inv => WorkerFactsAreLive
    BY DEF Inv, WorkersOK
<1> QED BY <1>1, Invariance, PTL

\* An agent waits for a call as long as somebody has it in hand, and no longer, unless
\* it was told otherwise: transition_message/4, fail_pending_call/4, force_agent_failure/3.
THEOREM CallsAreAccounted == Spec => []PendingIsAccounted
<1>1. Inv => PendingIsAccounted
    BY DEF Inv, AccountsOK, AccountOK, Doomed, Up, PendingIsAccounted
<1> QED BY <1>1, Invariance, PTL

\* A cancellation that returns has reached every agent of the tree it began with,
\* although it goes through the tree without a lock: agent_cancel_/4.
THEOREM CancellationsReachTrees == Spec => CancelReachesTree
<1>1. Inv /\ [Next]_vars =>
        [\A th \in Driver :
           pc[th] = "cancelling" /\ pc'[th] = "idle" /\ todo[th] = <<>> /\ runtime = "up" =>
              \A a \in scope[th] : status[a] # "active" \/ a \in disturbed']_vars
    BY ReachesTree
<1> QED BY <1>1, Invariance, PTL DEF Spec, CancelReachesTree
=============================================================================
