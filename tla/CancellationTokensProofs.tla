----------------------- MODULE CancellationTokensProofs -----------------------
(***************************************************************************)
(* Theorems about CancellationTokens, for every set of workers, clients,   *)
(* tasks and tokens: its types, that registrations end with executions,    *)
(* and which tokens a cancellation finds all executions of.                *)
(***************************************************************************)
EXTENDS CancellationTokens, FiniteSetTheorems, SequenceTheorems, TLAPS

\* A worker that is at a task has it alone, and the task was submitted.
JobsOK ==
    \A w \in Worker : pc[w] # "waiting" =>
        /\ task[job[w]] \in {"pending", "running"}
        /\ \A v \in Worker : pc[v] # "waiting" /\ job[v] = job[w] => v = w

\* Tasks that have one token share it.
TokensOK ==
    \A r, s \in Task :
        r # s /\ task[r] # "none" /\ task[s] # "none" /\ token[r] = token[s] => token[r] \in Shared

\* All executions on a worker's stack have the token of its task.
FramesOK ==
    \A w \in Worker :
        /\ \A i \in DOMAIN frames[w] : frames[w][i].token = token[job[w]]
        /\ Len(frames[w]) > 1 => token[job[w]] \in Nesting

Executes(w, t) == pc[w] = "goal" /\ token[job[w]] = t

\* A count is the number of executions; the other registrations are facts, which
\* plan graphs take back always and completions unless their Setup throws.
CountsOK ==
    \A t \in Token, w \in Worker :
        /\ Kind[t] = "counted" =>
              registered[t][w] = IF Executes(w, t) THEN Len(frames[w]) ELSE 0
        /\ Kind[t] # "counted" => registered[t][w] \in {0, 1}
        /\ Kind[t] = "single" /\ registered[t][w] = 1 => Executes(w, t)

\* The tokens whose registrations are not taken away by another execution.
Sole(t) == \/ Kind[t] = "counted"
           \/ Kind[t] = "thread" /\ t \notin Nesting
           \/ Kind[t] = "single" /\ t \notin Shared

FoundOK == \A t \in Token, w \in Worker : Sole(t) /\ Executes(w, t) => registered[t][w] > 0

Types ==
    /\ cancelled \subseteq Token
    /\ registered \in [Token -> [Worker -> Nat]]
    /\ cancels \in 0 .. MaxCancels
    /\ sending \in [Client -> [token : Token, left : [Worker -> 0 .. MaxDepth]]]
    /\ signals \in [Worker -> [Token -> Nat]]
    /\ task \in [Task -> {"none", "queued", "pending", "running", "settled"}]
    /\ token \in [Task -> Token]
    /\ pc \in [Worker -> {"waiting", "dequeued", "starting", "goal", "storing"}]
    /\ job \in [Worker -> Task]
    /\ frames \in [Worker -> Seq(Frame)]
    /\ \A w \in Worker : /\ Len(frames[w]) <= MaxDepth
                         /\ frames[w] # <<>> <=> pc[w] = "goal"

IInv == Types /\ JobsOK /\ TokensOK /\ FramesOK /\ CountsOK /\ FoundOK

-----------------------------------------------------------------------------
(* Stacks of executions.                                                   *)

LEMMA Pushed ==
    ASSUME NEW s \in Seq(Frame), NEW f \in Frame, NEW r, r = Append(s, f)
    PROVE  /\ r \in Seq(Frame) /\ r # <<>> /\ Len(r) = Len(s) + 1
           /\ \A i \in DOMAIN r : r[i].token = IF i \in DOMAIN s THEN s[i].token ELSE f.token
<1>1. r \in Seq(Frame) /\ Len(r) = Len(s) + 1
  BY AppendProperties
<1>2. \A i \in 1..Len(s) : r[i] = s[i]
  BY AppendProperties
<1>3. r[Len(s) + 1] = f
  BY AppendProperties
<1>4. r # <<>>
  BY <1>1, EmptySeq, LenProperties
<1>. QED BY <1>1, <1>2, <1>3, <1>4, LenProperties

LEMMA Turned ==
    ASSUME NEW s \in Seq(Frame), s # <<>>, NEW p \in Phase,
           NEW r, r = [s EXCEPT ![Len(s)].phase = p]
    PROVE  /\ r \in Seq(Frame) /\ r # <<>> /\ Len(r) = Len(s)
           /\ \A i \in DOMAIN r : i \in DOMAIN s /\ r[i].token = s[i].token
<1>. DEFINE f == [s[Len(s)] EXCEPT !.phase = p]
<1>1. Len(s) \in 1..Len(s) /\ s[Len(s)] \in Frame
  BY EmptySeq, LenProperties, ElementOfSeq
<1>2. f \in Frame /\ f.token = s[Len(s)].token
  BY <1>1 DEF Frame
<1>3. r = [s EXCEPT ![Len(s)] = f]
  OBVIOUS
<1>. HIDE DEF f
<1>4. r \in Seq(Frame) /\ Len(r) = Len(s) /\ \A i \in 1..Len(s) : r[i] = IF i = Len(s) THEN f ELSE s[i]
  BY <1>1, <1>2, <1>3, ExceptSeq
<1>. QED BY <1>1, <1>2, <1>4, EmptySeq, LenProperties

LEMMA Outer ==
    ASSUME NEW s \in Seq(Frame), s # <<>>, NEW r, r = SubSeq(s, 1, Len(s) - 1)
    PROVE  /\ r \in Seq(Frame) /\ Len(r) = Len(s) - 1 /\ (r = <<>> <=> Len(s) = 1)
           /\ \A i \in DOMAIN r : i \in DOMAIN s /\ r[i] = s[i]
<1>. DEFINE n == Len(s) - 1
<1>1. Len(s) \in Nat \ {0} /\ n \in Nat
  BY EmptySeq, LenProperties
<1>2. \A i \in 1..n : i \in 1..Len(s) /\ s[i] \in Frame
  BY <1>1, ElementOfSeq
<1>3. r = SubSeq(s, 1, n)
  OBVIOUS
<1>. HIDE DEF n
<1>4. /\ r \in Seq(Frame) /\ Len(r) = IF 1 <= n THEN n - 1 + 1 ELSE 0
      /\ \A i \in 1..(n - 1 + 1) : r[i] = s[1 + i - 1]
  BY <1>1, <1>2, <1>3, SubSeqProperties
<1>5. Len(r) = n /\ \A i \in 1..n : r[i] = s[i]
  BY <1>1, <1>4
<1>6. r = <<>> <=> n = 0
  BY <1>1, <1>4, <1>5, EmptySeq
<1>7. Len(s) = n + 1
  BY <1>1 DEF n
<1>8. DOMAIN r = 1..n /\ DOMAIN s = 1..Len(s)
  BY <1>4, <1>5, LenProperties
<1>. QED BY <1>1, <1>2, <1>4, <1>5, <1>6, <1>7, <1>8

-----------------------------------------------------------------------------
(* What registering and leaving do.                                        *)

LEMMA RegisterFacts ==
    ASSUME registered \in [Token -> [Worker -> Nat]], NEW w \in Worker, NEW t \in Token, Register(w, t)
    PROVE  /\ registered' \in [Token -> [Worker -> Nat]]
           /\ \A u \in Token \ {t} : registered'[u] = registered[u]
           /\ registered'[t][w] = IF Kind[t] = "counted" THEN registered[t][w] + 1 ELSE 1
           /\ \A v \in Worker \ {w} :
                 registered'[t][v] = IF Kind[t] = "single" THEN 0 ELSE registered[t][v]
<1>1. Kind[t] \in {"thread", "counted", "single"}
  BY KindAssumption DEF Keeping
<1>2. CASE Kind[t] = "thread"
  <2>. DEFINE k == [registered[t] EXCEPT ![w] = 1]
  <2>1. registered' = [registered EXCEPT ![t] = k]
    BY <1>2 DEF Register
  <2>2. k \in [Worker -> Nat] /\ k[w] = 1 /\ \A v \in Worker \ {w} : k[v] = registered[t][v]
    OBVIOUS
  <2>. HIDE DEF k
  <2>. QED BY <1>2, <2>1, <2>2
<1>3. CASE Kind[t] = "counted"
  <2>. DEFINE k == [registered[t] EXCEPT ![w] = registered[t][w] + 1]
  <2>1. registered' = [registered EXCEPT ![t] = k]
    BY <1>3 DEF Register
  <2>2. /\ k \in [Worker -> Nat] /\ k[w] = registered[t][w] + 1
        /\ \A v \in Worker \ {w} : k[v] = registered[t][v]
    OBVIOUS
  <2>. HIDE DEF k
  <2>. QED BY <1>3, <2>1, <2>2
<1>4. CASE Kind[t] = "single"
  <2>. DEFINE k == [Nothing EXCEPT ![w] = 1]
  <2>1. registered' = [registered EXCEPT ![t] = k]
    BY <1>4 DEF Register
  <2>2. k \in [Worker -> Nat] /\ k[w] = 1 /\ \A v \in Worker \ {w} : k[v] = 0
    BY DEF Nothing
  <2>. HIDE DEF k
  <2>. QED BY <1>4, <2>1, <2>2
<1>. QED BY <1>1, <1>2, <1>3, <1>4, Zenon

LEMMA UnregisterFacts ==
    ASSUME registered \in [Token -> [Worker -> Nat]], NEW w \in Worker, NEW t \in Token, Unregister(w, t)
    PROVE  /\ registered' \in [Token -> [Worker -> Nat]]
           /\ \A u \in Token \ {t} : registered'[u] = registered[u]
           /\ registered'[t][w] = IF Kind[t] = "counted" /\ registered[t][w] > 0
                                  THEN registered[t][w] - 1 ELSE 0
           /\ \A v \in Worker \ {w} :
                 registered'[t][v] = IF Kind[t] = "single" THEN 0 ELSE registered[t][v]
<1>1. Kind[t] \in {"thread", "counted", "single"}
  BY KindAssumption DEF Keeping
<1>2. CASE Kind[t] = "thread"
  <2>. DEFINE k == [registered[t] EXCEPT ![w] = 0]
  <2>1. registered' = [registered EXCEPT ![t] = k]
    BY <1>2 DEF Unregister
  <2>2. k \in [Worker -> Nat] /\ k[w] = 0 /\ \A v \in Worker \ {w} : k[v] = registered[t][v]
    OBVIOUS
  <2>. HIDE DEF k
  <2>. QED BY <1>2, <2>1, <2>2
<1>3. CASE Kind[t] = "counted"
  <2>. DEFINE k == [registered[t] EXCEPT ![w] = IF registered[t][w] > 0 THEN registered[t][w] - 1 ELSE 0]
  <2>1. registered' = [registered EXCEPT ![t] = k]
    BY <1>3 DEF Unregister
  <2>2. /\ k \in [Worker -> Nat] /\ k[w] = IF registered[t][w] > 0 THEN registered[t][w] - 1 ELSE 0
        /\ \A v \in Worker \ {w} : k[v] = registered[t][v]
    OBVIOUS
  <2>. HIDE DEF k
  <2>. QED BY <1>3, <2>1, <2>2
<1>4. CASE Kind[t] = "single"
  <2>1. registered' = [registered EXCEPT ![t] = Nothing]
    BY <1>4 DEF Unregister
  <2>2. Nothing \in [Worker -> Nat] /\ \A v \in Worker : Nothing[v] = 0
    BY DEF Nothing
  <2>. QED BY <1>4, <2>1, <2>2
<1>. QED BY <1>1, <1>2, <1>3, <1>4, Zenon

\* frames' and pc' of every other worker are those it had.
Others(w) == \A v \in Worker \ {w} : frames'[v] = frames[v] /\ pc'[v] = pc[v]

LEMMA LeaveFacts ==
    ASSUME Types, NEW w \in Worker, frames[w] # <<>>, NEW p \in Phase, Leave(w, p)
    PROVE  /\ frames' \in [Worker -> Seq(Frame)] /\ Len(frames'[w]) = Len(frames[w]) - 1
           /\ \A i \in DOMAIN frames'[w] :
                 i \in DOMAIN frames[w] /\ frames'[w][i].token = frames[w][i].token
           /\ pc' \in [Worker -> {"waiting", "dequeued", "starting", "goal", "storing"}]
           /\ Others(w)
           /\ frames'[w] = <<>> <=> Len(frames[w]) = 1
           /\ pc'[w] = IF Len(frames[w]) = 1 THEN "storing" ELSE "goal"
<1>. DEFINE s == frames[w]
            outer == SubSeq(s, 1, Len(s) - 1)
<1>1. /\ frames \in [Worker -> Seq(Frame)] /\ s \in Seq(Frame) /\ s # <<>> /\ pc[w] = "goal"
      /\ pc \in [Worker -> {"waiting", "dequeued", "starting", "goal", "storing"}]
  BY DEF Types
<1>2. /\ outer \in Seq(Frame) /\ Len(outer) = Len(s) - 1 /\ (outer = <<>> <=> Len(s) = 1)
      /\ \A i \in DOMAIN outer : i \in DOMAIN s /\ outer[i] = s[i]
  <2>. HIDE DEF s
  <2>. QED BY <1>1, Outer
<1>3. CASE outer = <<>>
  <2>1. frames' = [frames EXCEPT ![w] = <<>>] /\ pc' = [pc EXCEPT ![w] = "storing"]
    BY <1>3 DEF Leave, GoTo
  <2>2. <<>> \in Seq(Frame) /\ Len(<<>>) = 0 /\ DOMAIN <<>> = {}
    OBVIOUS
  <2>3. frames'[w] = <<>> /\ pc'[w] = "storing" /\ Len(s) = 1
    BY <1>1, <1>2, <1>3, <2>1
  <2>4. /\ frames' \in [Worker -> Seq(Frame)] /\ Others(w)
        /\ pc' \in [Worker -> {"waiting", "dequeued", "starting", "goal", "storing"}]
    BY <1>1, <2>1, <2>2 DEF Others
  <2>. QED BY <2>2, <2>3, <2>4
<1>4. CASE outer # <<>>
  <2>. HIDE DEF outer
  <2>1. frames' = [frames EXCEPT ![w] = [outer EXCEPT ![Len(outer)].phase = p]] /\ UNCHANGED pc
    BY <1>4 DEF Leave, outer
  <2>. DEFINE r == frames'[w]
  <2>2. r = [outer EXCEPT ![Len(outer)].phase = p] /\ \A v \in Worker \ {w} : frames'[v] = frames[v]
    BY <1>1, <2>1
  <2>3. DOMAIN frames' = Worker /\ frames' = [v \in Worker |-> frames'[v]]
    BY <1>1, <2>1
  <2>. HIDE DEF r
  <2>4. /\ r \in Seq(Frame) /\ r # <<>> /\ Len(r) = Len(outer)
        /\ \A i \in DOMAIN r : i \in DOMAIN outer /\ r[i].token = outer[i].token
    <3>1. outer \in Seq(Frame) /\ outer # <<>>
      BY <1>2, <1>4
    <3>2. \A q : q = [outer EXCEPT ![Len(outer)].phase = p] =>
              /\ q \in Seq(Frame) /\ q # <<>> /\ Len(q) = Len(outer)
              /\ \A i \in DOMAIN q : i \in DOMAIN outer /\ q[i].token = outer[i].token
      BY <3>1, Turned
    <3>. QED BY <2>2, <3>2, Zenon
  <2>5. frames' \in [Worker -> Seq(Frame)] /\ Others(w)
    BY <1>1, <2>1, <2>2, <2>3, <2>4 DEF Others, r
  <2>. QED BY <1>1, <1>2, <1>4, <2>1, <2>4, <2>5 DEF r
<1>. QED BY <1>3, <1>4

-----------------------------------------------------------------------------
(* Steps of executions.                                                    *)

PC == {"waiting", "dequeued", "starting", "goal", "storing"}

\* A worker that is at an execution.
LEMMA AtWork ==
    ASSUME IInv, NEW w \in Worker, pc[w] = "goal"
    PROVE  /\ frames[w] \in Seq(Frame) /\ frames[w] # <<>>
           /\ Len(frames[w]) \in 1..MaxDepth /\ Top(w) \in Frame
           /\ DOMAIN frames[w] = 1..Len(frames[w])
           /\ Top(w).token = token[job[w]] /\ token[job[w]] \in Token
           /\ task[job[w]] \in {"pending", "running"}
<1>1. /\ frames[w] \in Seq(Frame) /\ frames[w] # <<>> /\ Len(frames[w]) <= MaxDepth
      /\ token[job[w]] \in Token /\ task[job[w]] \in {"pending", "running"}
      /\ \A i \in DOMAIN frames[w] : frames[w][i].token = token[job[w]]
  BY DEF IInv, Types, JobsOK, FramesOK
<1>2. Len(frames[w]) \in Nat \ {0} /\ DOMAIN frames[w] = 1..Len(frames[w]) /\ MaxDepth \in Nat
  BY <1>1, EmptySeq, LenProperties, BoundsAssumption
<1>3. Top(w) \in Frame
  BY <1>1, <1>2, ElementOfSeq DEF Top
<1>. QED BY <1>1, <1>2, <1>3 DEF Top

LEMMA Idle ==
    ASSUME IInv, NEW w \in Worker, pc[w] # "goal"
    PROVE  frames[w] = <<>> /\ Len(frames[w]) = 0 /\ DOMAIN frames[w] = {}
BY DEF IInv, Types

\* Inside is what Executes says, of the reachable states.
LEMMA InsideIs ==
    ASSUME IInv, NEW w \in Worker, NEW t \in Token
    PROVE  Inside(w, t) <=> Executes(w, t)
<1>1. CASE pc[w] = "goal"
  <2>1. 1 \in DOMAIN frames[w] /\ \A i \in DOMAIN frames[w] : frames[w][i].token = token[job[w]]
    BY <1>1, AtWork DEF IInv, FramesOK
  <2>. QED BY <1>1, <2>1 DEF Inside, Executes
<1>2. CASE pc[w] # "goal"
  BY <1>2, Idle DEF Inside, Executes
<1>. QED BY <1>1, <1>2

\* The invariant is kept by a step of w that leaves the tasks, when its stack and the
\* registrations agree afterwards.
LEMMA StepOf ==
    ASSUME IInv, NEW w \in Worker, pc[w] # "waiting",
           UNCHANGED <<cancelled, cancels, sending, task, token, job>>,
           signals' \in [Worker -> [Token -> Nat]],
           registered' \in [Token -> [Worker -> Nat]],
           pc' \in [Worker -> PC], frames' \in [Worker -> Seq(Frame)], Others(w),
           Len(frames'[w]) <= MaxDepth, frames'[w] # <<>> <=> pc'[w] = "goal",
           \A i \in DOMAIN frames'[w] : frames'[w][i].token = token[job[w]],
           Len(frames'[w]) > 1 => token[job[w]] \in Nesting,
           CountsOK', FoundOK'
    PROVE  IInv'
<1>1. Types'
  BY DEF IInv, Types, Others, PC
<1>2. JobsOK'
  BY DEF IInv, JobsOK, Others
<1>3. TokensOK'
  BY DEF IInv, TokensOK
<1>4. FramesOK'
  <2>1. ASSUME NEW v \in Worker
        PROVE  /\ \A i \in DOMAIN frames'[v] : frames'[v][i].token = token[job[v]]
               /\ Len(frames'[v]) > 1 => token[job[v]] \in Nesting
    <3>1. CASE v = w
      BY <3>1
    <3>2. CASE v # w
      <4>1. frames'[v] = frames[v]
        BY <3>2 DEF Others
      <4>. QED BY <4>1 DEF IInv, FramesOK
    <3>. QED BY <3>1, <3>2
  <2>. QED BY <2>1 DEF FramesOK
<1>. QED BY <1>1, <1>2, <1>3, <1>4 DEF IInv

\* A registration under one token at w concerns who executes with that token only.
LEMMA Elsewhere ==
    ASSUME IInv, NEW w \in Worker, pc[w] # "waiting", UNCHANGED <<token, job>>, Others(w),
           NEW u \in Token, NEW v \in Worker, v # w
    PROVE  /\ Executes(v, u)' <=> Executes(v, u)
           /\ frames'[v] = frames[v]
           /\ Executes(v, u) /\ u = token[job[w]] => u \in Shared
<1>1. Executes(v, u)' <=> Executes(v, u)
  BY DEF Executes, Others
<1>2. Executes(v, u) /\ u = token[job[w]] => u \in Shared
  <2>1. Executes(v, u) => pc[v] # "waiting"
    BY DEF Executes
  <2>2. job[v] \in Task /\ job[w] \in Task
    BY DEF IInv, Types
  <2>. QED BY <2>1, <2>2, Zenon DEF IInv, JobsOK, TokensOK, Executes
<1>. QED BY <1>1, <1>2 DEF Others

\* The registrations are right after a step of w that leaves those under other tokens, and
\* those of other threads but for a token of one thread, when they are right for w.
LEMMA Cells ==
    ASSUME IInv, NEW w \in Worker, pc[w] # "waiting", UNCHANGED <<token, job>>, Others(w),
           NEW t \in Token, t = token[job[w]],
           \A u \in Token \ {t} : registered'[u] = registered[u],
           \A v \in Worker \ {w} :
               registered'[t][v] = registered[t][v] \/ (Kind[t] = "single" /\ registered'[t][v] = 0),
           Kind[t] = "counted" => registered'[t][w] = IF pc'[w] = "goal" THEN Len(frames'[w]) ELSE 0,
           Kind[t] # "counted" => registered'[t][w] \in {0, 1},
           Kind[t] = "single" /\ registered'[t][w] = 1 => pc'[w] = "goal",
           Sole(t) /\ pc'[w] = "goal" => registered'[t][w] > 0
    PROVE  CountsOK' /\ FoundOK'
<1>1. ASSUME NEW u \in Token, NEW v \in Worker
      PROVE  /\ Kind[u] = "counted" =>
                   registered'[u][v] = IF Executes(v, u)' THEN Len(frames'[v]) ELSE 0
             /\ Kind[u] # "counted" => registered'[u][v] \in {0, 1}
             /\ Kind[u] = "single" /\ registered'[u][v] = 1 => Executes(v, u)'
             /\ Sole(u) /\ Executes(v, u)' => registered'[u][v] > 0
  <2>1. /\ Kind[u] = "counted" =>
              registered[u][v] = IF Executes(v, u) THEN Len(frames[v]) ELSE 0
        /\ Kind[u] # "counted" => registered[u][v] \in {0, 1}
        /\ Kind[u] = "single" /\ registered[u][v] = 1 => Executes(v, u)
        /\ Sole(u) /\ Executes(v, u) => registered[u][v] > 0
    BY DEF IInv, CountsOK, FoundOK
  <2>2. CASE v # w
    <3>1. /\ Executes(v, u)' <=> Executes(v, u)
          /\ frames'[v] = frames[v]
          /\ Executes(v, u) /\ u = t => u \in Shared
      BY <2>2, Elsewhere
    <3>2. CASE registered'[u][v] = registered[u][v]
      <4>. DEFINE E == Executes(v, u)
      <4>1. E' <=> E
        BY <3>1
      <4>. HIDE DEF E
      <4>. QED BY <2>1, <3>1, <3>2, <4>1 DEF E
    <3>3. CASE registered'[u][v] # registered[u][v]
      <4>1. u = t /\ Kind[u] = "single" /\ registered'[u][v] = 0
        BY <2>2, <3>3
      <4>2. Executes(v, u)' => u \in Shared
        BY <3>1, <4>1
      <4>. QED BY <4>1, <4>2 DEF Sole
    <3>. QED BY <3>2, <3>3
  <2>3. CASE v = w /\ u # t
    <3>1. ~Executes(w, u) /\ ~Executes(w, u)'
      BY <2>3 DEF Executes
    <3>. QED BY <2>1, <2>3, <3>1
  <2>4. CASE v = w /\ u = t
    <3>1. Executes(w, t)' <=> pc'[w] = "goal"
      BY DEF Executes
    <3>. QED BY <2>4, <3>1
  <2>. QED BY <2>2, <2>3, <2>4
<1>2. CountsOK'
  BY <1>1 DEF CountsOK
<1>3. FoundOK'
  BY <1>1 DEF FoundOK, Sole
<1>. QED BY <1>2, <1>3

LEMMA Entering ==
    ASSUME IInv, NEW w \in Worker, Enter(w, token[job[w]]),
           pc[w] = "starting" \/ (pc[w] = "goal" /\ token[job[w]] \in Nesting),
           Len(frames[w]) < MaxDepth,
           pc' = [pc EXCEPT ![w] = "goal"],
           UNCHANGED <<cancelled, cancels, sending, signals, task, token, job>>
    PROVE  IInv'
<1>. DEFINE t == token[job[w]]
            f == [token |-> t, phase |-> "setup"]
<1>1. /\ t \in Token /\ frames[w] \in Seq(Frame) /\ frames \in [Worker -> Seq(Frame)]
      /\ pc \in [Worker -> PC] /\ registered \in [Token -> [Worker -> Nat]]
      /\ signals \in [Worker -> [Token -> Nat]] /\ MaxDepth \in Nat \ {0}
  BY BoundsAssumption DEF IInv, Types, PC
<1>2. Len(frames[w]) \in Nat /\ DOMAIN frames[w] = 1..Len(frames[w])
      /\ (pc[w] = "starting" => Len(frames[w]) = 0)
  BY <1>1, LenProperties, Idle
<1>3. f \in Frame /\ f.token = t
  BY <1>1 DEF Frame, Phase
<1>4. frames' = [frames EXCEPT ![w] = Append(frames[w], f)]
  BY DEF Enter, Push
<1>. HIDE DEF f
<1>5. /\ frames'[w] = Append(frames[w], f)
      /\ \A v \in Worker \ {w} : frames'[v] = frames[v] /\ pc'[v] = pc[v]
  BY <1>1, <1>4
<1>6. Register(w, t)
  BY DEF Enter
<1>7. \A i \in DOMAIN frames[w] : frames[w][i].token = t
  BY DEF IInv, FramesOK
<1>8. t = token[job[w]]
  OBVIOUS
<1>. HIDE DEF t
<1>9. /\ frames'[w] \in Seq(Frame) /\ frames'[w] # <<>> /\ Len(frames'[w]) = Len(frames[w]) + 1
      /\ \A i \in DOMAIN frames'[w] : frames'[w][i].token = t
  <2>1. \A q : q = Append(frames[w], f) =>
            /\ q \in Seq(Frame) /\ q # <<>> /\ Len(q) = Len(frames[w]) + 1
            /\ \A i \in DOMAIN q :
                  q[i].token = IF i \in DOMAIN frames[w] THEN frames[w][i].token ELSE f.token
    BY <1>1, <1>3, Pushed
  <2>2. \A q : q = Append(frames[w], f) =>
            /\ q \in Seq(Frame) /\ q # <<>> /\ Len(q) = Len(frames[w]) + 1
            /\ \A i \in DOMAIN q : q[i].token = t
    BY <1>3, <1>7, <2>1, Zenon
  <2>. QED BY <1>5, <2>2, Zenon
<1>10. frames' \in [Worker -> Seq(Frame)] /\ pc' \in [Worker -> PC] /\ pc'[w] = "goal" /\ Others(w)
  BY <1>1, <1>4, <1>5, <1>9 DEF PC, Others
<1>11. /\ registered' \in [Token -> [Worker -> Nat]]
       /\ \A u \in Token \ {t} : registered'[u] = registered[u]
       /\ registered'[t][w] = IF Kind[t] = "counted" THEN registered[t][w] + 1 ELSE 1
       /\ \A v \in Worker \ {w} :
             registered'[t][v] = IF Kind[t] = "single" THEN 0 ELSE registered[t][v]
  BY <1>1, <1>6, RegisterFacts
<1>12. Kind[t] = "counted" => registered[t][w] = Len(frames[w])
  <2>1. Kind[t] = "counted" => registered[t][w] = IF Executes(w, t) THEN Len(frames[w]) ELSE 0
    BY <1>1 DEF IInv, CountsOK
  <2>2. CASE pc[w] = "goal"
    BY <1>8, <2>1, <2>2 DEF Executes
  <2>3. CASE pc[w] = "starting"
    BY <1>2, <2>1, <2>3 DEF Executes
  <2>. QED BY <2>2, <2>3
<1>13. Kind[t] = "counted" => registered'[t][w] = Len(frames'[w])
  BY <1>9, <1>11, <1>12
<1>14. registered'[t][w] > 0
  BY <1>2, <1>9, <1>11, <1>13
<1>15. CountsOK' /\ FoundOK'
  <2>1. \A v \in Worker \ {w} :
            registered'[t][v] = registered[t][v] \/ (Kind[t] = "single" /\ registered'[t][v] = 0)
    BY <1>11
  <2>2. Kind[t] = "counted" => registered'[t][w] = IF pc'[w] = "goal" THEN Len(frames'[w]) ELSE 0
    BY <1>10, <1>13
  <2>3. /\ Kind[t] # "counted" => registered'[t][w] \in {0, 1}
        /\ Kind[t] = "single" /\ registered'[t][w] = 1 => pc'[w] = "goal"
        /\ Sole(t) /\ pc'[w] = "goal" => registered'[t][w] > 0
    BY <1>10, <1>11, <1>14
  <2>4. pc[w] # "waiting" /\ UNCHANGED <<token, job>> /\ Others(w) /\ t \in Token
    BY <1>1, <1>10
  <2>5. \A u \in Token \ {t} : registered'[u] = registered[u]
    BY <1>11
  <2>. QED BY <1>8, <2>1, <2>2, <2>3, <2>4, <2>5, Cells, Zenon
<1>16. /\ Len(frames'[w]) <= MaxDepth
       /\ Len(frames'[w]) > 1 => t \in Nesting
  BY <1>1, <1>2, <1>8, <1>9
<1>17. pc[w] # "waiting"
  OBVIOUS
<1>. QED BY <1>1, <1>8, <1>9, <1>10, <1>11, <1>15, <1>16, <1>17, StepOf

\* Leaving an execution, when the registrations agree afterwards.
LEMMA Leaving ==
    ASSUME IInv, NEW w \in Worker, pc[w] = "goal", NEW p \in Phase, Leave(w, p),
           UNCHANGED <<cancelled, cancels, sending, task, token, job>>,
           signals' \in [Worker -> [Token -> Nat]],
           registered' \in [Token -> [Worker -> Nat]],
           CountsOK', FoundOK'
    PROVE  IInv'
<1>1. /\ Types /\ frames[w] # <<>> /\ Len(frames[w]) \in 1..MaxDepth /\ MaxDepth \in Nat
      /\ DOMAIN frames[w] = 1..Len(frames[w])
  BY AtWork, BoundsAssumption DEF IInv
<1>2. /\ frames' \in [Worker -> Seq(Frame)] /\ Len(frames'[w]) = Len(frames[w]) - 1
      /\ \A i \in DOMAIN frames'[w] :
            i \in DOMAIN frames[w] /\ frames'[w][i].token = frames[w][i].token
      /\ pc' \in [Worker -> PC]
      /\ Others(w)
      /\ frames'[w] = <<>> <=> Len(frames[w]) = 1
      /\ pc'[w] = IF Len(frames[w]) = 1 THEN "storing" ELSE "goal"
  BY <1>1, LeaveFacts DEF PC
<1>3. /\ \A i \in DOMAIN frames[w] : frames[w][i].token = token[job[w]]
      /\ Len(frames[w]) > 1 => token[job[w]] \in Nesting
  BY DEF IInv, FramesOK
<1>4. \A i \in DOMAIN frames'[w] : frames'[w][i].token = token[job[w]]
  BY <1>2, <1>3
<1>5. /\ Len(frames'[w]) <= MaxDepth
      /\ frames'[w] # <<>> <=> pc'[w] = "goal"
      /\ Len(frames'[w]) > 1 => token[job[w]] \in Nesting
  BY <1>1, <1>2, <1>3
<1>6. pc[w] # "waiting"
  OBVIOUS
<1>. QED BY <1>2, <1>4, <1>5, <1>6, StepOf, Zenon

LEMMA Ending ==
    ASSUME IInv, NEW w \in Worker, pc[w] = "goal", NEW p \in Phase, End(w, p),
           signals' \in [Worker -> [Token -> Nat]]
    PROVE  IInv'
<1>. DEFINE t == token[job[w]]
<1>1. /\ Types /\ frames[w] # <<>> /\ Len(frames[w]) \in 1..MaxDepth /\ MaxDepth \in Nat
      /\ t \in Token /\ Top(w).token = t
      /\ registered \in [Token -> [Worker -> Nat]]
  BY AtWork, BoundsAssumption DEF IInv, Types
<1>2. /\ Unregister(w, t) /\ Leave(w, p)
      /\ UNCHANGED <<cancelled, cancels, sending, task, token, job>>
  BY <1>1 DEF End
<1>3. t = token[job[w]]
  OBVIOUS
<1>4. Executes(w, t) /\ (Len(frames[w]) > 1 => t \in Nesting)
  BY DEF IInv, FramesOK, Executes
<1>. HIDE DEF t
<1>5. /\ Len(frames'[w]) = Len(frames[w]) - 1 /\ Others(w)
      /\ pc'[w] = IF Len(frames[w]) = 1 THEN "storing" ELSE "goal"
  BY <1>1, <1>2, LeaveFacts
<1>6. /\ registered' \in [Token -> [Worker -> Nat]]
      /\ \A u \in Token \ {t} : registered'[u] = registered[u]
      /\ registered'[t][w] = IF Kind[t] = "counted" /\ registered[t][w] > 0
                             THEN registered[t][w] - 1 ELSE 0
      /\ \A v \in Worker \ {w} :
            registered'[t][v] = IF Kind[t] = "single" THEN 0 ELSE registered[t][v]
  BY <1>1, <1>2, UnregisterFacts
<1>7. Kind[t] = "counted" => registered[t][w] = Len(frames[w])
  BY <1>1, <1>4 DEF IInv, CountsOK
<1>8. Kind[t] = "counted" => registered'[t][w] = IF pc'[w] = "goal" THEN Len(frames'[w]) ELSE 0
  <2>1. SUFFICES ASSUME Kind[t] = "counted"
                 PROVE  registered'[t][w] = IF pc'[w] = "goal" THEN Len(frames'[w]) ELSE 0
    OBVIOUS
  <2>2. Len(frames[w]) \in Nat /\ Len(frames[w]) >= 1
    BY <1>1
  <2>3. registered'[t][w] = Len(frames[w]) - 1
    BY <1>6, <1>7, <2>1, <2>2
  <2>4. Len(frames'[w]) = Len(frames[w]) - 1 /\ (Len(frames[w]) = 1 <=> pc'[w] # "goal")
    BY <1>5
  <2>. DEFINE n == Len(frames[w])
              m == Len(frames'[w])
              k == registered'[t][w]
  <2>5. n \in Nat /\ n >= 1 /\ k = n - 1 /\ m = n - 1 /\ (n = 1 <=> pc'[w] # "goal")
    BY <2>2, <2>3, <2>4
  <2>. HIDE DEF n, m, k
  <2>6. k = IF pc'[w] = "goal" THEN m ELSE 0
    BY <2>5
  <2>. QED BY <2>6 DEF m, k
<1>9. Kind[t] # "counted" => registered'[t][w] = 0
  BY <1>6
<1>10. Sole(t) /\ pc'[w] = "goal" => registered'[t][w] > 0
  <2>1. ASSUME Sole(t), pc'[w] = "goal" PROVE Kind[t] = "counted" /\ Len(frames'[w]) > 0
    <3>0. Len(frames[w]) # 1
      BY <1>5, <2>1
    <3>1. Len(frames[w]) > 1
      <4>. DEFINE n == Len(frames[w])
      <4>1. n \in 1..MaxDepth /\ n # 1
        BY <1>1, <3>0
      <4>. HIDE DEF n
      <4>2. n > 1
        BY <4>1, BoundsAssumption
      <4>. QED BY <4>2 DEF n
    <3>2. t \in Nesting
      BY <1>4, <3>1, Zenon
    <3>3. Kind[t] # "single"
      BY <3>2, NestingAssumption
    <3>. QED BY <1>1, <1>5, <1>8, <2>1, <3>1, <3>2, <3>3 DEF Sole
  <2>. QED BY <1>8, <2>1
<1>11. CountsOK' /\ FoundOK'
  <2>1. \A v \in Worker \ {w} :
            registered'[t][v] = registered[t][v] \/ (Kind[t] = "single" /\ registered'[t][v] = 0)
    BY <1>6
  <2>2. /\ Kind[t] # "counted" => registered'[t][w] \in {0, 1}
        /\ Kind[t] = "single" /\ registered'[t][w] = 1 => pc'[w] = "goal"
    BY <1>9
  <2>3. pc[w] # "waiting" /\ UNCHANGED <<token, job>>
    BY <1>2
  <2>. QED BY <1>1, <1>3, <1>5, <1>6, <1>8, <1>10, <2>1, <2>2, <2>3, Cells
<1>. QED BY <1>2, <1>6, <1>11, Leaving

\* Setup of a completion throws: it stays registered, and counts nothing.
LEMMA Throwing ==
    ASSUME IInv, NEW w \in Worker, pc[w] = "goal", Kind[token[job[w]]] = "thread",
           Leave(w, "failing"), UNCHANGED <<tokens, signals, task, token, job>>
    PROVE  IInv'
<1>. DEFINE t == token[job[w]]
<1>1. /\ Types /\ frames[w] # <<>> /\ Len(frames[w]) \in 1..MaxDepth
      /\ t \in Token /\ "failing" \in Phase
      /\ registered \in [Token -> [Worker -> Nat]] /\ signals \in [Worker -> [Token -> Nat]]
  BY AtWork DEF IInv, Types, Phase
<1>2. Executes(w, t) /\ (Len(frames[w]) > 1 => t \in Nesting) /\ Kind[t] = "thread"
  BY DEF IInv, FramesOK, Executes
<1>3. t = token[job[w]]
  OBVIOUS
<1>. HIDE DEF t
<1>4. Others(w) /\ pc'[w] = IF Len(frames[w]) = 1 THEN "storing" ELSE "goal"
  BY <1>1, LeaveFacts
<1>5. registered' = registered
  BY DEF tokens
<1>6. registered[t][w] \in {0, 1}
  BY <1>1, <1>2 DEF IInv, CountsOK
<1>7. ~(Sole(t) /\ pc'[w] = "goal")
  <2>1. ASSUME pc'[w] = "goal" PROVE t \in Nesting
    <3>1. Len(frames[w]) # 1
      BY <1>4, <2>1
    <3>2. Len(frames[w]) > 1
      <4>. DEFINE n == Len(frames[w])
      <4>1. n \in 1..MaxDepth /\ n # 1
        BY <1>1, <3>1
      <4>. HIDE DEF n
      <4>2. n > 1
        BY <4>1, BoundsAssumption
      <4>. QED BY <4>2 DEF n
    <3>. QED BY <1>2, <1>3, <3>2, Zenon
  <2>. QED BY <1>2, <1>3, <2>1 DEF Sole
<1>8. CountsOK' /\ FoundOK'
  <2>1. pc[w] # "waiting"
    OBVIOUS
  <2>. QED BY <1>1, <1>2, <1>3, <1>4, <1>5, <1>6, <1>7, <2>1, Cells
<1>. QED BY <1>1, <1>5, <1>8, Leaving DEF tokens

LEMMA Turning ==
    ASSUME IInv, NEW w \in Worker, pc[w] = "goal", NEW p \in Phase, Turn(w, p),
           UNCHANGED <<tokens, signals, task, token, pc, job>>
    PROVE  IInv'
<1>. DEFINE s == frames[w]
<1>1. /\ frames \in [Worker -> Seq(Frame)] /\ s \in Seq(Frame) /\ s # <<>>
      /\ Len(s) <= MaxDepth /\ DOMAIN s = 1..Len(s)
      /\ registered \in [Token -> [Worker -> Nat]] /\ signals \in [Worker -> [Token -> Nat]]
      /\ pc \in [Worker -> PC]
  BY AtWork DEF IInv, Types, PC
<1>2. /\ frames' = [frames EXCEPT ![w] = [s EXCEPT ![Len(s)].phase = p]]
  BY DEF Turn
<1>3. /\ frames'[w] = [s EXCEPT ![Len(s)].phase = p]
      /\ \A v \in Worker \ {w} : frames'[v] = frames[v]
  BY <1>1, <1>2
<1>4. frames' = [v \in Worker |-> frames'[v]]
  BY <1>1, <1>2
<1>5. /\ \A i \in DOMAIN s : s[i].token = token[job[w]]
      /\ Len(s) > 1 => token[job[w]] \in Nesting
  BY DEF IInv, FramesOK
<1>6. s = frames[w]
  OBVIOUS
<1>. HIDE DEF s
<1>7. /\ frames'[w] \in Seq(Frame) /\ frames'[w] # <<>> /\ Len(frames'[w]) = Len(s)
      /\ \A i \in DOMAIN frames'[w] : i \in DOMAIN s /\ frames'[w][i].token = s[i].token
  <2>1. \A q : q = [s EXCEPT ![Len(s)].phase = p] =>
            /\ q \in Seq(Frame) /\ q # <<>> /\ Len(q) = Len(s)
            /\ \A i \in DOMAIN q : i \in DOMAIN s /\ q[i].token = s[i].token
    BY <1>1, Turned
  <2>. QED BY <1>3, <2>1, Zenon
<1>8. frames' \in [Worker -> Seq(Frame)] /\ Others(w)
  BY <1>3, <1>4, <1>1, <1>7 DEF Others
<1>9. registered' = registered
  BY DEF tokens
<1>10. \A v \in Worker : Len(frames'[v]) = Len(frames[v])
  BY <1>3, <1>6, <1>7
<1>11. \A u \in Token, v \in Worker : Executes(v, u)' <=> Executes(v, u)
  BY DEF Executes
<1>12. CountsOK'
  <2>1. ASSUME NEW u \in Token, NEW v \in Worker
        PROVE  /\ Kind[u] = "counted" =>
                     registered'[u][v] = IF Executes(v, u)' THEN Len(frames'[v]) ELSE 0
               /\ Kind[u] # "counted" => registered'[u][v] \in {0, 1}
               /\ Kind[u] = "single" /\ registered'[u][v] = 1 => Executes(v, u)'
    <3>1. /\ Kind[u] = "counted" =>
                registered[u][v] = IF Executes(v, u) THEN Len(frames[v]) ELSE 0
          /\ Kind[u] # "counted" => registered[u][v] \in {0, 1}
          /\ Kind[u] = "single" /\ registered[u][v] = 1 => Executes(v, u)
      BY DEF IInv, CountsOK
    <3>. DEFINE E == Executes(v, u)
    <3>2. E' <=> E
      BY <1>11
    <3>. HIDE DEF E
    <3>. QED BY <1>9, <1>10, <3>1, <3>2 DEF E
  <2>. QED BY <2>1 DEF CountsOK
<1>13. FoundOK'
  BY <1>9, <1>11 DEF IInv, FoundOK, Sole
<1>14. UNCHANGED <<cancelled, cancels, sending, task, token, job>>
  BY DEF tokens
<1>15. /\ Len(frames'[w]) <= MaxDepth
       /\ frames'[w] # <<>> <=> pc'[w] = "goal"
       /\ \A i \in DOMAIN frames'[w] : frames'[w][i].token = token[job[w]]
       /\ Len(frames'[w]) > 1 => token[job[w]] \in Nesting
  BY <1>1, <1>5, <1>7
<1>. QED BY <1>1, <1>7, <1>8, <1>9, <1>12, <1>13, <1>14, <1>15, StepOf

-----------------------------------------------------------------------------
(* Steps of the pool and of cancellers.                                    *)

LEMMA Quiet ==
    ASSUME IInv, UNCHANGED <<registered, frames>>,
           \A v \in Worker, u \in Token : Executes(v, u)' <=> Executes(v, u)
    PROVE  CountsOK' /\ FoundOK'
<1>1. ASSUME NEW u \in Token, NEW v \in Worker
      PROVE  /\ Kind[u] = "counted" =>
                   registered'[u][v] = IF Executes(v, u)' THEN Len(frames'[v]) ELSE 0
             /\ Kind[u] # "counted" => registered'[u][v] \in {0, 1}
             /\ Kind[u] = "single" /\ registered'[u][v] = 1 => Executes(v, u)'
             /\ Sole(u) /\ Executes(v, u)' => registered'[u][v] > 0
  <2>1. /\ Kind[u] = "counted" =>
              registered[u][v] = IF Executes(v, u) THEN Len(frames[v]) ELSE 0
        /\ Kind[u] # "counted" => registered[u][v] \in {0, 1}
        /\ Kind[u] = "single" /\ registered[u][v] = 1 => Executes(v, u)
        /\ Sole(u) /\ Executes(v, u) => registered[u][v] > 0
    BY DEF IInv, CountsOK, FoundOK
  <2>. DEFINE E == Executes(v, u)
  <2>2. E' <=> E
    OBVIOUS
  <2>. HIDE DEF E
  <2>. QED BY <2>1, <2>2 DEF E
<1>. QED BY <1>1 DEF CountsOK, FoundOK, Sole

\* A worker that is at no execution goes on in the pool's loop.
LEMMA PoolStep ==
    ASSUME IInv, NEW w \in Worker, pc[w] # "goal", NEW p \in PC \ {"goal"},
           pc' = [pc EXCEPT ![w] = p],
           UNCHANGED <<tokens, token, frames>>,
           signals' \in [Worker -> [Token -> Nat]],
           job' \in [Worker -> Task], \A v \in Worker \ {w} : job'[v] = job[v],
           task' \in [Task -> {"none", "queued", "pending", "running", "settled"}],
           \A r \in Task : task[r] = "none" => task'[r] = "none",
           JobsOK'
    PROVE  IInv'
<1>1. /\ pc \in [Worker -> PC] /\ pc' \in [Worker -> PC] /\ pc'[w] # "goal"
      /\ \A v \in Worker \ {w} : pc'[v] = pc[v]
  BY DEF IInv, Types, PC
<1>2. frames[w] = <<>> /\ Len(frames[w]) = 0 /\ DOMAIN frames[w] = {}
  BY Idle
<1>3. UNCHANGED <<cancelled, registered, cancels, sending>>
  BY DEF tokens
<1>4. Types'
  BY <1>1, <1>2, <1>3 DEF IInv, Types, PC
<1>5. TokensOK'
  BY DEF IInv, TokensOK
<1>6. FramesOK'
  <2>1. ASSUME NEW v \in Worker
        PROVE  /\ \A i \in DOMAIN frames[v] : frames[v][i].token = token[job'[v]]
               /\ Len(frames[v]) > 1 => token[job'[v]] \in Nesting
    <3>1. CASE v = w
      BY <1>2, <3>1
    <3>2. CASE v # w
      BY <3>2 DEF IInv, FramesOK
    <3>. QED BY <3>1, <3>2
  <2>. QED BY <2>1 DEF FramesOK
<1>7. \A v \in Worker, u \in Token : Executes(v, u)' <=> Executes(v, u)
  BY <1>1 DEF Executes
<1>8. CountsOK' /\ FoundOK'
  BY <1>3, <1>7, Quiet
<1>. QED BY <1>4, <1>5, <1>6, <1>8 DEF IInv

LEMMA Submitting ==
    ASSUME IInv, NEW r \in Task, NEW t \in Token, Submit(r, t)
    PROVE  IInv'
<1>1. /\ task[r] = "none" /\ task' = [task EXCEPT ![r] = "queued"]
      /\ token' = [token EXCEPT ![r] = t]
      /\ t \in Shared \/ \A s \in Task : task[s] # "none" => token[s] # t
      /\ UNCHANGED <<cancelled, registered, cancels, sending, signals, pc, job, frames>>
  BY DEF Submit, tokens
<1>2. /\ task \in [Task -> {"none", "queued", "pending", "running", "settled"}]
      /\ token \in [Task -> Token] /\ job \in [Worker -> Task]
  BY DEF IInv, Types
<1>3. \A s \in Task \ {r} : task'[s] = task[s] /\ token'[s] = token[s]
  BY <1>1, <1>2
<1>4. \A v \in Worker : pc[v] # "waiting" =>
          job[v] # r /\ task'[job[v]] = task[job[v]] /\ token'[job[v]] = token[job[v]]
  <2>1. \A v \in Worker : pc[v] # "waiting" => job[v] # r
    BY <1>1 DEF IInv, JobsOK
  <2>. QED BY <1>2, <1>3, <2>1
<1>5. Types'
  <2>1. /\ task' \in [Task -> {"none", "queued", "pending", "running", "settled"}]
        /\ token' \in [Task -> Token]
    BY <1>1, <1>2
  <2>. QED BY <1>1, <2>1 DEF IInv, Types
<1>6. JobsOK'
  BY <1>1, <1>4 DEF IInv, JobsOK
<1>7. TokensOK'
  <2>1. token'[r] = t
    BY <1>1, <1>2
  <2>2. ASSUME NEW q \in Task, NEW s \in Task, q # s, task'[q] # "none", task'[s] # "none",
               token'[q] = token'[s]
        PROVE  token'[q] \in Shared
    <3>1. CASE q # r /\ s # r
      BY <1>3, <2>2, <3>1 DEF IInv, TokensOK
    <3>2. CASE q = r
      BY <1>1, <1>3, <2>1, <2>2, <3>2
    <3>3. CASE s = r
      BY <1>1, <1>3, <2>1, <2>2, <3>3
    <3>. QED BY <3>1, <3>2, <3>3
  <2>. QED BY <2>2 DEF TokensOK
<1>8. FramesOK'
  <2>1. ASSUME NEW v \in Worker
        PROVE  /\ \A i \in DOMAIN frames[v] : frames[v][i].token = token'[job[v]]
               /\ Len(frames[v]) > 1 => token'[job[v]] \in Nesting
    <3>1. CASE pc[v] = "goal"
      BY <1>4, <3>1 DEF IInv, FramesOK
    <3>2. CASE pc[v] # "goal"
      BY <3>2, Idle
    <3>. QED BY <3>1, <3>2
  <2>. QED BY <1>1, <2>1 DEF FramesOK
<1>9. \A v \in Worker, u \in Token : Executes(v, u)' <=> Executes(v, u)
  BY <1>1, <1>4 DEF Executes
<1>10. CountsOK' /\ FoundOK'
  BY <1>1, <1>9, Quiet
<1>. QED BY <1>5, <1>6, <1>7, <1>8, <1>10 DEF IInv

\* What a thread is registered never exceeds the depth of its stack.
LEMMA Bounded == ASSUME IInv, NEW t \in Token PROVE registered[t] \in [Worker -> 0..MaxDepth]
<1>1. registered[t] \in [Worker -> Nat] /\ MaxDepth \in Nat \ {0}
  BY BoundsAssumption DEF IInv, Types
<1>2. ASSUME NEW v \in Worker PROVE registered[t][v] <= MaxDepth
  <2>1. CASE Kind[t] = "counted"
    <3>1. Len(frames[v]) <= MaxDepth /\ registered[t][v] \in {0, Len(frames[v])}
      BY <2>1 DEF IInv, Types, CountsOK
    <3>. QED BY <1>1, <3>1
  <2>2. CASE Kind[t] # "counted"
    <3>1. registered[t][v] \in {0, 1}
      BY <2>2 DEF IInv, CountsOK
    <3>. QED BY <1>1, <3>1
  <2>. QED BY <2>1, <2>2
<1>. QED BY <1>1, <1>2

LEMMA Cancelling ==
    ASSUME IInv, NEW c \in Client,
           (\E t \in Token : Cancel(c, t)) \/ (\E w \in Worker : Send(c, w))
    PROVE  IInv'
<1>1. /\ sending \in [Client -> [token : Token, left : [Worker -> 0 .. MaxDepth]]]
      /\ signals \in [Worker -> [Token -> Nat]] /\ cancelled \subseteq Token
      /\ cancels \in 0..MaxCancels /\ MaxDepth \in Nat /\ MaxCancels \in Nat
  BY BoundsAssumption DEF IInv, Types
<1>2. UNCHANGED <<registered, task, token, pc, job, frames>>
  BY DEF Cancel, Send, pool
<1>3. /\ cancelled' \subseteq Token /\ cancels' \in 0..MaxCancels
      /\ signals' \in [Worker -> [Token -> Nat]]
      /\ sending' \in [Client -> [token : Token, left : [Worker -> 0 .. MaxDepth]]]
  <2>1. ASSUME NEW t \in Token, Cancel(c, t)
        PROVE  /\ cancelled' \subseteq Token /\ cancels' \in 0..MaxCancels
               /\ signals' \in [Worker -> [Token -> Nat]]
               /\ sending' \in [Client -> [token : Token, left : [Worker -> 0 .. MaxDepth]]]
    <3>1. [token |-> t, left |-> registered[t]] \in [token : Token, left : [Worker -> 0 .. MaxDepth]]
      BY Bounded
    <3>. QED BY <1>1, <2>1, <3>1 DEF Cancel
  <2>2. ASSUME NEW w \in Worker, Send(c, w)
        PROVE  /\ cancelled' \subseteq Token /\ cancels' \in 0..MaxCancels
               /\ signals' \in [Worker -> [Token -> Nat]]
               /\ sending' \in [Client -> [token : Token, left : [Worker -> 0 .. MaxDepth]]]
    <3>. DEFINE s == sending[c]
                l == [s.left EXCEPT ![w] = s.left[w] - 1]
                g == [signals[w] EXCEPT ![s.token] = signals[w][s.token] + 1]
    <3>1. s.token \in Token /\ s.left \in [Worker -> 0..MaxDepth] /\ s.left[w] > 0
      BY <1>1, <2>2 DEF Send
    <3>2. l \in [Worker -> 0..MaxDepth] /\ g \in [Token -> Nat]
      BY <1>1, <3>1
    <3>3. /\ sending' = [sending EXCEPT ![c] = [s EXCEPT !.left = l]]
          /\ signals' = [signals EXCEPT ![w] = g]
          /\ UNCHANGED <<cancelled, cancels>>
      BY <2>2 DEF Send
    <3>. HIDE DEF l, g
    <3>. QED BY <1>1, <3>2, <3>3
  <2>. QED BY <2>1, <2>2
<1>4. Types' /\ JobsOK' /\ TokensOK' /\ FramesOK'
  BY <1>2, <1>3 DEF IInv, Types, JobsOK, TokensOK, FramesOK
<1>5. CountsOK' /\ FoundOK'
  BY <1>2, Quiet DEF Executes
<1>. QED BY <1>4, <1>5 DEF IInv

LEMMA Dequeuing ==
    ASSUME IInv, NEW w \in Worker, NEW r \in Task, Dequeue(w, r)
    PROVE  IInv'
<1>1. /\ pc[w] = "waiting" /\ task[r] = "queued" /\ pc' = [pc EXCEPT ![w] = "dequeued"]
      /\ task' = [task EXCEPT ![r] = "pending"] /\ job' = [job EXCEPT ![w] = r]
      /\ UNCHANGED <<tokens, signals, token, frames>>
  BY DEF Dequeue, GoTo
<1>2. /\ task \in [Task -> {"none", "queued", "pending", "running", "settled"}]
      /\ job \in [Worker -> Task] /\ pc \in [Worker -> PC]
      /\ signals \in [Worker -> [Token -> Nat]]
  BY DEF IInv, Types, PC
<1>3. /\ job' \in [Worker -> Task] /\ \A v \in Worker \ {w} : job'[v] = job[v]
      /\ task' \in [Task -> {"none", "queued", "pending", "running", "settled"}]
      /\ \A q \in Task : task[q] = "none" => task'[q] = "none"
  BY <1>1, <1>2
<1>4. JobsOK'
  <2>1. job'[w] = r /\ task'[r] = "pending"
    BY <1>1, <1>2
  <2>2. ASSUME NEW v \in Worker \ {w}, pc'[v] # "waiting"
        PROVE  /\ job'[v] = job[v] /\ job[v] # r /\ pc[v] # "waiting"
               /\ task'[job[v]] = task[job[v]]
    BY <1>1, <1>2, <2>2 DEF IInv, JobsOK
  <2>3. ASSUME NEW v \in Worker, pc'[v] # "waiting"
        PROVE  /\ task'[job'[v]] \in {"pending", "running"}
               /\ \A u \in Worker : pc'[u] # "waiting" /\ job'[u] = job'[v] => u = v
    <3>1. CASE v = w
      BY <2>1, <2>2, <3>1
    <3>2. CASE v # w
      BY <2>1, <2>2, <2>3, <3>2 DEF IInv, JobsOK
    <3>. QED BY <3>1, <3>2
  <2>. QED BY <2>3 DEF JobsOK
<1>5. "dequeued" \in PC \ {"goal"} /\ pc[w] # "goal"
  BY <1>1 DEF PC
<1>. QED BY <1>1, <1>2, <1>3, <1>4, <1>5, PoolStep

LEMMA Claiming == ASSUME IInv, NEW w \in Worker, Claim(w) PROVE IInv'
<1>1. /\ pc[w] = "dequeued" /\ pc' = [pc EXCEPT ![w] = "starting"]
      /\ task' = [task EXCEPT ![job[w]] = "running"]
      /\ UNCHANGED <<tokens, signals, token, job, frames>>
  BY DEF Claim, GoTo
<1>2. /\ task \in [Task -> {"none", "queued", "pending", "running", "settled"}]
      /\ job \in [Worker -> Task] /\ pc \in [Worker -> PC]
      /\ signals \in [Worker -> [Token -> Nat]] /\ task[job[w]] \in {"pending", "running"}
  BY <1>1 DEF IInv, Types, JobsOK, PC
<1>3. /\ job' \in [Worker -> Task] /\ \A v \in Worker \ {w} : job'[v] = job[v]
      /\ task' \in [Task -> {"none", "queued", "pending", "running", "settled"}]
      /\ \A q \in Task : task[q] = "none" => task'[q] = "none"
  BY <1>1, <1>2
<1>4. JobsOK'
  <2>1. \A v \in Worker : pc'[v] # "waiting" => pc[v] # "waiting"
    BY <1>1, <1>2
  <2>2. \A q \in Task : task[q] \in {"pending", "running"} => task'[q] \in {"pending", "running"}
    BY <1>1, <1>2
  <2>. QED BY <1>1, <1>2, <2>1, <2>2 DEF IInv, JobsOK
<1>5. "starting" \in PC \ {"goal"} /\ pc[w] # "goal"
  BY <1>1 DEF PC
<1>. QED BY <1>1, <1>2, <1>3, <1>4, <1>5, PoolStep

LEMMA Storing == ASSUME IInv, NEW w \in Worker, Store(w) PROVE IInv'
<1>1. /\ pc[w] = "storing" /\ pc' = [pc EXCEPT ![w] = "waiting"]
      /\ task' = [task EXCEPT ![job[w]] = "settled"]
      /\ UNCHANGED <<tokens, signals, token, job, frames>>
  BY DEF Store, GoTo
<1>2. /\ task \in [Task -> {"none", "queued", "pending", "running", "settled"}]
      /\ job \in [Worker -> Task] /\ pc \in [Worker -> PC]
      /\ signals \in [Worker -> [Token -> Nat]] /\ task[job[w]] \in {"pending", "running"}
  BY <1>1 DEF IInv, Types, JobsOK, PC
<1>3. /\ job' \in [Worker -> Task] /\ \A v \in Worker \ {w} : job'[v] = job[v]
      /\ task' \in [Task -> {"none", "queued", "pending", "running", "settled"}]
      /\ \A q \in Task : task[q] = "none" => task'[q] = "none"
  BY <1>1, <1>2
<1>4. JobsOK'
  <2>1. \A v \in Worker : pc'[v] # "waiting" =>
            pc[v] # "waiting" /\ job[v] # job[w] /\ task'[job[v]] = task[job[v]]
    BY <1>1, <1>2 DEF IInv, JobsOK
  <2>. QED BY <1>1, <2>1 DEF IInv, JobsOK
<1>5. "waiting" \in PC \ {"goal"} /\ pc[w] # "goal"
  BY <1>1 DEF PC
<1>. QED BY <1>1, <1>2, <1>3, <1>4, <1>5, PoolStep

-----------------------------------------------------------------------------
(* Steps of a worker at an execution.                                      *)

LEMMA Beginning == ASSUME IInv, NEW w \in Worker, Begin(w) PROVE IInv'
<1>1. /\ pc[w] = "starting" /\ Enter(w, token[job[w]]) /\ pc' = [pc EXCEPT ![w] = "goal"]
      /\ UNCHANGED <<cancelled, cancels, sending, signals, task, token, job>>
  BY DEF Begin, GoTo
<1>2. Len(frames[w]) < MaxDepth
  BY <1>1, Idle, BoundsAssumption
<1>. QED BY <1>1, <1>2, Entering

LEMMA Nested == ASSUME IInv, NEW w \in Worker, BeginNested(w) PROVE IInv'
<1>1. /\ pc[w] = "goal" /\ Len(frames[w]) < MaxDepth
      /\ Top(w).token \in Nesting /\ Enter(w, Top(w).token)
      /\ UNCHANGED <<cancelled, cancels, sending, signals, task, token, job, pc>>
  BY DEF BeginNested
<1>2. Top(w).token = token[job[w]]
  BY <1>1, AtWork
<1>3. pc' = [pc EXCEPT ![w] = "goal"]
  BY <1>1 DEF IInv, Types
<1>. QED BY <1>1, <1>2, <1>3, Entering

LEMMA SettingUp == ASSUME IInv, NEW w \in Worker, SetUp(w) PROVE IInv'
<1>1. /\ pc[w] = "goal" /\ Top(w).token = token[job[w]] /\ "entered" \in Phase
  BY AtWork DEF SetUp, Phase
<1>2. CASE Kind[Top(w).token] = "thread" /\ Top(w).token \in cancelled
  BY <1>1, <1>2, Throwing DEF SetUp
<1>3. CASE ~(Kind[Top(w).token] = "thread" /\ Top(w).token \in cancelled)
  BY <1>1, <1>3, Turning DEF SetUp
<1>. QED BY <1>2, <1>3

LEMMA Working ==
    ASSUME IInv, NEW w \in Worker, Check(w) \/ NextStep(w) \/ Finish(w) \/ Fail(w)
    PROVE  IInv'
<1>1. /\ pc[w] = "goal" /\ {"entered", "working", "failing"} \subseteq Phase
      /\ UNCHANGED signals /\ signals' \in [Worker -> [Token -> Nat]]
  BY DEF Check, NextStep, Finish, Fail, IInv, Types, Phase
<1>2. CASE Check(w)
  <2>1. CASE Top(w).token \in cancelled
    BY <1>1, <1>2, <2>1, Ending DEF Check
  <2>2. CASE Top(w).token \notin cancelled
    BY <1>1, <1>2, <2>2, Turning DEF Check
  <2>. QED BY <2>1, <2>2
<1>3. CASE NextStep(w)
  BY <1>1, <1>3, Turning DEF NextStep
<1>4. CASE Finish(w)
  <2>1. (IF Kind[Top(w).token] = "thread" THEN "working" ELSE "entered") \in Phase
    BY <1>1
  <2>. QED BY <1>1, <1>4, <2>1, Ending DEF Finish
<1>5. CASE Fail(w)
  BY <1>1, <1>5, Ending DEF Fail
<1>. QED BY <1>2, <1>3, <1>4, <1>5

LEMMA Interrupting == ASSUME IInv, NEW w \in Worker, NEW t \in Token, Interrupt(w, t) PROVE IInv'
<1>1. /\ signals \in [Worker -> [Token -> Nat]] /\ signals[w][t] > 0
      /\ signals' = [signals EXCEPT ![w] = [signals[w] EXCEPT ![t] = signals[w][t] - 1]]
  BY DEF Interrupt, IInv, Types
<1>2. signals' \in [Worker -> [Token -> Nat]]
  <2>. DEFINE g == [signals[w] EXCEPT ![t] = signals[w][t] - 1]
  <2>1. g \in [Token -> Nat]
    BY <1>1
  <2>. HIDE DEF g
  <2>. QED BY <1>1, <2>1 DEF g
<1>3. CASE pc[w] = "goal"
  <2>1. End(w, "failing") /\ "failing" \in Phase
    BY <1>3 DEF Interrupt, Phase
  <2>. QED BY <1>2, <1>3, <2>1, Ending
<1>4. CASE pc[w] # "goal"
  <2>1. /\ UNCHANGED <<tokens, task, token, job, frames>>
        /\ \/ pc' = [pc EXCEPT ![w] = "waiting"]
           \/ pc[w] \in {"starting", "storing"} /\ pc' = [pc EXCEPT ![w] = "storing"]
    BY <1>4 DEF Interrupt, GoTo
  <2>2. /\ task \in [Task -> {"none", "queued", "pending", "running", "settled"}]
        /\ job \in [Worker -> Task] /\ pc \in [Worker -> PC]
    BY DEF IInv, Types, PC
  <2>3. PICK p \in {"waiting", "storing"} :
            pc' = [pc EXCEPT ![w] = p] /\ (p = "storing" => pc[w] # "waiting")
    BY <2>1
  <2>4. p \in PC \ {"goal"}
    BY DEF PC
  <2>5. JobsOK'
    <3>1. \A v \in Worker : pc'[v] # "waiting" => pc[v] # "waiting"
      BY <2>2, <2>3
    <3>. QED BY <2>1, <3>1 DEF IInv, JobsOK
  <2>. QED BY <1>2, <1>4, <2>1, <2>2, <2>3, <2>4, <2>5, PoolStep
<1>. QED BY <1>3, <1>4

-----------------------------------------------------------------------------
(* The invariant.                                                          *)

LEMMA Initially == Init => IInv
<1>. SUFFICES ASSUME Init PROVE IInv
  OBVIOUS
<1>1. (CHOOSE t \in Token : TRUE) \in Token /\ (CHOOSE r \in Task : TRUE) \in Task
  BY SomeAssumption
<1>2. Nothing \in [Worker -> Nat] /\ Nothing \in [Worker -> 0..MaxDepth]
  BY BoundsAssumption DEF Nothing
<1>. DEFINE T == CHOOSE t \in Token : TRUE
            R == CHOOSE r \in Task : TRUE
<1>3. /\ token = [r \in Task |-> T] /\ job = [w \in Worker |-> R]
      /\ sending = [c \in Client |-> [token |-> T, left |-> Nothing]]
  BY DEF Init
<1>4. T \in Token /\ R \in Task
  BY <1>1
<1>. HIDE DEF T, R
<1>5. <<>> \in Seq(Frame) /\ Len(<<>>) = 0 /\ DOMAIN <<>> = {}
  OBVIOUS
<1>6. \A w \in Worker : /\ frames[w] = <<>> /\ pc[w] = "waiting"
                        /\ \A t \in Token : registered[t][w] = 0
  BY DEF Init, Nothing
<1>7. /\ token \in [Task -> Token] /\ job \in [Worker -> Task]
      /\ sending \in [Client -> [token : Token, left : [Worker -> 0 .. MaxDepth]]]
  BY <1>2, <1>3, <1>4
<1>8. /\ registered \in [Token -> [Worker -> Nat]] /\ signals \in [Worker -> [Token -> Nat]]
      /\ frames \in [Worker -> Seq(Frame)] /\ cancels \in 0..MaxCancels
  BY <1>2, <1>5, BoundsAssumption DEF Init
<1>9. Types
  <2>1. \A w \in Worker : Len(frames[w]) <= MaxDepth
    BY <1>5, <1>6, BoundsAssumption
  <2>. QED BY <1>6, <1>7, <1>8, <2>1 DEF Types, Init
<1>10. JobsOK /\ TokensOK /\ FramesOK
  BY <1>5, <1>6 DEF Init, JobsOK, TokensOK, FramesOK
<1>11. CountsOK /\ FoundOK
  BY <1>6 DEF CountsOK, FoundOK, Executes
<1>. QED BY <1>9, <1>10, <1>11 DEF IInv

LEMMA Stuttering == ASSUME IInv, UNCHANGED vars PROVE IInv'
BY DEF vars, tokens, pool, IInv, Types, JobsOK, TokensOK, FramesOK, CountsOK, FoundOK, Executes

LEMMA Stepwise == IInv /\ [Next]_vars => IInv'
<1>. SUFFICES ASSUME IInv, [Next]_vars PROVE IInv'
  OBVIOUS
<1>1. CASE \E r \in Task, t \in Token : Submit(r, t)
  BY <1>1, Submitting
<1>2. CASE \E c \in Client, t \in Token : Cancel(c, t)
  BY <1>2, Cancelling
<1>3. CASE \E c \in Client, w \in Worker : Send(c, w)
  BY <1>3, Cancelling
<1>4. ASSUME NEW w \in Worker, NEW r \in Task, Dequeue(w, r) PROVE IInv'
  BY <1>4, Dequeuing
<1>5. ASSUME NEW w \in Worker, Loop(w) PROVE IInv'
  BY <1>5, Claiming, Beginning, SettingUp, Working, Storing DEF Loop
<1>6. ASSUME NEW w \in Worker, Handle(w) PROVE IInv'
  BY <1>6, Interrupting DEF Handle
<1>7. ASSUME NEW w \in Worker, BeginNested(w) \/ NextStep(w) \/ Finish(w) PROVE IInv'
  BY <1>7, Nested, Working
<1>8. CASE UNCHANGED vars
  BY <1>8, Stuttering
<1>. QED BY <1>1, <1>2, <1>3, <1>4, <1>5, <1>6, <1>7, <1>8 DEF Next

LEMMA Invariance == Spec => []IInv
BY Initially, Stepwise, PTL DEF Spec

\* The types of tokens, signals, tasks and stacks: a worker runs executions in the
\* goal of its task and nowhere else.
THEOREM Typing == Spec => []TypeOK
<1>1. ASSUME IInv PROVE TypeOK
  <2>1. \A t \in Token : registered[t] \in [Worker -> 0..MaxDepth]
    BY Bounded, <1>1
  <2>2. registered \in [Token -> [Worker -> 0..MaxDepth]]
    BY <1>1, <2>1 DEF IInv, Types
  <2>. QED BY <1>1, <2>2 DEF IInv, Types, TypeOK
<1>. QED BY Invariance, <1>1, PTL

\* Graphs and plan graphs take their registrations back, however they end: a thread is
\* registered only while it executes with the token.
THEOREM Registered == Spec => []RegistrationsEnd
<1>1. ASSUME IInv PROVE RegistrationsEnd
  <2>1. ASSUME NEW t \in Token, NEW w \in Worker, Kind[t] # "thread", registered[t][w] > 0
        PROVE  Inside(w, t)
    <3>1. Kind[t] = "counted" \/ Kind[t] = "single"
      BY <2>1, KindAssumption DEF Keeping
    <3>2. Executes(w, t)
      BY <1>1, <2>1, <3>1 DEF IInv, CountsOK
    <3>. QED BY <1>1, <3>2, InsideIs
  <2>. QED BY <2>1 DEF RegistrationsEnd
<1>. QED BY Invariance, <1>1, PTL

\* A cancellation finds all executions with its token, unless completions nest on a thread
\* or several plan graphs have the token.
THEOREM CancelsReach ==
    ASSUME \A t \in Token : /\ Kind[t] = "thread" => t \notin Nesting
                            /\ Kind[t] = "single" => t \notin Shared
    PROVE  Spec => CancelFindsItsRuns
<1>1. \A t \in Token : Sole(t)
  BY KindAssumption DEF Sole, Keeping
<1>2. ASSUME IInv, NEW c \in Client, NEW t \in Token, Cancel(c, t), NEW w \in Worker, Inside(w, t)
      PROVE  sending'[c].left[w] > 0
  <2>1. Executes(w, t)
    BY <1>2, InsideIs
  <2>2. registered[t][w] > 0
    BY <1>1, <1>2, <2>1 DEF IInv, FoundOK
  <2>3. sending'[c] = [token |-> t, left |-> registered[t]]
    BY <1>2 DEF Cancel, IInv, Types
  <2>. QED BY <2>2, <2>3
<1>3. IInv /\ [Next]_vars =>
          [\A c \in Client, t \in Token : Cancel(c, t) =>
              \A w \in Worker : Inside(w, t) => sending'[c].left[w] > 0]_vars
  BY <1>2
<1>. QED BY Invariance, <1>3, PTL DEF Spec, CancelFindsItsRuns
=============================================================================
