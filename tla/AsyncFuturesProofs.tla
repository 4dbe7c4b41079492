------------------------- MODULE AsyncFuturesProofs -------------------------
(* Theorems about AsyncFutures for every pool, backlog and set of threads. *)
EXTENDS AsyncFutures, SequenceTheorems, TLAPS

\* The empty phase, from which the others are made, is a phase.
LEMMA BlankTyped == Blank \in Phase
  BY DEF Blank, Phase, Outcome, GoalOutcome

\* Each constructor makes a stack of well-formed phases.
LEMMA EnqueueTyped ==
    ASSUME NEW fs \in SUBSET Future PROVE Enqueue(fs) \in Seq(Phase)
<1>1. [Blank EXCEPT !.op = "enqueue", !.futs = fs] \in Phase
  BY BlankTyped DEF Phase
<1> QED BY <1>1 DEF Enqueue

\* The callbacks a settled Future owes (run_completion_callbacks/2).
LEMMA NotifyTyped ==
    ASSUME NEW cs \in SUBSET Callback, NEW o \in Outcome, NEW fr \in Future \cup {Nobody}
    PROVE  Notify(cs, o, fr) \in Seq(Phase)
<1>1. [Blank EXCEPT !.op = "notify", !.cbs = cs, !.out = o, !.frame = fr] \in Phase
  BY BlankTyped DEF Phase
<1> QED BY <1>1 DEF Notify

\* The signal a cancellation owes the worker of its Future.
LEMMA SignalTyped ==
    ASSUME NEW f \in Future, NEW w \in Worker \cup {Nobody}, NEW fr \in Future \cup {Nobody}
    PROVE  Signal(f, w, fr) \in Seq(Phase)
<1>1. [Blank EXCEPT !.op = "signal", !.futs = {f}, !.wrk = w, !.frame = fr] \in Phase
  BY BlankTyped DEF Phase
<1> QED BY <1>1 DEF Signal

\* The children a cancellation has to follow.
LEMMA CancelAllTyped ==
    ASSUME NEW fs \in SUBSET Future, NEW fr \in Future \cup {Nobody}
    PROVE  CancelAll(fs, fr) \in Seq(Phase)
<1>1. [Blank EXCEPT !.op = "cancel", !.futs = fs, !.frame = fr] \in Phase
  BY BlankTyped DEF Phase
<1> QED BY <1>1 DEF CancelAll

\* The removal a destroy ends with.
LEMMA EraseTyped == ASSUME NEW f \in Future PROVE Erase(f) \in Seq(Phase)
<1>1. [Blank EXCEPT !.op = "erase", !.futs = {f}] \in Phase
  BY BlankTyped DEF Phase
<1> QED BY <1>1 DEF Erase

\* What is left of a stack once an element of its first phase is done.
LEMMA HeadTyped ==
    ASSUME NEW s \in Seq(Phase), s # <<>>
    PROVE  s[1] \in Phase /\ Tail(s) \in Seq(Phase)
  OBVIOUS

\* One Future of the first phase is done.
LEMMA WithoutFutureTyped ==
    ASSUME NEW s \in Seq(Phase), s # <<>>, NEW f \in Future
    PROVE  WithoutFuture(s, f) \in Seq(Phase)
<1>1. s[1] \in Phase /\ Tail(s) \in Seq(Phase)
  BY HeadTyped
<1>2. [s[1] EXCEPT !.futs = @ \ {f}] \in Phase
  BY <1>1 DEF Phase
<1> QED BY <1>1, <1>2 DEF WithoutFuture

\* One callback of the first phase is done.
LEMMA WithoutCallbackTyped ==
    ASSUME NEW s \in Seq(Phase), s # <<>>, NEW c \in Callback
    PROVE  WithoutCallback(s, c) \in Seq(Phase)
<1>1. s[1] \in Phase /\ Tail(s) \in Seq(Phase)
  BY HeadTyped
<1>2. [s[1] EXCEPT !.cbs = @ \ {c}] \in Phase
  BY <1>1 DEF Phase
<1> QED BY <1>1, <1>2 DEF WithoutCallback

FactsOK ==
    /\ state \in [Future -> State]
    /\ outcome \in [Future -> Outcome \cup {"open"}]
    /\ thread \in [Future -> Worker \cup {Nobody}]
    /\ watchers \in [Future -> SUBSET Callback]
    /\ conts \in [Future -> SUBSET Future]
    /\ kids \in [Future -> SUBSET Future]
    /\ todo \in [Thread -> Seq(Phase)]

\* The two transitions of a Future keep the facts well typed.
LEMMA CompleteTyped ==
    ASSUME FactsOK, NEW t \in Thread, NEW f \in Future, NEW o \in Outcome,
           NEW rest \in Seq(Phase), Complete(t, f, o, rest)
    PROVE  FactsOK'
<1>1. TerminalHandlers(f, o) \in Seq(Phase)
  <2>1. watchers[f] \in SUBSET Callback /\ conts[f] \in SUBSET Future
    BY DEF FactsOK
  <2>2. Notify(watchers[f], o, Nobody) \in Seq(Phase)
    BY <2>1, NotifyTyped
  <2>3. Enqueue(conts[f]) \in Seq(Phase)
    BY <2>1, EnqueueTyped
  <2> QED BY <2>2, <2>3 DEF TerminalHandlers
<1>2. TerminalHandlers(f, o) \o rest \in Seq(Phase)
  BY <1>1
<1>3. CASE MayComplete(f)
  <2>1. /\ state' = [state EXCEPT ![f] = "completed"]
        /\ outcome' = [outcome EXCEPT ![f] = o]
        /\ thread' = [thread EXCEPT ![f] = Nobody]
        /\ todo' = [todo EXCEPT ![t] = TerminalHandlers(f, o) \o rest]
        /\ DropHandlers(f)
    BY <1>3 DEF Complete
  <2> QED BY <1>2, <2>1 DEF FactsOK, DropHandlers, State, Terminal
<1>4. CASE ~MayComplete(f)
  BY <1>4 DEF Complete, FactsOK
<1> QED BY <1>3, <1>4

\* Cancelling: future_cancel_transition/5 and what it owes.
LEMMA CancelTyped ==
    ASSUME FactsOK, NEW t \in Thread, NEW f \in Future, NEW fr \in Future \cup {Nobody},
           NEW rest \in Seq(Phase), CancelTransition(t, f, fr, rest),
           UNCHANGED thread
    PROVE  FactsOK'
<1>1. CancelWork(f, fr) \in Seq(Phase)
  <2>1. "cancelled" \in Outcome /\ thread[f] \in Worker \cup {Nobody}
        /\ watchers[f] \in SUBSET Callback /\ kids[f] \in SUBSET Future
    BY DEF FactsOK, Outcome
  <2>2. Signal(f, thread[f], fr) \in Seq(Phase)
    BY <2>1, SignalTyped
  <2>3. Notify(watchers[f], "cancelled", fr) \in Seq(Phase)
    BY <2>1, NotifyTyped
  <2>4. CancelAll(kids[f], fr) \in Seq(Phase)
    BY <2>1, CancelAllTyped
  <2> QED BY <2>2, <2>3, <2>4 DEF CancelWork
<1>2. CancelWork(f, fr) \o rest \in Seq(Phase)
  BY <1>1
<1> QED BY <1>2 DEF CancelTransition, FactsOK, DropHandlers, State, Terminal, Outcome

\* A new Future, with its parent's link to it.
LEMMA CreateTyped ==
    ASSUME TypeOK, NEW p \in Future \cup {Nobody}, NEW link \in BOOLEAN,
           NEW how \in {"task", "deferred", "continuation"}, Create(p, how, link)
    PROVE  /\ created + 1 \in Future /\ created' \in 0..MaxFutures
           /\ state' \in [Future -> State]
           /\ origin' \in [Future -> {"none", "task", "deferred", "continuation"}]
           /\ parent' \in [Future -> Future \cup {Nobody}]
           /\ kids' \in [Future -> SUBSET Future]
<1>1. created + 1 \in Future /\ created' \in 0..MaxFutures
  BY BoundAssumption DEF TypeOK, Create, Future
<1>2. state' \in [Future -> State]
  BY <1>1 DEF TypeOK, Create, State, Live
<1>3. /\ origin' \in [Future -> {"none", "task", "deferred", "continuation"}]
      /\ parent' \in [Future -> Future \cup {Nobody}]
  BY <1>1 DEF TypeOK, Create
<1>4. kids' \in [Future -> SUBSET Future]
  <2>1. CASE p # Nobody /\ link
    <3>1. p \in Future
      BY <2>1
    <3>2. kids' = [kids EXCEPT ![p] = @ \cup {created + 1}]
      BY <2>1 DEF Create
    <3> QED BY <1>1, <3>1, <3>2 DEF TypeOK
  <2>2. CASE ~(p # Nobody /\ link)
    BY <2>2 DEF TypeOK, Create
  <2> QED BY <2>1, <2>2
<1> QED BY <1>1, <1>2, <1>3, <1>4

\* An empty runtime is well typed.
LEMMA InitTyped == Init => Typed
<1> SUFFICES ASSUME Init PROVE Typed
  OBVIOUS
<1>1. TypeOK
  BY BoundAssumption DEF Init, TypeOK, State, GoalOutcome, Future, Nobody
<1>2. HeldOK /\ SettledOK
  BY DEF Init, HeldOK, SettledOK, Terminal
<1> QED BY <1>1, <1>2 DEF Typed

\* Every step, of whatever thread, keeps the types.
LEMMA StepTyped == Typed /\ [Next]_vars => TypeOK'
<1> SUFFICES ASSUME TypeOK, HeldOK, SettledOK, [Next]_vars PROVE TypeOK'
  BY DEF Typed
<1> USE DEF facts, pool, ghost
<1>0. FactsOK
  BY DEF TypeOK, FactsOK
<1>1. ASSUME NEW t \in Thread, Submit(t) PROVE TypeOK'
  <2>1. CurrentParent(t) \in Future \cup {Nobody}
    BY DEF CurrentParent, TypeOK
  <2>2. created + 1 \in Future
    BY <1>1, <2>1, CreateTyped DEF Submit
  <2>3. Enqueue({created + 1}) \in Seq(Phase)
    BY <2>2, EnqueueTyped
  <2> QED BY <1>1, <2>1, <2>3, CreateTyped DEF Submit, TypeOK
<1>2. ASSUME NEW t \in Thread, Deferred(t) PROVE TypeOK'
  <2>1. CurrentParent(t) \in Future \cup {Nobody}
    BY DEF CurrentParent, TypeOK
  <2> QED BY <1>2, <2>1, CreateTyped DEF Deferred, TypeOK
<1>3. ASSUME NEW t \in Thread, NEW f \in Future, NEW o \in GoalOutcome, Resolve(t, f, o)
      PROVE  TypeOK'
  <2>0. o \in Outcome /\ <<>> \in Seq(Phase)
    BY DEF Outcome
  <2>1. FactsOK'
    BY <1>0, <1>3, <2>0, CompleteTyped DEF Resolve
  <2> QED BY <1>3, <2>1 DEF Resolve, TypeOK, FactsOK
<1>4. ASSUME NEW t \in Thread, NEW f \in Future, NEW c \in Callback, OnComplete(t, f, c)
      PROVE  TypeOK'
  <2>1. CASE state[f] \in Terminal /\ todo' = [todo EXCEPT ![t] = Notify({c}, outcome[f], Nobody)]
    <3>1. Notify({c}, outcome[f], Nobody) \in Seq(Phase)
      <4>1. outcome[f] \in Outcome /\ {c} \in SUBSET Callback
        BY <2>1 DEF SettledOK
      <4> QED BY <4>1, NotifyTyped
    <3> QED BY <1>4, <2>1, <3>1 DEF OnComplete, TypeOK, Live, Terminal
  <2>2. CASE state[f] \in Live
    BY <1>4, <2>2 DEF OnComplete, TypeOK, Live, Terminal
  <2> QED BY <1>4, <2>1, <2>2 DEF OnComplete
<1>5. ASSUME NEW t \in Thread, NEW f \in Future, Then(t, f) PROVE TypeOK'
  <2> DEFINE n == created + 1
  <2>1. /\ n \in Future /\ created' \in 0..MaxFutures
        /\ state' \in [Future -> State]
        /\ origin' \in [Future -> {"none", "task", "deferred", "continuation"}]
        /\ parent' \in [Future -> Future \cup {Nobody}]
        /\ kids' \in [Future -> SUBSET Future]
    <3>1. (state[f] \in Live) \in BOOLEAN /\ f \in Future \cup {Nobody}
      OBVIOUS
    <3> QED BY <1>5, <3>1, CreateTyped DEF Then
  <2>2. Enqueue({n}) \in Seq(Phase)
    BY <2>1, EnqueueTyped
  <2>3. CancelAll({n}, Nobody) \in Seq(Phase)
    BY <2>1, CancelAllTyped
  <2>4. todo' \in [Thread -> Seq(Phase)] /\ conts' \in [Future -> SUBSET Future]
    <3>1. CASE state[f] \in Live
      <4>1. conts' = [conts EXCEPT ![f] = @ \cup {n}] /\ UNCHANGED todo
        BY <1>5, <3>1 DEF Then, Live
      <4>2. conts[f] \cup {n} \in SUBSET Future
        BY <2>1 DEF TypeOK
      <4> HIDE DEF n
      <4> QED BY <4>1, <4>2 DEF TypeOK
    <3>2. CASE state[f] = "completed"
      BY <1>5, <2>2, <3>2 DEF Then, TypeOK, Live
    <3>3. CASE state[f] = "cancelled"
      BY <1>5, <2>3, <3>3 DEF Then, TypeOK, Live
    <3> QED BY <1>5, <3>1, <3>2, <3>3 DEF Then
  <2> QED BY <1>5, <2>1, <2>4 DEF Then, TypeOK
<1>6. ASSUME NEW t \in Thread, NEW f \in Future, Cancel(t, f) PROVE TypeOK'
  <2>1. FactsOK'
    <3>1. <<>> \in Seq(Phase) /\ Nobody \in Future \cup {Nobody}
      OBVIOUS
    <3> QED BY <1>0, <1>6, <3>1, CancelTyped DEF Cancel
  <2> QED BY <1>6, <2>1 DEF Cancel, TypeOK, FactsOK
<1>7. ASSUME NEW t \in Thread, NEW f \in Future, Destroy(t, f) PROVE TypeOK'
  <2>1. CancelAll({f}, Nobody) \in Seq(Phase)
    BY CancelAllTyped
  <2>2. Erase(f) \in Seq(Phase)
    BY EraseTyped
  <2>3. (IF state[f] \in Live THEN CancelAll({f}, Nobody) ELSE <<>>) \o Erase(f) \in Seq(Phase)
    BY <2>1, <2>2
  <2> QED BY <1>7, <2>3 DEF Destroy, TypeOK
<1>8. ASSUME NEW t \in Thread, NEW f \in Future, Await(t, f) PROVE TypeOK'
  BY <1>8 DEF Await, TypeOK
<1>9. ASSUME NEW t \in Thread, AwaitReturn(t) \/ AwaitTimeout(t) PROVE TypeOK'
  BY <1>9 DEF AwaitReturn, AwaitTimeout, TypeOK
<1>10. ASSUME NEW t \in Thread, NEW f \in Future, EnqueueTask(t, f) PROVE TypeOK'
  <2>1. WithoutFuture(todo[t], f) \in Seq(Phase)
    <3>1. todo[t] \in Seq(Phase) /\ todo[t] # <<>>
      BY <1>10 DEF EnqueueTask, Doing, TypeOK
    <3> QED BY <3>1, WithoutFutureTyped
  <2>2. queue' \in Seq(Future) /\ Len(queue') <= Backlog
    BY <1>10, BoundAssumption DEF EnqueueTask, QueueFull, TypeOK
  <2> QED BY <1>10, <2>1, <2>2 DEF EnqueueTask, TypeOK
<1>11. ASSUME NEW t \in Thread, NEW f \in Future, RejectTask(t, f) PROVE TypeOK'
  <2>1. WithoutFuture(todo[t], f) \in Seq(Phase)
    <3>1. todo[t] \in Seq(Phase) /\ todo[t] # <<>>
      BY <1>11 DEF RejectTask, Doing, TypeOK
    <3> QED BY <3>1, WithoutFutureTyped
  <2>2. FactsOK'
    BY <1>0, <1>11, <2>1, CompleteTyped DEF RejectTask, Outcome
  <2> QED BY <1>11, <2>2 DEF RejectTask, TypeOK, FactsOK
<1>12. ASSUME NEW t \in Thread, NEW f \in Future, SignalWorker(t, f) PROVE TypeOK'
  <2>1. todo[t] \in Seq(Phase) /\ todo[t] # <<>> /\ Tail(todo[t]) \in Seq(Phase)
    BY <1>12 DEF SignalWorker, Doing, TypeOK
  <2> QED BY <1>12, <2>1 DEF SignalWorker, TypeOK
<1>13. ASSUME NEW t \in Thread, NEW c \in Callback, RunCallback(t, c) PROVE TypeOK'
  <2>1. todo[t] \in Seq(Phase) /\ todo[t] # <<>>
    BY <1>13 DEF RunCallback, Doing, TypeOK
  <2>2. WithoutCallback(todo[t], c) \in Seq(Phase) /\ todo[t][1] \in Phase
    BY <2>1, HeadTyped, WithoutCallbackTyped
  <2>3. todo[t][1].out \in Outcome
    BY <2>2 DEF Phase
  <2> QED BY <1>13, <2>2, <2>3 DEF RunCallback, TypeOK
<1>14. ASSUME NEW t \in Thread, NEW f \in Future, CancelChild(t, f) PROVE TypeOK'
  <2>1. WithoutFuture(todo[t], f) \in Seq(Phase)
    <3>1. todo[t] \in Seq(Phase) /\ todo[t] # <<>>
      BY <1>14 DEF CancelChild, NextToCancel, Doing, TypeOK
    <3> QED BY <3>1, WithoutFutureTyped
  <2>2. FactsOK'
    BY <1>0, <1>14, <2>1, CancelTyped DEF CancelChild, FactsOK
  <2> QED BY <1>14, <2>2 DEF CancelChild, TypeOK, FactsOK
<1>15. ASSUME NEW t \in Thread, NEW f \in Future, EraseFuture(t, f) PROVE TypeOK'
  BY <1>15, HeadTyped DEF EraseFuture, Doing, TypeOK, State
<1>16. ASSUME NEW w \in Worker, Dequeue(w) PROVE TypeOK'
  <2>1. Head(queue) \in Future /\ Tail(queue) \in Seq(Future) /\ Len(Tail(queue)) <= Backlog
    BY <1>16, BoundAssumption DEF Dequeue, TypeOK
  <2> QED BY <1>16, <2>1 DEF Dequeue, TypeOK
<1>17. ASSUME NEW w \in Worker, Claim(w) PROVE TypeOK'
  <2>0. held[w] \in Future
    BY <1>17 DEF Claim, HeldOK
  <2>1. CASE Claimable(held[w])
    <3>1. /\ state' = [state EXCEPT ![held[w]] = "running"]
          /\ thread' = [thread EXCEPT ![held[w]] = w]
          /\ pc' = [pc EXCEPT ![w] = "claimed"]
          /\ UNCHANGED held
      BY <1>17, <2>1 DEF Claim
    <3>2. state' \in [Future -> State] /\ thread' \in [Future -> Worker \cup {Nobody}]
      BY <2>0, <3>1 DEF TypeOK, State, Live
    <3> QED BY <1>17, <3>1, <3>2 DEF Claim, TypeOK
  <2>2. CASE ~Claimable(held[w])
    BY <1>17, <2>2 DEF Claim, TypeOK
  <2> QED BY <2>1, <2>2
<1>18. ASSUME NEW w \in Worker, Setup(w) \/ Cleanup(w) PROVE TypeOK'
  <2>1. CASE Setup(w)
    BY <2>1 DEF Setup, TypeOK
  <2>2. CASE Cleanup(w)
    BY <2>2 DEF Cleanup, TypeOK
  <2> QED BY <1>18, <2>1, <2>2
<1>19. ASSUME NEW w \in Worker, Enter(w) PROVE TypeOK'
  <2>1. runs' \in [Future -> Nat]
    <3>1. held[w] \in Future
      BY <1>19 DEF Enter, HeldOK
    <3>2. runs[held[w]] + 1 \in Nat
      BY <3>1 DEF TypeOK
    <3> QED BY <1>19, <3>1, <3>2 DEF Enter, TypeOK
  <2> QED BY <1>19, <2>1 DEF Enter, TypeOK
<1>20. ASSUME NEW w \in Worker, NEW o \in GoalOutcome, GoalReturn(w, o) PROVE TypeOK'
  BY <1>20 DEF GoalReturn, TypeOK
<1>21. ASSUME NEW w \in Worker, Store(w) PROVE TypeOK'
  <2>1. held[w] \in Future
    BY <1>21 DEF Store, HeldOK
  <2>2. FactsOK'
    <3>1. result[w] \in Outcome /\ <<>> \in Seq(Phase) /\ w \in Thread
      BY DEF TypeOK, Outcome, Thread
    <3> QED BY <1>0, <1>21, <2>1, <3>1, CompleteTyped DEF Store
  <2> QED BY <1>21, <2>2 DEF Store, TypeOK, FactsOK, GoalOutcome
<1>22. ASSUME NEW w \in Worker, ReleaseWorker(w) PROVE TypeOK'
  BY <1>22 DEF ReleaseWorker, DropClaim, TypeOK
<1>23. ASSUME NEW w \in Worker, NEW f \in Future, StaleSignal(w, f) \/ CancelGoal(w, f)
       PROVE  TypeOK'
  <2>1. CASE StaleSignal(w, f)
    BY <2>1 DEF StaleSignal, Consume, TypeOK
  <2>2. CASE CancelGoal(w, f)
    BY <2>2 DEF CancelGoal, Consume, TypeOK, Thread
  <2> QED BY <1>23, <2>1, <2>2
<1>24. ASSUME NEW w \in Worker, NEW f \in Future, EscapeGoal(w, f) PROVE TypeOK'
  BY <1>24 DEF EscapeGoal, Consume, TypeOK, GoalOutcome
<1>25. ASSUME NEW w \in Worker, NEW f \in Future, InterruptElement(w, f) PROVE TypeOK'
  <2>1. w \in Thread /\ todo[w] \in Seq(Phase) /\ todo[w] # <<>>
    BY <1>25 DEF InterruptElement, NextToCancel, Doing, TypeOK, Thread
  <2>2. /\ todo[w][1].cbs \in SUBSET Callback
        /\ \A c \in Callback : WithoutCallback(todo[w], c) \in Seq(Phase)
        /\ \A c \in Future : WithoutFuture(todo[w], c) \in Seq(Phase)
    BY <2>1, HeadTyped, WithoutFutureTyped, WithoutCallbackTyped DEF Phase
  <2>3. todo' \in [Thread -> Seq(Phase)] /\ lost' \in SUBSET (Future \cup Callback)
    <3>1. CASE UNCHANGED <<todo, lost>>
      BY <3>1 DEF TypeOK
    <3>2. ASSUME NEW c \in todo[w][1].cbs,
                 todo' = [todo EXCEPT ![w] = WithoutCallback(todo[w], c)],
                 lost' = lost \cup {c}
          PROVE  todo' \in [Thread -> Seq(Phase)] /\ lost' \in SUBSET (Future \cup Callback)
      BY <2>1, <2>2, <3>2 DEF TypeOK
    <3>3. ASSUME NEW c \in Future,
                 todo' = [todo EXCEPT ![w] = WithoutFuture(todo[w], c)],
                 lost' = lost \cup {c}
          PROVE  todo' \in [Thread -> Seq(Phase)] /\ lost' \in SUBSET (Future \cup Callback)
      BY <2>1, <2>2, <3>3 DEF TypeOK
    <3> QED BY <1>25, <3>1, <3>2, <3>3 DEF InterruptElement
  <2> QED BY <1>25, <2>3 DEF InterruptElement, Consume, TypeOK
<1>26. ASSUME NEW w \in Worker, NEW f \in Future, Unwind(w, f) PROVE TypeOK'
  <2>1. w \in Thread /\ todo[w] \in Seq(Phase)
    BY DEF TypeOK, Thread
  <2>2. PICK n \in DOMAIN todo[w] :
          /\ todo' = [todo EXCEPT ![w] = SubSeq(todo[w], n + 1, Len(todo[w]))]
          /\ lost' = lost \cup UNION {todo[w][i].futs \cup todo[w][i].cbs : i \in 1..n}
          /\ pc' \in (IF todo[w][1].frame = Nobody THEN {pc, [pc EXCEPT ![w] = "leaving"]}
                                                   ELSE {pc})
    BY <1>26 DEF Unwind
  <2>6. pc' = pc \/ pc' = [pc EXCEPT ![w] = "leaving"]
    BY <2>2
  <2>3. SubSeq(todo[w], n + 1, Len(todo[w])) \in Seq(Phase)
    BY <2>1, SubSeqProperties
  <2>4. \A i \in 1..n : todo[w][i] \in Phase
    BY <2>1
  <2>5. lost' \in SUBSET (Future \cup Callback)
    BY <2>2, <2>4 DEF Phase, TypeOK
  <2>7. todo' \in [Thread -> Seq(Phase)]
    BY <2>1, <2>2, <2>3 DEF TypeOK
  <2> QED BY <1>26, <2>5, <2>6, <2>7 DEF Unwind, Raised, Consume, TypeOK
<1>27. CASE UNCHANGED vars
  BY <1>27 DEF vars, TypeOK
<1> QED
  BY <1>1, <1>2, <1>3, <1>4, <1>5, <1>6, <1>7, <1>8, <1>9, <1>10, <1>11, <1>12, <1>13,
     <1>14, <1>15, <1>16, <1>17, <1>18, <1>19, <1>20, <1>21, <1>22, <1>23, <1>24, <1>25,
     <1>26, <1>27
     DEF Next, Call, Unlocked, WorkerStep, Returns, Interrupt, Thread

\* A worker that is not idle has a task.
LEMMA StepHeld == Typed /\ [Next]_vars => HeldOK'
<1> SUFFICES ASSUME TypeOK, HeldOK, [Next]_vars, NEW w \in Worker, pc'[w] # "idle"
             PROVE  held'[w] \in Future
  BY DEF Typed, HeldOK
<1>1. ASSUME NEW v \in Worker, Dequeue(v) PROVE held'[w] \in Future
  <2>1. Head(queue) \in Future
    BY <1>1 DEF Dequeue, TypeOK
  <2> QED BY <1>1, <2>1 DEF Dequeue, HeldOK, TypeOK
<1>2. ASSUME NEW v \in Worker, Claim(v) \/ Store(v) \/ ReleaseWorker(v)
      PROVE  held'[w] \in Future
  BY <1>2 DEF Claim, Store, ReleaseWorker, HeldOK, TypeOK
<1>3. ASSUME NEW v \in Worker, Setup(v) \/ Enter(v) \/ Cleanup(v) \/ Returns(v)
      PROVE  held'[w] \in Future
  BY <1>3 DEF Setup, Enter, Cleanup, Returns, GoalReturn, HeldOK, TypeOK
<1>4. ASSUME NEW v \in Worker, Interrupt(v) PROVE held'[w] \in Future
  <2>1. UNCHANGED held
    BY <1>4 DEF Interrupt, StaleSignal, CancelGoal, Unwind, InterruptElement, EscapeGoal
  <2>2. pc'[w] = pc[w] \/ pc[w] # "idle"
    BY <1>4 DEF Interrupt, StaleSignal, CancelGoal, Unwind, InterruptElement, EscapeGoal, TypeOK
  <2> QED BY <2>1, <2>2 DEF HeldOK
<1>5. ASSUME UNCHANGED <<pc, held>> PROVE held'[w] \in Future
  BY <1>5 DEF HeldOK
<1>6. ASSUME NEW t \in Thread, Call(t) \/ Unlocked(t) \/ AwaitReturn(t) \/ AwaitTimeout(t)
      PROVE  UNCHANGED <<pc, held>>
  BY <1>6 DEF Call, Unlocked, AwaitReturn, AwaitTimeout, Submit, Deferred, Resolve, OnComplete,
     Then, Cancel, Destroy, Await, EnqueueTask, RejectTask, SignalWorker, RunCallback,
     CancelChild, EraseFuture, pool
<1> QED BY <1>1, <1>2, <1>3, <1>4, <1>5, <1>6 DEF Next, WorkerStep, vars, pool

\* An outcome is written with the state, and by nothing else.
LEMMA StepSettled == Typed /\ [Next]_vars => SettledOK'
<1> SUFFICES ASSUME TypeOK, HeldOK, SettledOK, [Next]_vars PROVE SettledOK'
  BY DEF Typed
<1> USE DEF facts, SettledOK, Terminal
<1>1. ASSUME NEW p, NEW how, NEW link, Create(p, how, link), UNCHANGED outcome PROVE SettledOK'
  BY <1>1, BoundAssumption DEF Create, TypeOK
<1>2. ASSUME NEW t, NEW f \in Future, NEW o \in Outcome, NEW rest, Complete(t, f, o, rest)
      PROVE  SettledOK'
  BY <1>2 DEF Complete, TypeOK
<1>3. ASSUME NEW t, NEW f \in Future, NEW fr, NEW rest, CancelTransition(t, f, fr, rest)
      PROVE  SettledOK'
  BY <1>3 DEF CancelTransition, TypeOK, Outcome
<1>4. ASSUME UNCHANGED <<state, outcome>> PROVE SettledOK'
  BY <1>4
<1>5. ASSUME NEW t \in Thread, Call(t) PROVE SettledOK'
  BY <1>1, <1>2, <1>3, <1>4, <1>5
     DEF Call, Submit, Deferred, Resolve, OnComplete, Then, Cancel, Destroy, Await, Outcome
<1>6. ASSUME NEW t \in Thread, Unlocked(t) PROVE SettledOK'
  <2>1. ASSUME NEW f \in Future, EraseFuture(t, f) PROVE SettledOK'
    BY <2>1 DEF EraseFuture, TypeOK
  <2>2. "backpressure" \in Outcome
    BY DEF Outcome
  <2> QED
    BY <1>2, <1>3, <1>4, <1>6, <2>1, <2>2
       DEF Unlocked, EnqueueTask, RejectTask, SignalWorker, RunCallback, CancelChild
<1>7. ASSUME NEW w \in Worker, WorkerStep(w) PROVE SettledOK'
  <2>1. CASE Store(w)
    <3>1. held[w] \in Future /\ result[w] \in Outcome
      BY <2>1 DEF Store, HeldOK, TypeOK, Outcome
    <3> QED BY <1>2, <2>1, <3>1 DEF Store
  <2>2. CASE Claim(w)
    BY <2>2 DEF Claim, TypeOK
  <2> QED
    BY <1>4, <1>7, <2>1, <2>2 DEF WorkerStep, Dequeue, Setup, Enter, Cleanup, ReleaseWorker
<1>8. ASSUME NEW w \in Worker, Interrupt(w) PROVE SettledOK'
  BY <1>4, <1>8
     DEF Interrupt, StaleSignal, CancelGoal, Unwind, InterruptElement, EscapeGoal
<1> QED
  BY <1>4, <1>5, <1>6, <1>7, <1>8
     DEF Next, vars, Returns, GoalReturn, AwaitReturn, AwaitTimeout

\* Every variable keeps its type, for any number of threads, Futures and places
\* in the backlog.
THEOREM Typing == Spec => []TypeOK
<1>1. Typed /\ [Next]_vars => Typed'
  BY StepTyped, StepHeld, StepSettled DEF Typed
<1>2. Typed => TypeOK
  BY DEF Typed
<1> QED BY InitTyped, <1>1, <1>2, PTL DEF Spec

-----------------------------------------------------------------------------
(* The stacks of phases stay sound.                                        *)

\* Soundness of stacks of phases: of two, one after the other.
LEMMA ConcatOK ==
    ASSUME NEW D, NEW K, NEW s \in Seq(Phase), NEW r \in Seq(Phase), StackOK(s, D, K), StackOK(r, D, K)
    PROVE  StackOK(s \o r, D, K)
<1> SUFFICES ASSUME NEW i \in DOMAIN (s \o r) PROVE PhaseOK((s \o r)[i], D, K)
  BY DEF StackOK
<1>1. CASE i \in DOMAIN s
  <2>1. (s \o r)[i] = s[i]
    BY <1>1
  <2> QED BY <1>1, <2>1 DEF StackOK
<1>2. CASE i \notin DOMAIN s
  <2>1. i - Len(s) \in DOMAIN r /\ (s \o r)[i] = r[i - Len(s)]
    BY <1>2
  <2> QED BY <2>1 DEF StackOK
<1> QED BY <1>1, <1>2

\* ... of the first phase of one, and of the others.
LEMMA TailOK ==
    ASSUME NEW D, NEW K, NEW s \in Seq(Phase), s # <<>>, StackOK(s, D, K)
    PROVE  PhaseOK(s[1], D, K) /\ StackOK(Tail(s), D, K)
<1>1. \A i \in DOMAIN Tail(s) : i + 1 \in DOMAIN s /\ Tail(s)[i] = s[i + 1]
  OBVIOUS
<1>2. 1 \in DOMAIN s
  OBVIOUS
<1> QED BY <1>1, <1>2 DEF StackOK

\* ... of a single sound phase.
LEMMA OnePhaseOK ==
    ASSUME NEW D, NEW K, NEW p, PhaseOK(p, D, K) PROVE StackOK(<<p>>, D, K)
<1>1. \A i \in DOMAIN <<p>> : <<p>>[i] = p
  OBVIOUS
<1> QED BY <1>1 DEF StackOK

\* ... of the empty one.
LEMMA EmptyOK == ASSUME NEW D, NEW K PROVE StackOK(<<>>, D, K)
  BY DEF StackOK

\* ... of what an exception leaves of one.
LEMMA SubSeqOK ==
    ASSUME NEW D, NEW K, NEW s \in Seq(Phase), StackOK(s, D, K), NEW n \in DOMAIN s
    PROVE  StackOK(SubSeq(s, n + 1, Len(s)), D, K)
<1> DEFINE r == SubSeq(s, n + 1, Len(s))
<1>1. \A i \in DOMAIN r : n + i \in DOMAIN s /\ r[i] = s[n + i]
  BY SubSeqProperties
<1> QED BY <1>1 DEF StackOK

\* ... of what is left once an element of the first phase is done.
LEMMA RemainderOK ==
    ASSUME NEW D, NEW K, NEW s \in Seq(Phase), s # <<>>, StackOK(s, D, K)
    PROVE  /\ \A f \in Future : StackOK(WithoutFuture(s, f), D, K)
           /\ \A c \in Callback : StackOK(WithoutCallback(s, c), D, K)
<1>1. s[1] \in Phase /\ Tail(s) \in Seq(Phase)
  BY HeadTyped
<1>2. PhaseOK(s[1], D, K) /\ StackOK(Tail(s), D, K)
  BY TailOK
<1>3. ASSUME NEW f \in Future PROVE StackOK(WithoutFuture(s, f), D, K)
  <2> DEFINE p == [s[1] EXCEPT !.futs = @ \ {f}]
  <2>1. p \in Phase /\ p.op = s[1].op /\ p.futs \subseteq s[1].futs
    BY <1>1 DEF Phase
  <2>2. PhaseOK(p, D, K)
    BY <1>2, <2>1 DEF PhaseOK
  <2> HIDE DEF p
  <2>3. StackOK(<<p>>, D, K) /\ <<p>> \in Seq(Phase)
    BY <2>1, <2>2, OnePhaseOK
  <2>4. StackOK(<<p>> \o Tail(s), D, K)
    BY <1>1, <1>2, <2>3, ConcatOK
  <2>5. StackOK(<<>> \o Tail(s), D, K)
    BY <1>1, <1>2, EmptyOK, ConcatOK
  <2> QED BY <2>4, <2>5 DEF WithoutFuture, p
<1>4. ASSUME NEW c \in Callback PROVE StackOK(WithoutCallback(s, c), D, K)
  <2> DEFINE p == [s[1] EXCEPT !.cbs = @ \ {c}]
  <2>1. p \in Phase /\ p.op = s[1].op /\ p.futs = s[1].futs
    BY <1>1 DEF Phase
  <2>2. PhaseOK(p, D, K)
    BY <1>2, <2>1 DEF PhaseOK
  <2> HIDE DEF p
  <2>3. StackOK(<<p>>, D, K) /\ <<p>> \in Seq(Phase)
    BY <2>1, <2>2, OnePhaseOK
  <2>4. StackOK(<<p>> \o Tail(s), D, K)
    BY <1>1, <1>2, <2>3, ConcatOK
  <2>5. StackOK(<<>> \o Tail(s), D, K)
    BY <1>1, <1>2, EmptyOK, ConcatOK
  <2> QED BY <2>4, <2>5 DEF WithoutCallback, p
<1> QED BY <1>3, <1>4

\* The phases the library pushes name no Future by its past, but for the
\* signal of one just cancelled and the erase of one that exists.
LEMMA PushedOK ==
  ASSUME NEW D, NEW K
  PROVE
    /\ \A fs \in SUBSET Future : StackOK(Enqueue(fs), D, K)
    /\ \A cs \in SUBSET Callback, o \in Outcome, fr \in Future \cup {Nobody} :
           StackOK(Notify(cs, o, fr), D, K)
    /\ \A fs \in SUBSET Future, fr \in Future \cup {Nobody} : StackOK(CancelAll(fs, fr), D, K)
    /\ \A f \in Future, w \in Worker \cup {Nobody}, fr \in Future \cup {Nobody} :
           f \in D => StackOK(Signal(f, w, fr), D, K)
    /\ \A f \in Future : f \in K => StackOK(Erase(f), D, K)
<1> USE BlankTyped DEF Phase
<1>1. ASSUME NEW fs \in SUBSET Future PROVE StackOK(Enqueue(fs), D, K)
  <2>1. PhaseOK([Blank EXCEPT !.op = "enqueue", !.futs = fs], D, K)
    BY DEF PhaseOK, Blank
  <2> QED BY <2>1, OnePhaseOK, EmptyOK DEF Enqueue
<1>2. ASSUME NEW cs \in SUBSET Callback, NEW o \in Outcome, NEW fr \in Future \cup {Nobody}
      PROVE  StackOK(Notify(cs, o, fr), D, K)
  <2>1. PhaseOK([Blank EXCEPT !.op = "notify", !.cbs = cs, !.out = o, !.frame = fr], D, K)
    BY DEF PhaseOK, Blank
  <2> QED BY <2>1, OnePhaseOK, EmptyOK DEF Notify
<1>3. ASSUME NEW fs \in SUBSET Future, NEW fr \in Future \cup {Nobody}
      PROVE  StackOK(CancelAll(fs, fr), D, K)
  <2>1. PhaseOK([Blank EXCEPT !.op = "cancel", !.futs = fs, !.frame = fr], D, K)
    BY DEF PhaseOK, Blank
  <2> QED BY <2>1, OnePhaseOK, EmptyOK DEF CancelAll
<1>4. ASSUME NEW f \in Future, NEW w \in Worker \cup {Nobody}, NEW fr \in Future \cup {Nobody},
             f \in D
      PROVE  StackOK(Signal(f, w, fr), D, K)
  <2>1. PhaseOK([Blank EXCEPT !.op = "signal", !.futs = {f}, !.wrk = w, !.frame = fr], D, K)
    BY <1>4 DEF PhaseOK, Blank
  <2> QED BY <2>1, OnePhaseOK, EmptyOK DEF Signal
<1>5. ASSUME NEW f \in Future, f \in K PROVE StackOK(Erase(f), D, K)
  <2>1. PhaseOK([Blank EXCEPT !.op = "erase", !.futs = {f}], D, K)
    BY <1>5 DEF PhaseOK, Blank
  <2> QED BY <2>1, OnePhaseOK DEF Erase
<1> QED BY <1>1, <1>2, <1>3, <1>4, <1>5

\* A sound stack stays sound as more Futures are dead and more are known.
LEMMA StackMonotone ==
    ASSUME NEW D, NEW K, NEW D2, NEW K2, D \subseteq D2, K \subseteq K2,
           NEW s, StackOK(s, D, K)
    PROVE  StackOK(s, D2, K2)
  BY DEF StackOK, PhaseOK

\* What a step may do to the state of Futures.
StateMove ==
    \/ UNCHANGED <<created, state>>
    \/ /\ created < MaxFutures /\ created' = created + 1
       /\ state' = [state EXCEPT ![created + 1] = "pending"]
    \/ \E f \in Known : \E to \in {"running", "completed", "cancelled", "destroyed"} :
          /\ UNCHANGED created
          /\ state' = [state EXCEPT ![f] = to]
          /\ f \in Dead => to = "destroyed"

\* Futures are created one by one, and the dead only become destroyed.
LEMMA StepState == ClaimInv /\ [Next]_vars => StateMove
<1> SUFFICES ASSUME ClaimInv, [Next]_vars PROVE StateMove
  OBVIOUS
<1> USE DEF facts, Known, Dead
<1>0. TypeOK /\ HeldOK
  BY DEF ClaimInv, Typed
<1>1. ASSUME NEW q, NEW how, NEW link, Create(q, how, link) PROVE StateMove
  BY <1>1 DEF Create, StateMove
<1>2. ASSUME NEW t, NEW f \in Future, NEW o, NEW rest, Complete(t, f, o, rest), UNCHANGED created
      PROVE  StateMove
  BY <1>2 DEF Complete, MayComplete, Live, StateMove
<1>3. ASSUME NEW t, NEW f \in Future, NEW fr, NEW rest, CancelTransition(t, f, fr, rest),
             state[f] \in Live, UNCHANGED created
      PROVE  StateMove
  BY <1>3 DEF CancelTransition, Live, StateMove
<1>4. ASSUME UNCHANGED <<created, state>> PROVE StateMove
  BY <1>4 DEF StateMove
<1>5. ASSUME NEW t \in Thread, Call(t) PROVE StateMove
  BY <1>1, <1>2, <1>3, <1>4, <1>5
     DEF Call, Submit, Deferred, Resolve, OnComplete, Then, Cancel, Destroy, Await
<1>6. ASSUME NEW t \in Thread, Unlocked(t) PROVE StateMove
  <2>1. ASSUME NEW f \in Future, EraseFuture(t, f) PROVE StateMove
    <3>1. todo[t] \in Seq(Phase) /\ todo[t] # <<>> /\ StackOK(todo[t], Dead, Known)
      BY <1>0, <2>1 DEF EraseFuture, Doing, TypeOK, ClaimInv, StacksOK
    <3>2. PhaseOK(todo[t][1], Dead, Known)
      BY <3>1, TailOK
    <3>3. f \in Known
      BY <2>1, <3>2 DEF EraseFuture, Doing, PhaseOK
    <3>4. state' = [state EXCEPT ![f] = "destroyed"] /\ UNCHANGED created
      BY <2>1 DEF EraseFuture
    <3> QED BY <3>3, <3>4 DEF StateMove
  <2> QED
    BY <1>2, <1>3, <1>4, <1>6, <2>1
       DEF Unlocked, EnqueueTask, RejectTask, SignalWorker, RunCallback, CancelChild
<1>7. ASSUME NEW w \in Worker, WorkerStep(w) PROVE StateMove
  <2>1. CASE Store(w)
    BY <1>0, <1>2, <2>1 DEF Store, HeldOK
  <2>2. CASE Claim(w)
    <3>1. held[w] \in Future
      BY <1>0, <2>2 DEF Claim, HeldOK
    <3> QED BY <2>2, <3>1 DEF Claim, Claimable, StateMove
  <2> QED
    BY <1>4, <1>7, <2>1, <2>2 DEF WorkerStep, Dequeue, Setup, Enter, Cleanup, ReleaseWorker
<1>8. ASSUME NEW w \in Worker, Interrupt(w) PROVE StateMove
  BY <1>4, <1>8
     DEF Interrupt, StaleSignal, CancelGoal, Unwind, InterruptElement, EscapeGoal
<1> QED
  BY <1>4, <1>5, <1>6, <1>7, <1>8
     DEF Next, vars, Returns, GoalReturn, AwaitReturn, AwaitTimeout

\* Dead Futures stay dead, known ones known, and the next id is fresh.
LEMMA StepMonotone ==
    ClaimInv /\ [Next]_vars => Dead \subseteq Dead' /\ Known \subseteq Known' /\ FreshOK'
<1> SUFFICES ASSUME ClaimInv, StateMove
             PROVE  Dead \subseteq Dead' /\ Known \subseteq Known' /\ FreshOK'
  BY StepState
<1>0. state \in [Future -> State] /\ created \in Nat /\ FreshOK
  BY BoundAssumption DEF ClaimInv, Typed, TypeOK
<1>1. CASE UNCHANGED <<created, state>>
  BY <1>0, <1>1 DEF Dead, Known, FreshOK
<1>2. CASE /\ created < MaxFutures /\ created' = created + 1
           /\ state' = [state EXCEPT ![created + 1] = "pending"]
  <2>1. created + 1 \in Future /\ state[created + 1] = "absent"
    BY <1>0, <1>2, BoundAssumption DEF FreshOK, Future
  <2>2. \A f \in Future : f # created + 1 => state'[f] = state[f]
    BY <1>0, <1>2
  <2>3. \A f \in Future : f > created + 1 => f > created /\ f # created + 1
    BY <1>0 DEF Future
  <2>4. FreshOK'
    BY <1>0, <1>2, <2>2, <2>3 DEF FreshOK
  <2>5. state'[created + 1] = "pending"
    BY <1>0, <1>2, <2>1
  <2> QED BY <2>1, <2>2, <2>4, <2>5 DEF Dead, Known
<1>3. ASSUME NEW f \in Known, NEW to \in {"running", "completed", "cancelled", "destroyed"},
             UNCHANGED created, state' = [state EXCEPT ![f] = to],
             f \in Dead => to = "destroyed"
      PROVE  Dead \subseteq Dead' /\ Known \subseteq Known' /\ FreshOK'
  BY <1>0, <1>3 DEF Dead, Known, FreshOK
<1> QED BY <1>1, <1>2, <1>3 DEF StateMove

\* What a completion pushes, and what a cancellation pushes once its Future is
\* dead.
LEMMA CompletePushes ==
    ASSUME TypeOK, NEW D, NEW K, NEW f \in Future, NEW o \in Outcome,
           NEW rest \in Seq(Phase), StackOK(rest, D, K)
    PROVE  StackOK(TerminalHandlers(f, o) \o rest, D, K)
<1>1. watchers[f] \in SUBSET Callback /\ conts[f] \in SUBSET Future
  BY DEF TypeOK
<1>2. /\ Notify(watchers[f], o, Nobody) \in Seq(Phase)
      /\ StackOK(Notify(watchers[f], o, Nobody), D, K)
  BY <1>1, NotifyTyped, PushedOK
<1>3. Enqueue(conts[f]) \in Seq(Phase) /\ StackOK(Enqueue(conts[f]), D, K)
  BY <1>1, EnqueueTyped, PushedOK
<1>4. /\ TerminalHandlers(f, o) \in Seq(Phase)
      /\ StackOK(TerminalHandlers(f, o), D, K)
  BY <1>2, <1>3, ConcatOK DEF TerminalHandlers
<1> QED BY <1>4, ConcatOK

\* A cancellation pushes sound phases.
LEMMA CancelPushes ==
    ASSUME TypeOK, NEW D, NEW K, NEW f \in Future, f \in D, NEW fr \in Future \cup {Nobody},
           NEW rest \in Seq(Phase), StackOK(rest, D, K)
    PROVE  StackOK(CancelWork(f, fr) \o rest, D, K)
<1>1. /\ watchers[f] \in SUBSET Callback /\ kids[f] \in SUBSET Future
      /\ thread[f] \in Worker \cup {Nobody} /\ "cancelled" \in Outcome
  BY DEF TypeOK, Outcome
<1>2. /\ Signal(f, thread[f], fr) \in Seq(Phase)
      /\ StackOK(Signal(f, thread[f], fr), D, K)
  BY <1>1, SignalTyped, PushedOK
<1>3. /\ Notify(watchers[f], "cancelled", fr) \in Seq(Phase)
      /\ StackOK(Notify(watchers[f], "cancelled", fr), D, K)
  BY <1>1, NotifyTyped, PushedOK
<1>4. CancelAll(kids[f], fr) \in Seq(Phase) /\ StackOK(CancelAll(kids[f], fr), D, K)
  BY <1>1, CancelAllTyped, PushedOK
<1> DEFINE a == Signal(f, thread[f], fr)
           b == Notify(watchers[f], "cancelled", fr)
           c == CancelAll(kids[f], fr)
<1>5. CancelWork(f, fr) = (a \o b) \o c
  BY DEF CancelWork
<1> HIDE DEF a, b, c
<1>6. a \o b \in Seq(Phase) /\ StackOK(a \o b, D, K)
  BY <1>2, <1>3, ConcatOK DEF a, b
<1>7. c \in Seq(Phase) /\ StackOK(c, D, K)
  BY <1>4 DEF c
<1>8. CancelWork(f, fr) \in Seq(Phase) /\ StackOK(CancelWork(f, fr), D, K)
  <2> DEFINE ab == a \o b
  <2>1. ab \in Seq(Phase) /\ StackOK(ab, D, K) /\ CancelWork(f, fr) = ab \o c
    BY <1>5, <1>6
  <2> HIDE DEF ab
  <2>2. ab \o c \in Seq(Phase) /\ StackOK(ab \o c, D, K)
    BY <1>7, <2>1, ConcatOK
  <2> QED BY <2>1, <2>2
<1> QED BY <1>8, ConcatOK

\* No step makes the stack of a thread unsound.
LEMMA StepStacks == ClaimInv /\ [Next]_vars => StacksOK'
<1> SUFFICES ASSUME ClaimInv, [Next]_vars PROVE StacksOK'
  OBVIOUS
<1> DEFINE D == Dead'
           K == Known'
<1>0. TypeOK /\ HeldOK /\ SettledOK
  BY DEF ClaimInv, Typed
<1>1. \A t \in Thread : todo[t] \in Seq(Phase) /\ StackOK(todo[t], D, K)
  BY <1>0, StepMonotone, StackMonotone DEF ClaimInv, StacksOK, TypeOK
<1>2. Dead \subseteq D /\ Known \subseteq K
  BY StepMonotone
<1> HIDE DEF D, K
<1>3. ASSUME NEW t \in Thread, NEW r, StackOK(r, D, K), todo' = [todo EXCEPT ![t] = r]
      PROVE  StacksOK'
  <2>1. \A u \in Thread : todo'[u] = IF u = t THEN r ELSE todo[u]
    BY <1>0, <1>3 DEF TypeOK
  <2> QED BY <1>1, <1>3, <2>1 DEF StacksOK, D, K
<1>4. ASSUME UNCHANGED todo PROVE StacksOK'
  BY <1>1, <1>4 DEF StacksOK, D, K
<1>5. ASSUME NEW t \in Thread, NEW f \in Future, NEW o \in Outcome,
             NEW rest \in Seq(Phase), StackOK(rest, D, K), Complete(t, f, o, rest)
      PROVE  StacksOK'
  <2>1. StackOK(TerminalHandlers(f, o) \o rest, D, K)
    BY <1>0, <1>5, CompletePushes
  <2> QED BY <1>3, <1>5, <2>1 DEF Complete
<1>6. ASSUME NEW t \in Thread, NEW f \in Future, NEW fr \in Future \cup {Nobody},
             NEW rest \in Seq(Phase), StackOK(rest, D, K), CancelTransition(t, f, fr, rest)
      PROVE  StacksOK'
  <2>1. f \in D
    BY <1>0, <1>6 DEF CancelTransition, TypeOK, D, Dead
  <2>2. StackOK(CancelWork(f, fr) \o rest, D, K)
    BY <1>0, <1>6, <2>1, CancelPushes
  <2> QED BY <1>3, <1>6, <2>2 DEF CancelTransition
<1>7. <<>> \in Seq(Phase) /\ StackOK(<<>>, D, K) /\ Nobody \in Future \cup {Nobody}
  BY EmptyOK
<1>8. ASSUME NEW t \in Thread, Call(t) PROVE StacksOK'
  <2>1. CASE Submit(t)
    <3>1. created + 1 \in Future
      BY <1>0, <2>1, BoundAssumption DEF Submit, Create, TypeOK, Future
    <3>2. StackOK(Enqueue({created + 1}), D, K)
      BY <3>1, PushedOK
    <3> QED BY <1>3, <2>1, <3>2 DEF Submit
  <2>2. CASE Deferred(t)
    BY <1>4, <2>2 DEF Deferred
  <2>3. ASSUME NEW f \in Future, NEW o \in GoalOutcome, Resolve(t, f, o) PROVE StacksOK'
    BY <1>5, <1>7, <2>3 DEF Resolve, Outcome
  <2>4. ASSUME NEW f \in Future, NEW c \in Callback, OnComplete(t, f, c) PROVE StacksOK'
    <3>1. CASE state[f] \in Terminal /\ todo' = [todo EXCEPT ![t] = Notify({c}, outcome[f], Nobody)]
      <4>1. {c} \in SUBSET Callback /\ outcome[f] \in Outcome
        BY <1>0, <3>1 DEF SettledOK
      <4>2. StackOK(Notify({c}, outcome[f], Nobody), D, K)
        BY <1>7, <4>1, PushedOK
      <4> QED BY <1>3, <3>1, <4>2
    <3> QED BY <1>4, <2>4, <3>1 DEF OnComplete
  <2>5. ASSUME NEW f \in Future, Then(t, f) PROVE StacksOK'
    <3>1. created + 1 \in Future
      BY <1>0, <2>5, BoundAssumption DEF Then, Create, TypeOK, Future
    <3>2. StackOK(Enqueue({created + 1}), D, K)
      BY <3>1, PushedOK
    <3>3. StackOK(CancelAll({created + 1}, Nobody), D, K)
      BY <1>7, <3>1, PushedOK
    <3> QED BY <1>3, <1>4, <2>5, <3>2, <3>3 DEF Then
  <2>6. ASSUME NEW f \in Future, Cancel(t, f) PROVE StacksOK'
    BY <1>6, <1>7, <2>6 DEF Cancel
  <2>7. ASSUME NEW f \in Future, Destroy(t, f) PROVE StacksOK'
    <3>1. f \in K
      BY <1>2, <2>7 DEF Destroy, Known, Live, Terminal
    <3>2. Erase(f) \in Seq(Phase) /\ StackOK(Erase(f), D, K)
      BY <3>1, EraseTyped, PushedOK
    <3>3. CancelAll({f}, Nobody) \in Seq(Phase) /\ StackOK(CancelAll({f}, Nobody), D, K)
      BY <1>7, CancelAllTyped, PushedOK
    <3>4. StackOK((IF state[f] \in Live THEN CancelAll({f}, Nobody) ELSE <<>>) \o Erase(f), D, K)
      BY <1>7, <3>2, <3>3, ConcatOK
    <3> QED BY <1>3, <2>7, <3>4 DEF Destroy
  <2>8. ASSUME NEW f \in Future, Await(t, f) PROVE StacksOK'
    BY <1>4, <2>8 DEF Await
  <2> QED BY <1>8, <2>1, <2>2, <2>3, <2>4, <2>5, <2>6, <2>7, <2>8 DEF Call
<1>9. ASSUME NEW t \in Thread, Unlocked(t) PROVE StacksOK'
  <2>1. todo[t] \in Seq(Phase) /\ todo[t] # <<>>
    BY <1>0, <1>9 DEF Unlocked, EnqueueTask, RejectTask, SignalWorker, RunCallback,
       CancelChild, NextToCancel, EraseFuture, Doing, TypeOK
  <2>2. /\ \A f \in Future : WithoutFuture(todo[t], f) \in Seq(Phase)
                              /\ StackOK(WithoutFuture(todo[t], f), D, K)
        /\ \A c \in Callback : StackOK(WithoutCallback(todo[t], c), D, K)
        /\ StackOK(Tail(todo[t]), D, K)
    BY <1>1, <2>1, RemainderOK, WithoutFutureTyped, TailOK
  <2>3. "backpressure" \in Outcome
    BY DEF Outcome
  <2>4. ASSUME NEW f \in Future, EnqueueTask(t, f) \/ SignalWorker(t, f) \/ EraseFuture(t, f)
        PROVE  StacksOK'
    BY <1>3, <2>2, <2>4 DEF EnqueueTask, SignalWorker, EraseFuture
  <2>5. ASSUME NEW f \in Future, RejectTask(t, f) PROVE StacksOK'
    BY <1>5, <2>2, <2>3, <2>5 DEF RejectTask
  <2>6. ASSUME NEW f \in Future, CancelChild(t, f) PROVE StacksOK'
    BY <1>3, <1>6, <2>2, <2>6 DEF CancelChild
  <2>7. ASSUME NEW c \in Callback, RunCallback(t, c) PROVE StacksOK'
    BY <1>3, <2>2, <2>7 DEF RunCallback
  <2> QED BY <1>9, <2>4, <2>5, <2>6, <2>7 DEF Unlocked
<1>10. ASSUME NEW w \in Worker, WorkerStep(w) \/ Returns(w) PROVE StacksOK'
  <2>1. CASE Store(w)
    <3>1. held[w] \in Future /\ result[w] \in Outcome /\ w \in Thread
      BY <1>0, <2>1 DEF Store, HeldOK, TypeOK, Outcome, Thread
    <3> QED BY <1>5, <1>7, <2>1, <3>1 DEF Store
  <2> QED BY <1>4, <1>10, <2>1 DEF WorkerStep, Dequeue, Claim, Setup, Enter, Cleanup,
             ReleaseWorker, Returns, GoalReturn
<1>11. ASSUME NEW w \in Worker, Interrupt(w) PROVE StacksOK'
  <2>1. w \in Thread /\ todo[w] \in Seq(Phase) /\ StackOK(todo[w], D, K)
    BY <1>1 DEF Thread
  <2>2. ASSUME NEW f \in Future, InterruptElement(w, f) PROVE StacksOK'
    <3>1. todo[w] # <<>>
      BY <2>2 DEF InterruptElement, NextToCancel, Doing
    <3>2. todo[w][1].cbs \in SUBSET Callback
      BY <2>1, <3>1, HeadTyped DEF Phase
    <3>3. /\ \A g \in Future : StackOK(WithoutFuture(todo[w], g), D, K)
          /\ \A c \in Callback : StackOK(WithoutCallback(todo[w], c), D, K)
      BY <2>1, <3>1, RemainderOK
    <3> QED BY <1>3, <1>4, <2>1, <2>2, <3>2, <3>3 DEF InterruptElement
  <2>3. ASSUME NEW f \in Future, Unwind(w, f) PROVE StacksOK'
    <3>1. PICK n \in DOMAIN todo[w] :
            todo' = [todo EXCEPT ![w] = SubSeq(todo[w], n + 1, Len(todo[w]))]
      BY <2>3 DEF Unwind
    <3>2. StackOK(SubSeq(todo[w], n + 1, Len(todo[w])), D, K)
      BY <2>1, SubSeqOK
    <3> QED BY <1>3, <2>1, <3>1, <3>2
  <2> QED BY <1>4, <1>11, <2>2, <2>3 DEF Interrupt, StaleSignal, CancelGoal, EscapeGoal
<1> QED BY <1>4, <1>8, <1>9, <1>10, <1>11 DEF Next, vars, AwaitReturn, AwaitTimeout

-----------------------------------------------------------------------------
(* Signals, the current Future of a worker, and its claim.                 *)

\* Only dead Futures are signalled for.
LEMMA StepSignals == ClaimInv /\ [Next]_vars => SignalsOK'
<1> SUFFICES ASSUME ClaimInv, [Next]_vars PROVE SignalsOK'
  OBVIOUS
<1>0. TypeOK /\ SignalsOK /\ Dead \subseteq Dead'
  BY StepMonotone DEF ClaimInv, Typed
<1>1. ASSUME NEW t \in Thread, NEW f \in Future, SignalWorker(t, f) PROVE SignalsOK'
  <2>1. todo[t] \in Seq(Phase) /\ todo[t] # <<>> /\ StackOK(todo[t], Dead, Known)
    BY <1>0, <1>1 DEF SignalWorker, Doing, TypeOK, ClaimInv, StacksOK
  <2>2. f \in Dead
    BY <1>1, <2>1, TailOK DEF SignalWorker, Doing, PhaseOK
  <2> QED BY <1>0, <1>1, <2>2 DEF SignalWorker, SignalsOK, TypeOK
<1>2. ASSUME NEW w \in Worker, Interrupt(w) PROVE SignalsOK'
  BY <1>0, <1>2 DEF Interrupt, StaleSignal, CancelGoal, Unwind, InterruptElement, EscapeGoal,
     Consume, SignalsOK, TypeOK
<1>3. ASSUME UNCHANGED signals PROVE SignalsOK'
  BY <1>0, <1>3 DEF SignalsOK
<1>4. ASSUME NEW t \in Thread, Call(t) PROVE UNCHANGED signals
  BY <1>4 DEF Call, Submit, Deferred, Resolve, OnComplete, Then, Cancel, Destroy, Await, pool
<1>5. ASSUME NEW t \in Thread, Unlocked(t) PROVE SignalsOK'
  BY <1>1, <1>3, <1>5
     DEF Unlocked, EnqueueTask, RejectTask, RunCallback, CancelChild, EraseFuture, pool
<1>6. ASSUME NEW w \in Worker, WorkerStep(w) \/ Returns(w) PROVE UNCHANGED signals
  BY <1>6 DEF WorkerStep, Dequeue, Claim, Setup, Enter, Cleanup, Store, ReleaseWorker,
     Returns, GoalReturn
<1> QED BY <1>2, <1>3, <1>4, <1>5, <1>6 DEF Next, vars, pool, AwaitReturn, AwaitTimeout

\* The steps that leave the workers where they are.
LEMMA ThreadStepsKeepPool ==
    ASSUME NEW t \in Thread, Call(t) \/ Unlocked(t) \/ AwaitReturn(t) \/ AwaitTimeout(t)
    PROVE  UNCHANGED <<pc, held, current, result>>
  BY DEF Call, Unlocked, AwaitReturn, AwaitTimeout, Submit, Deferred, Resolve, OnComplete,
     Then, Cancel, Destroy, Await, EnqueueTask, RejectTask, SignalWorker, RunCallback,
     CancelChild, EraseFuture, pool

\* A goal runs under the Future its worker holds, and a worker recovers from the interrupt of a dead one.
LEMMA StepCurrent == ClaimInv /\ [Next]_vars => CurrentOK' /\ RecoveringOK'
<1> SUFFICES ASSUME ClaimInv, [Next]_vars PROVE CurrentOK' /\ RecoveringOK'
  OBVIOUS
<1>0. TypeOK /\ HeldOK /\ SignalsOK /\ CurrentOK /\ RecoveringOK /\ Dead \subseteq Dead'
  BY StepMonotone DEF ClaimInv, Typed
<1> USE DEF TypeOK, CurrentOK, RecoveringOK
<1>1. ASSUME UNCHANGED <<pc, held, current>> PROVE CurrentOK' /\ RecoveringOK'
  BY <1>0, <1>1
<1>2. ASSUME NEW v \in Worker, Dequeue(v) \/ Claim(v) \/ Store(v) \/ ReleaseWorker(v)
      PROVE  CurrentOK' /\ RecoveringOK'
  <2>1. /\ pc[v] \notin {"entering", "goal", "leaving"}
        /\ pc'[v] \in {"idle", "dequeued", "claimed"}
        /\ current' = current
    BY <1>0, <1>2 DEF Dequeue, Claim, Store, ReleaseWorker
  <2>2. \A w \in Worker : w # v => held'[w] = held[w] /\ pc'[w] = pc[w]
    BY <1>0, <1>2 DEF Dequeue, Claim, Store, ReleaseWorker
  <2> QED BY <1>0, <2>1, <2>2
<1>3. ASSUME NEW v \in Worker, Setup(v) \/ Enter(v) \/ Cleanup(v) \/ Returns(v)
      PROVE  CurrentOK' /\ RecoveringOK'
  <2>1. \/ pc'[v] \in {"entering", "goal", "leaving"} /\ current'[v] = held[v]
        \/ pc'[v] = "storing" /\ current'[v] = Nobody
    BY <1>0, <1>3 DEF Setup, Enter, Cleanup, Returns, GoalReturn
  <2>2. \A w \in Worker : w # v => current'[w] = current[w] /\ pc'[w] = pc[w]
    BY <1>0, <1>3 DEF Setup, Enter, Cleanup, Returns, GoalReturn
  <2>3. UNCHANGED held
    BY <1>3 DEF Setup, Enter, Cleanup, Returns, GoalReturn
  <2> QED BY <1>0, <2>1, <2>2, <2>3
<1>4. ASSUME NEW v \in Worker, NEW f \in Future, EscapeGoal(v, f)
      PROVE  CurrentOK' /\ RecoveringOK'
  <2>1. held[v] \in Dead
    BY <1>0, <1>4 DEF EscapeGoal, Raised, SignalsOK
  <2> QED BY <1>0, <1>4, <2>1 DEF EscapeGoal
<1>5. ASSUME NEW v \in Worker, NEW f \in Future,
             StaleSignal(v, f) \/ CancelGoal(v, f) \/ Unwind(v, f) \/ InterruptElement(v, f)
      PROVE  CurrentOK' /\ RecoveringOK'
  <2>1. UNCHANGED <<held, current>>
    BY <1>5 DEF StaleSignal, CancelGoal, Unwind, InterruptElement
  <2>2. pc' = pc \/ (pc[v] = "goal" /\ pc' = [pc EXCEPT ![v] = "leaving"])
    BY <1>5 DEF StaleSignal, CancelGoal, Unwind, InterruptElement
  <2> QED BY <1>0, <2>1, <2>2
<1> QED
  BY <1>1, <1>2, <1>3, <1>4, <1>5, ThreadStepsKeepPool
     DEF Next, WorkerStep, Interrupt, vars, pool

\* The thread fact of a Future follows its claim and its release.
LEMMA StepClaim == ClaimInv /\ [Next]_vars => ThreadFactIsWorker'
<1> SUFFICES ASSUME ClaimInv, [Next]_vars PROVE ThreadFactIsWorker'
  OBVIOUS
<1>0. /\ TypeOK /\ HeldOK /\ CurrentOK /\ RecoveringOK /\ ThreadFactIsWorker
      /\ FreshOK /\ Dead \subseteq Dead' /\ \A w \in Worker : w # Nobody
  BY StepMonotone, ThreadAssumption DEF ClaimInv, Typed, Thread
<1> USE DEF facts, TypeOK, ThreadFactIsWorker, Owning
<1>1. ASSUME NEW q, NEW how, NEW link, Create(q, how, link), UNCHANGED <<thread, pc, held>>
      PROVE  ThreadFactIsWorker'
  <2>1. created + 1 \in Future /\ state[created + 1] = "absent"
    BY <1>0, <1>1, BoundAssumption DEF Create, FreshOK, Future
  <2>2. thread[created + 1] = Nobody
    BY <1>0, <2>1
  <2> QED BY <1>0, <1>1, <2>1, <2>2 DEF Create
<1>2. ASSUME NEW t, NEW f \in Future, NEW o, NEW rest, Complete(t, f, o, rest),
             UNCHANGED <<pc, held>>
      PROVE  ThreadFactIsWorker'
  BY <1>0, <1>2 DEF Complete, MayComplete, Live
<1>3. ASSUME NEW t, NEW f \in Future, NEW fr, NEW rest, CancelTransition(t, f, fr, rest),
             state[f] \in Live, UNCHANGED <<thread, pc, held>>
      PROVE  ThreadFactIsWorker'
  BY <1>0, <1>3 DEF CancelTransition, Live
<1>4. ASSUME UNCHANGED <<state, thread, pc, held>> PROVE ThreadFactIsWorker'
  BY <1>0, <1>4
<1>5. ASSUME NEW t \in Thread, Call(t) PROVE ThreadFactIsWorker'
  BY <1>1, <1>2, <1>3, <1>4, <1>5, ThreadStepsKeepPool
     DEF Call, Submit, Deferred, Resolve, OnComplete, Then, Cancel, Destroy, Await
<1>6. ASSUME NEW t \in Thread, Unlocked(t) PROVE ThreadFactIsWorker'
  <2>1. ASSUME NEW f \in Future, EraseFuture(t, f) PROVE ThreadFactIsWorker'
    BY <1>0, <2>1 DEF EraseFuture, pool
  <2> QED
    BY <1>2, <1>3, <1>4, <1>6, <2>1, ThreadStepsKeepPool
       DEF Unlocked, EnqueueTask, RejectTask, SignalWorker, RunCallback, CancelChild
<1>7. ASSUME NEW w \in Worker, Store(w) PROVE ThreadFactIsWorker'
  <2>1. held[w] \in Future
    BY <1>0, <1>7 DEF Store, HeldOK
  <2>2. \A f \in Future : thread'[f] = IF f = held[w] THEN Nobody ELSE thread[f]
    BY <1>0, <1>7, <2>1 DEF Store, Complete
  <2>3. \A f \in Future : thread'[f] # Nobody => thread'[f] # w
    BY <1>0, <2>2
  <2>4. state'[held[w]] # "running"
    BY <1>0, <1>7, <2>1 DEF Store, Complete, MayComplete, Live
  <2>5. \A f \in Future : f # held[w] => state'[f] = state[f]
    BY <1>0, <1>7, <2>1 DEF Store, Complete
  <2>6. \A v \in Worker : v # w => held'[v] = held[v] /\ pc'[v] = pc[v]
    BY <1>0, <1>7 DEF Store
  <2>7. ASSUME NEW f \in Future, thread'[f] # Nobody
        PROVE  /\ f # held[w] /\ thread[f] = thread'[f] /\ thread[f] # w
               /\ thread[f] \in Worker
    BY <1>0, <2>2, <2>3, <2>7
  <2>8. ASSUME NEW f \in Future, thread'[f] # Nobody
        PROVE  /\ state'[f] \in {"running", "cancelled"}
               /\ held'[thread'[f]] = f /\ pc'[thread'[f]] \in Owning \cup {"recovering"}
    BY <1>0, <2>5, <2>6, <2>7, <2>8
  <2>9. ASSUME NEW f \in Future, state'[f] = "running" PROVE thread'[f] # Nobody
    BY <1>0, <2>2, <2>4, <2>5, <2>9
  <2> QED BY <2>8, <2>9
<1>8. ASSUME NEW w \in Worker, Claim(w) PROVE ThreadFactIsWorker'
  <2>1. held[w] \in Future /\ pc[w] = "dequeued"
    BY <1>0, <1>8 DEF Claim, HeldOK
  <2>2. \A f \in Future : thread[f] # w
    BY <1>0, <2>1
  <2>3. CASE Claimable(held[w])
    BY <1>0, <1>8, <2>1, <2>2, <2>3 DEF Claim, Claimable
  <2>4. CASE ~Claimable(held[w])
    BY <1>0, <1>8, <2>1, <2>2, <2>4 DEF Claim
  <2> QED BY <2>3, <2>4
<1>9. ASSUME NEW w \in Worker, ReleaseWorker(w) PROVE ThreadFactIsWorker'
  <2>1. held[w] \in Future /\ held[w] \in Dead /\ pc[w] = "recovering"
    BY <1>0, <1>9 DEF ReleaseWorker, HeldOK, RecoveringOK
  <2>2. \A f \in Future : thread'[f] # w
    BY <1>0, <1>9, <2>1 DEF ReleaseWorker, DropClaim
  <2>3. \A f \in Future : thread'[f] # Nobody => thread'[f] = thread[f]
    BY <1>0, <1>9, <2>1 DEF ReleaseWorker, DropClaim
  <2>4. \A f \in Future : thread'[f] = Nobody => thread[f] = Nobody \/ f = held[w]
    BY <1>0, <1>9, <2>1 DEF ReleaseWorker, DropClaim
  <2>5. UNCHANGED state /\ \A v \in Worker : v # w => held'[v] = held[v] /\ pc'[v] = pc[v]
    BY <1>0, <1>9 DEF ReleaseWorker
  <2>6. state[held[w]] # "running"
    BY <2>1 DEF Dead
  <2> QED BY <1>0, <2>2, <2>3, <2>4, <2>5, <2>6
<1>10. ASSUME NEW w \in Worker, Dequeue(w) PROVE ThreadFactIsWorker'
  <2>1. \A f \in Future : thread[f] # w
    BY <1>0, <1>10 DEF Dequeue
  <2> QED BY <1>0, <1>10, <2>1 DEF Dequeue
<1>11. ASSUME NEW w \in Worker, Setup(w) \/ Enter(w) \/ Cleanup(w) \/ Returns(w)
       PROVE  ThreadFactIsWorker'
  <2>1. UNCHANGED <<state, thread, held>>
    BY <1>11 DEF Setup, Enter, Cleanup, Returns, GoalReturn
  <2>2. /\ pc[w] \in Owning /\ pc'[w] \in Owning
        /\ \A v \in Worker : v # w => pc'[v] = pc[v]
    BY <1>0, <1>11 DEF Setup, Enter, Cleanup, Returns, GoalReturn
  <2>3. ASSUME NEW f \in Future, thread[f] # Nobody
        PROVE  pc'[thread[f]] \in Owning \cup {"recovering"}
    <3>1. thread[f] \in Worker /\ pc[thread[f]] \in Owning \cup {"recovering"}
      BY <1>0, <2>3
    <3>2. thread[f] = w \/ pc'[thread[f]] = pc[thread[f]]
      BY <2>2, <3>1
    <3> QED BY <2>2, <3>1, <3>2
  <2> QED BY <1>0, <2>1, <2>3
<1>12. ASSUME NEW w \in Worker, Interrupt(w) PROVE ThreadFactIsWorker'
  <2>1. UNCHANGED <<state, thread, held>>
    BY <1>12 DEF Interrupt, StaleSignal, CancelGoal, Unwind, InterruptElement, EscapeGoal
  <2>2. /\ pc'[w] = pc[w] \/ pc'[w] \in Owning \cup {"recovering"}
        /\ \A v \in Worker : v # w => pc'[v] = pc[v]
    BY <1>0, <1>12 DEF Interrupt, StaleSignal, CancelGoal, Unwind, InterruptElement, EscapeGoal
  <2>3. ASSUME NEW f \in Future, thread[f] # Nobody
        PROVE  pc'[thread[f]] \in Owning \cup {"recovering"}
    <3>1. thread[f] \in Worker /\ pc[thread[f]] \in Owning \cup {"recovering"}
      BY <1>0, <2>3
    <3>2. thread[f] = w \/ pc'[thread[f]] = pc[thread[f]]
      BY <2>2, <3>1
    <3> QED BY <2>2, <3>1, <3>2
  <2> QED BY <1>0, <2>1, <2>3
<1> QED
  BY <1>4, <1>5, <1>6, <1>7, <1>8, <1>9, <1>10, <1>11, <1>12, ThreadStepsKeepPool
     DEF Next, WorkerStep, vars, pool, AwaitReturn, AwaitTimeout

\* Nothing is claimed, signalled or deferred at the start.
LEMMA InitClaim == Init => ClaimInv
<1> SUFFICES ASSUME Init PROVE ClaimInv
  OBVIOUS
<1>1. Typed
  BY InitTyped
<1>2. StacksOK /\ SignalsOK
  BY EmptyOK DEF Init, StacksOK, SignalsOK
<1>3. FreshOK /\ ThreadFactIsWorker
  BY DEF Init, FreshOK, ThreadFactIsWorker
<1>4. CurrentOK /\ RecoveringOK
  BY DEF Init, CurrentOK, RecoveringOK
<1> QED BY <1>1, <1>2, <1>3, <1>4 DEF ClaimInv

\* The strengthened invariant is inductive.
LEMMA ClaimInvHolds == Spec => []ClaimInv
<1>1. ClaimInv /\ [Next]_vars => ClaimInv'
  BY StepTyped, StepHeld, StepSettled, StepStacks, StepMonotone, StepSignals, StepCurrent,
     StepClaim DEF ClaimInv, Typed
<1> QED BY InitClaim, <1>1, PTL DEF Spec

\* The thread fact a cancellation signals (signal_async_cancel/2) always names a
\* worker that is still busy with that Future, however the claim, the cancel and
\* the two releases of a worker interleave.
THEOREM ThreadFacts == Spec => []ThreadFactIsWorker
<1>1. ClaimInv => ThreadFactIsWorker
  BY DEF ClaimInv
<1> QED BY ClaimInvHolds, <1>1, PTL

\* raise_cancel_if_current/1 never interrupts the goal of a Future that was not
\* cancelled: signals that arrive late meet another current Future, or none.
THEOREM Interrupts == Spec => InterruptHitsCancelled
<1> DEFINE Hit == \A w \in Worker : Interrupt(w) /\ ~(\E f \in Future : StaleSignal(w, f)) =>
                      state[held[w]] \in {"cancelled", "destroyed"}
<1>1. ASSUME ClaimInv PROVE Hit
  <2> SUFFICES ASSUME NEW w \in Worker, NEW f \in Future,
                      CancelGoal(w, f) \/ Unwind(w, f) \/ InterruptElement(w, f)
                        \/ EscapeGoal(w, f)
               PROVE  state[held[w]] \in {"cancelled", "destroyed"}
    BY DEF Interrupt
  <2>1. Raised(w, f) /\ pc[w] \in {"entering", "goal", "leaving"}
    BY DEF CancelGoal, Unwind, InterruptElement, EscapeGoal
  <2>2. f \in Dead /\ held[w] = f
    BY <1>1, <2>1 DEF ClaimInv, CurrentOK, SignalsOK, Raised
  <2> QED BY <2>2 DEF Dead
<1>2. ClaimInv => [Hit]_vars
  BY <1>1
<1> QED BY ClaimInvHolds, <1>2, PTL DEF InterruptHitsCancelled

-----------------------------------------------------------------------------
(* The accounts of the runtime: who has a pending task, a callback that is *)
(* not called yet, a child of a cancelled Future.  AccountInv relates the  *)
(* facts, the stacks and the history; Move(t) below says what a step of t  *)
(* does to them, and every step of the runtime is a Move.                  *)

\* The Futures a stack still owes an operation to, and the callbacks it still
\* owes a call.
Owed(s, op) == {f \in Future : \E i \in DOMAIN s : s[i].op = op /\ f \in s[i].futs}
Told(s) == {c \in Callback : \E i \in DOMAIN s : c \in s[i].cbs}

\* How stacks are built: callbacks in notify phases only, and below a phase no
\* catch/3 of the library protects there is none that one does.
ShapeOK(s) ==
    \A i \in DOMAIN s :
        /\ s[i].op # "notify" => s[i].cbs = {}
        /\ s[i].op \in {"enqueue", "erase"} => s[i].frame = Nobody
        /\ s[i].frame = Nobody => \A j \in DOMAIN s : j > i => s[j].frame = Nobody

\* The callbacks of a stack are registered on Futures settled with the outcome
\* they will be called with, have not been called, and are there once.
NoticesOK(s, reg, out, del) ==
    /\ \A i \in DOMAIN s : \A c \in s[i].cbs :
          reg[c] # Nobody /\ out[reg[c]] = s[i].out /\ del[c] = "never"
    /\ \A i, j \in DOMAIN s : s[i].cbs \cap s[j].cbs # {} => i = j

\* A worker leaves no work behind when it leaves the goal or goes back to the queue.
ShapesOK == \A t \in Thread : ShapeOK(todo[t])
QuietOK == \A w \in Worker : pc[w] \notin {"idle", "goal"} => todo[w] = <<>>

\* An unsettled Future has no outcome yet.
OpenOK == \A f \in Future : state[f] \in Live \cup {"absent"} => outcome[f] = "open"

\* Handlers wait on live Futures only.
WatchOK == \A f \in Future : \A c \in watchers[f] : registered[c] = f /\ state[f] \in Live
ContsOK ==
    \A p \in Future : \A f \in conts[p] :
        state[p] \in Live /\ parent[f] = p /\ state[f] # "absent"

\* Whoever is called was registered on a Future that is settled.
CalledOK ==
    \A c \in Callback : delivered[c] # "never" =>
        registered[c] # Nobody /\ outcome[registered[c]] # "open"

\* No two threads are about to call the same callback.
AllNoticesOK ==
    /\ \A t \in Thread : NoticesOK(todo[t], registered, outcome, delivered)
    /\ \A t, u \in Thread : t # u => Told(todo[t]) \cap Told(todo[u]) = {}

\* A live Future keeps its links to its live children.
LinkOK ==
    \A f \in Future :
        /\ parent[f] # Nobody /\ state[f] \in Live
        /\ state[parent[f]] \in Live \cup {"absent"}
        => f \in kids[parent[f]]

NoticeInv == OpenOK /\ WatchOK /\ CalledOK /\ AllNoticesOK
AccountInv ==
    /\ ShapesOK /\ QuietOK /\ NoticeInv /\ ContsOK /\ LinkOK
    /\ PendingIsAccounted /\ CallbackIsAccounted /\ CancelReachesChildren

-----------------------------------------------------------------------------
(* What stacks owe: lemmas about the operators that build and shorten them. *)

\* One stack is what is left of another: later phases, with the same head data.
Part(r, s) ==
    \E d \in Nat : \A i \in DOMAIN r :
        /\ i + d \in DOMAIN s
        /\ r[i].op = s[i + d].op /\ r[i].out = s[i + d].out
        /\ r[i].frame = s[i + d].frame /\ r[i].cbs \subseteq s[i + d].cbs

\* What is left of a well-built stack is well built.
LEMMA PartShape ==
    ASSUME NEW s \in Seq(Phase), NEW r \in Seq(Phase), Part(r, s), ShapeOK(s)
    PROVE  ShapeOK(r)
<1>1. PICK d \in Nat : \A i \in DOMAIN r :
        /\ i + d \in DOMAIN s
        /\ r[i].op = s[i + d].op /\ r[i].out = s[i + d].out
        /\ r[i].frame = s[i + d].frame /\ r[i].cbs \subseteq s[i + d].cbs
  BY DEF Part
<1>2. ASSUME NEW i \in DOMAIN r PROVE r[i].op # "notify" => r[i].cbs = {}
  BY <1>1 DEF ShapeOK
<1>3. ASSUME NEW i \in DOMAIN r PROVE r[i].op \in {"enqueue", "erase"} => r[i].frame = Nobody
  BY <1>1 DEF ShapeOK
<1>4. ASSUME NEW i \in DOMAIN r, NEW j \in DOMAIN r, j > i, r[i].frame = Nobody
      PROVE  r[j].frame = Nobody
  <2>1. i + d \in DOMAIN s /\ j + d \in DOMAIN s /\ s[i + d].frame = Nobody
    BY <1>1, <1>4
  <2>2. i \in Nat /\ j \in Nat /\ j + d > i + d
    BY <1>4
  <2>3. s[j + d].frame = Nobody
    BY <2>1, <2>2 DEF ShapeOK
  <2> QED BY <1>1, <2>3
<1> QED BY <1>2, <1>3, <1>4 DEF ShapeOK

\* ... and calls nobody the whole would not have called.
LEMMA PartNotices ==
    ASSUME NEW s \in Seq(Phase), NEW r \in Seq(Phase), Part(r, s),
           NEW reg, NEW out, NEW del, NoticesOK(s, reg, out, del)
    PROVE  NoticesOK(r, reg, out, del) /\ Told(r) \subseteq Told(s)
<1>1. PICK d \in Nat : \A i \in DOMAIN r :
        /\ i + d \in DOMAIN s
        /\ r[i].op = s[i + d].op /\ r[i].out = s[i + d].out
        /\ r[i].frame = s[i + d].frame /\ r[i].cbs \subseteq s[i + d].cbs
  BY DEF Part
<1>2. ASSUME NEW i \in DOMAIN r, NEW c \in r[i].cbs
      PROVE  reg[c] # Nobody /\ out[reg[c]] = r[i].out /\ del[c] = "never"
  BY <1>1 DEF NoticesOK
<1>3. ASSUME NEW i \in DOMAIN r, NEW j \in DOMAIN r, r[i].cbs \cap r[j].cbs # {}
      PROVE  i = j
  <2>1. /\ i + d \in DOMAIN s /\ j + d \in DOMAIN s
        /\ s[i + d].cbs \cap s[j + d].cbs # {}
    BY <1>1, <1>3
  <2>2. i + d = j + d
    BY <2>1 DEF NoticesOK
  <2> QED BY <2>2
<1>4. Told(r) \subseteq Told(s)
  BY <1>1 DEF Told
<1> QED BY <1>2, <1>3, <1>4 DEF NoticesOK

\* The first phase done, or left with fewer elements.
LEMMA TailPart ==
    ASSUME NEW s \in Seq(Phase), s # <<>>
    PROVE  /\ Part(Tail(s), s)
           /\ \A p \in Phase :
                /\ p.op = s[1].op /\ p.out = s[1].out /\ p.frame = s[1].frame
                /\ p.cbs \subseteq s[1].cbs
                => Part(<<p>> \o Tail(s), s)
<1>1. \A i \in DOMAIN Tail(s) : i + 1 \in DOMAIN s /\ Tail(s)[i] = s[i + 1]
  OBVIOUS
<1>2. Part(Tail(s), s)
  BY <1>1 DEF Part
<1>3. ASSUME NEW p \in Phase, p.op = s[1].op, p.out = s[1].out, p.frame = s[1].frame,
             p.cbs \subseteq s[1].cbs
      PROVE  Part(<<p>> \o Tail(s), s)
  <2> DEFINE r == <<p>> \o Tail(s)
  <2>1. \A i \in DOMAIN r : i + 0 \in DOMAIN s /\ i + 0 = i
    OBVIOUS
  <2>2. r[1] = p
    OBVIOUS
  <2>3. \A i \in DOMAIN r : i # 1 => r[i] = s[i]
    OBVIOUS
  <2> QED BY <1>3, <2>1, <2>2, <2>3 DEF Part
<1> QED BY <1>2, <1>3

\* What an exception leaves of a stack.
LEMMA SubSeqPart ==
    ASSUME NEW s \in Seq(Phase), NEW n \in DOMAIN s
    PROVE  Part(SubSeq(s, n + 1, Len(s)), s) /\ SubSeq(s, n + 1, Len(s)) \in Seq(Phase)
<1> DEFINE r == SubSeq(s, n + 1, Len(s))
<1>1. r \in Seq(Phase) /\ \A i \in DOMAIN r : n + i \in DOMAIN s /\ r[i] = s[n + i]
  BY SubSeqProperties
<1>2. n \in Nat /\ \A i \in DOMAIN r : i + n = n + i
  BY <1>1
<1> HIDE DEF r
<1>3. Part(r, s)
  BY <1>1, <1>2 DEF Part
<1> QED BY <1>1, <1>3 DEF r

\* Two stacks, one after the other, owe what the two owe.
LEMMA ConcatOwes ==
    ASSUME NEW s \in Seq(Phase), NEW r \in Seq(Phase)
    PROVE  /\ Told(s \o r) = Told(s) \cup Told(r)
           /\ \A op : Owed(s \o r, op) = Owed(s, op) \cup Owed(r, op)
<1> DEFINE sr == s \o r
<1>1. \A i \in DOMAIN s : i \in DOMAIN sr /\ sr[i] = s[i]
  OBVIOUS
<1>2. \A i \in DOMAIN r : i + Len(s) \in DOMAIN sr /\ sr[i + Len(s)] = r[i]
  OBVIOUS
<1>3. \A i \in DOMAIN sr : i \notin DOMAIN s => i - Len(s) \in DOMAIN r /\ sr[i] = r[i - Len(s)]
  OBVIOUS
<1> HIDE DEF sr
<1>4. Told(sr) = Told(s) \cup Told(r)
  BY <1>1, <1>2, <1>3 DEF Told
<1>5. ASSUME NEW op PROVE Owed(sr, op) = Owed(s, op) \cup Owed(r, op)
  BY <1>1, <1>2, <1>3 DEF Owed
<1> QED BY <1>4, <1>5 DEF sr

\* A single phase owes its elements, and nothing owes nothing.
LEMMA OneOwes ==
    ASSUME NEW p \in Phase
    PROVE  /\ Told(<<p>>) = p.cbs /\ Told(<<>>) = {}
           /\ \A op : Owed(<<p>>, op) = (IF p.op = op THEN p.futs ELSE {}) /\ Owed(<<>>, op) = {}
<1>1. DOMAIN <<p>> = {1} /\ <<p>>[1] = p
  OBVIOUS
<1>2. p.cbs \subseteq Callback /\ p.futs \subseteq Future
  BY DEF Phase
<1> QED BY <1>1, <1>2 DEF Told, Owed

\* A stack owes what its first phase and the others owe.
LEMMA SplitOwes ==
    ASSUME NEW s \in Seq(Phase), s # <<>>
    PROVE  /\ Told(s) = s[1].cbs \cup Told(Tail(s))
           /\ \A op : Owed(s, op) = (IF s[1].op = op THEN s[1].futs ELSE {}) \cup Owed(Tail(s), op)
<1>1. s[1] \in Phase /\ Tail(s) \in Seq(Phase) /\ s = <<s[1]>> \o Tail(s)
  BY HeadTyped
<1> DEFINE p == s[1]
           r == Tail(s)
           q == <<p>>
<1>2. /\ q \in Seq(Phase) /\ r \in Seq(Phase) /\ s = q \o r
      /\ Told(q) = p.cbs /\ \A op : Owed(q, op) = (IF p.op = op THEN p.futs ELSE {})
  BY <1>1, OneOwes
<1> HIDE DEF p, q, r
<1>3. Told(s) = p.cbs \cup Told(r)
  BY <1>2, ConcatOwes
<1>4. ASSUME NEW op
      PROVE  Owed(s, op) = (IF p.op = op THEN p.futs ELSE {}) \cup Owed(r, op)
  BY <1>2, ConcatOwes
<1> QED BY <1>3, <1>4 DEF p, r

\* A Future of the first phase is done: no callback is forgotten, and no other
\* Future.
LEMMA WithoutFutureOwes ==
    ASSUME NEW s \in Seq(Phase), s # <<>>, ShapeOK(s), s[1].op \in {"enqueue", "cancel"},
           NEW f \in Future
    PROVE  /\ WithoutFuture(s, f) \in Seq(Phase) /\ Part(WithoutFuture(s, f), s)
           /\ Told(WithoutFuture(s, f)) = Told(s)
           /\ \A op : Owed(s, op) \subseteq Owed(WithoutFuture(s, f), op) \cup {f}
           /\ \A op : op # s[1].op => Owed(s, op) \subseteq Owed(WithoutFuture(s, f), op)
<1> DEFINE p == [s[1] EXCEPT !.futs = @ \ {f}]
           q == <<p>>
           r == Tail(s)
<1>1. /\ s[1] \in Phase /\ r \in Seq(Phase) /\ s[1].cbs = {}
  BY HeadTyped DEF ShapeOK
<1>2. /\ p \in Phase /\ p.op = s[1].op /\ p.out = s[1].out /\ p.frame = s[1].frame
      /\ p.cbs = {} /\ p.futs = s[1].futs \ {f}
  BY <1>1 DEF Phase
<1>3. Part(r, s) /\ Part(q \o r, s)
  BY <1>2, TailPart
<1>4. /\ q \in Seq(Phase) /\ Told(q) = {}
      /\ \A op : Owed(q, op) = (IF s[1].op = op THEN s[1].futs \ {f} ELSE {})
  <2> HIDE DEF p
  <2>1. q \in Seq(Phase) /\ Told(q) = p.cbs
    BY <1>2, OneOwes
  <2>2. \A op : Owed(q, op) = (IF p.op = op THEN p.futs ELSE {})
    BY <1>2, OneOwes
  <2> HIDE DEF q
  <2> QED BY <1>2, <2>1, <2>2
<1>5. /\ Told(s) = Told(r)
      /\ \A op : Owed(s, op) = (IF s[1].op = op THEN s[1].futs ELSE {}) \cup Owed(r, op)
  BY <1>1, SplitOwes
<1>6. WithoutFuture(s, f) = IF s[1].futs = {f} THEN <<>> \o r ELSE q \o r
  BY DEF WithoutFuture
<1>9. <<>> \o r = r
  BY <1>1
<1> HIDE DEF p, q, r
<1>7. /\ q \o r \in Seq(Phase) /\ Told(q \o r) = Told(q) \cup Told(r)
      /\ \A op : Owed(q \o r, op) = Owed(q, op) \cup Owed(r, op)
  <2>1. q \in Seq(Phase) /\ r \in Seq(Phase)
    BY <1>1, <1>4
  <2> QED BY <2>1, ConcatOwes
<1>8. CASE s[1].futs = {f}
  BY <1>1, <1>3, <1>5, <1>6, <1>8, <1>9
<1>10. CASE s[1].futs # {f}
  BY <1>3, <1>4, <1>5, <1>6, <1>7, <1>10
<1> QED BY <1>8, <1>10

\* A callback of the first phase is done: that one alone is gone.
LEMMA WithoutCallbackOwes ==
    ASSUME NEW s \in Seq(Phase), s # <<>>, s[1].op = "notify", NEW c \in s[1].cbs,
           NEW reg, NEW out, NEW del, NoticesOK(s, reg, out, del)
    PROVE  /\ WithoutCallback(s, c) \in Seq(Phase) /\ Part(WithoutCallback(s, c), s)
           /\ Told(WithoutCallback(s, c)) = Told(s) \ {c}
           /\ \A op : op # "notify" => Owed(s, op) \subseteq Owed(WithoutCallback(s, c), op)
<1> DEFINE p == [s[1] EXCEPT !.cbs = @ \ {c}]
           q == <<p>>
           r == Tail(s)
<1>1. s[1] \in Phase /\ r \in Seq(Phase) /\ 1 \in DOMAIN s
  BY HeadTyped
<1>2. /\ p \in Phase /\ p.op = s[1].op /\ p.out = s[1].out /\ p.frame = s[1].frame
      /\ p.cbs = s[1].cbs \ {c} /\ p.futs = s[1].futs
  BY <1>1 DEF Phase
<1>3. Part(r, s) /\ Part(q \o r, s)
  BY <1>2, TailPart
<1>4. /\ q \in Seq(Phase) /\ Told(q) = s[1].cbs \ {c}
      /\ \A op : Owed(q, op) = (IF s[1].op = op THEN s[1].futs ELSE {})
  <2> HIDE DEF p
  <2>1. q \in Seq(Phase) /\ Told(q) = p.cbs
    BY <1>2, OneOwes
  <2>2. \A op : Owed(q, op) = (IF p.op = op THEN p.futs ELSE {})
    BY <1>2, OneOwes
  <2> HIDE DEF q
  <2> QED BY <1>2, <2>1, <2>2
<1>5. /\ Told(s) = s[1].cbs \cup Told(r)
      /\ \A op : Owed(s, op) = (IF s[1].op = op THEN s[1].futs ELSE {}) \cup Owed(r, op)
  BY <1>1, SplitOwes
<1>6. WithoutCallback(s, c) = IF s[1].cbs = {c} THEN <<>> \o r ELSE q \o r
  BY DEF WithoutCallback
<1>7. c \notin Told(r)
  <2>1. \A i \in DOMAIN r : i + 1 \in DOMAIN s /\ r[i] = s[i + 1] /\ i + 1 # 1
    BY <1>1
  <2>2. \A i \in DOMAIN s : c \in s[i].cbs => i = 1
    BY <1>1 DEF NoticesOK
  <2> QED BY <2>1, <2>2 DEF Told
<1>9. <<>> \o r = r
  BY <1>1
<1> HIDE DEF p, q, r
<1>8. /\ q \o r \in Seq(Phase) /\ Told(q \o r) = Told(q) \cup Told(r)
      /\ \A op : Owed(q \o r, op) = Owed(q, op) \cup Owed(r, op)
  <2>1. q \in Seq(Phase) /\ r \in Seq(Phase)
    BY <1>1, <1>4
  <2> QED BY <2>1, ConcatOwes
<1>10. CASE s[1].cbs = {c}
  BY <1>1, <1>3, <1>5, <1>6, <1>7, <1>9, <1>10
<1>11. CASE s[1].cbs # {c}
  BY <1>3, <1>4, <1>5, <1>6, <1>7, <1>8, <1>11
<1> QED BY <1>10, <1>11

\* A signal or an erase is done: nothing else is gone.
LEMMA TailOwes ==
    ASSUME NEW s \in Seq(Phase), s # <<>>, ShapeOK(s), s[1].op \in {"signal", "erase"}
    PROVE  /\ Tail(s) \in Seq(Phase) /\ Part(Tail(s), s) /\ Told(Tail(s)) = Told(s)
           /\ \A op \in {"enqueue", "cancel"} : Owed(s, op) = Owed(Tail(s), op)
<1>1. s[1] \in Phase /\ Tail(s) \in Seq(Phase) /\ s[1].cbs = {} /\ Part(Tail(s), s)
  BY HeadTyped, TailPart DEF ShapeOK
<1>2. /\ Told(s) = s[1].cbs \cup Told(Tail(s))
      /\ \A op : Owed(s, op) = (IF s[1].op = op THEN s[1].futs ELSE {}) \cup Owed(Tail(s), op)
  BY SplitOwes
<1> QED BY <1>1, <1>2

\* An exception drops phases: what they owed is in the union of their elements.
LEMMA SubSeqOwes ==
    ASSUME NEW s \in Seq(Phase), NEW n \in DOMAIN s
    PROVE  LET r == SubSeq(s, n + 1, Len(s))
               gone == UNION {s[i].futs \cup s[i].cbs : i \in 1..n}
           IN  /\ Told(s) \subseteq Told(r) \cup gone
               /\ \A op : Owed(s, op) \subseteq Owed(r, op) \cup gone
<1> DEFINE r == SubSeq(s, n + 1, Len(s))
           gone == UNION {s[i].futs \cup s[i].cbs : i \in 1..n}
<1>1. n \in 1..Len(s) /\ DOMAIN s = 1..Len(s)
  OBVIOUS
<1>2. \A i \in DOMAIN s : i > n => i - n \in DOMAIN r /\ r[i - n] = s[i]
  <2>1. DOMAIN r = 1..(Len(s) - n) /\ \A j \in DOMAIN r : r[j] = s[n + j]
    BY <1>1, SubSeqProperties
  <2> HIDE DEF r
  <2> SUFFICES ASSUME NEW i \in DOMAIN s, i > n PROVE i - n \in DOMAIN r /\ r[i - n] = s[i]
    OBVIOUS
  <2>2. i - n \in DOMAIN r /\ n + (i - n) = i
    BY <1>1, <2>1
  <2> QED BY <2>1, <2>2
<1>3. \A i \in DOMAIN s : i <= n => s[i].futs \subseteq gone /\ s[i].cbs \subseteq gone
  BY <1>1
<1>4. \A i \in DOMAIN s : i > n \/ i <= n
  BY <1>1
<1> HIDE DEF r, gone
<1>5. Told(s) \subseteq Told(r) \cup gone
  BY <1>2, <1>3, <1>4 DEF Told
<1>6. ASSUME NEW op PROVE Owed(s, op) \subseteq Owed(r, op) \cup gone
  BY <1>2, <1>3, <1>4 DEF Owed
<1> QED BY <1>5, <1>6 DEF r, gone

\* All the phases of a stack belong to one frame.
Framed(s, fr) == \A i \in DOMAIN s : s[i].frame = fr

\* A single phase, and none.
LEMMA OneBuilt ==
    ASSUME NEW p \in Phase, p.op # "notify" => p.cbs = {},
           p.op \in {"enqueue", "erase"} => p.frame = Nobody
    PROVE  /\ <<p>> \in Seq(Phase) /\ ShapeOK(<<p>>) /\ Framed(<<p>>, p.frame)
           /\ <<>> \in Seq(Phase) /\ ShapeOK(<<>>) /\ \A fr : Framed(<<>>, fr)
<1>1. DOMAIN <<p>> = {1} /\ <<p>>[1] = p
  OBVIOUS
<1>2. ShapeOK(<<p>>)
  <2> DEFINE q == <<p>>
  <2>1. DOMAIN q = {1} /\ q[1] = p
    BY <1>1
  <2> HIDE DEF q
  <2>2. ShapeOK(q)
    BY <2>1 DEF ShapeOK
  <2> QED BY <2>2 DEF q
<1>3. Framed(<<p>>, p.frame) /\ ShapeOK(<<>>) /\ \A fr : Framed(<<>>, fr)
  BY <1>1 DEF Framed, ShapeOK
<1> QED BY <1>2, <1>3

\* Well-built stacks, one after the other.
LEMMA ConcatBuilt ==
    ASSUME NEW s \in Seq(Phase), NEW r \in Seq(Phase), NEW fr, ShapeOK(s), ShapeOK(r),
           Framed(s, fr), fr = Nobody => Framed(r, Nobody)
    PROVE  s \o r \in Seq(Phase) /\ ShapeOK(s \o r) /\ (Framed(r, fr) => Framed(s \o r, fr))
<1> DEFINE sr == s \o r
<1>1. \A i \in DOMAIN sr :
        \/ i \in DOMAIN s /\ sr[i] = s[i]
        \/ i \notin DOMAIN s /\ i - Len(s) \in DOMAIN r /\ sr[i] = r[i - Len(s)]
  OBVIOUS
<1>2. /\ sr \in Seq(Phase)
      /\ \A i \in DOMAIN s, j \in Nat : j < i /\ j > 0 => j \in DOMAIN s
      /\ DOMAIN sr \subseteq Nat \ {0}
  OBVIOUS
<1> HIDE DEF sr
<1>3. ASSUME NEW i \in DOMAIN sr PROVE sr[i].op # "notify" => sr[i].cbs = {}
  BY <1>1 DEF ShapeOK
<1>4. ASSUME NEW i \in DOMAIN sr
      PROVE  sr[i].op \in {"enqueue", "erase"} => sr[i].frame = Nobody
  BY <1>1 DEF ShapeOK
<1>5. ASSUME NEW i \in DOMAIN sr, NEW j \in DOMAIN sr, j > i, sr[i].frame = Nobody
      PROVE  sr[j].frame = Nobody
  <2>1. CASE i \in DOMAIN s
    <3>1. fr = Nobody
      BY <1>1, <1>5, <2>1 DEF Framed
    <3> QED BY <1>1, <3>1 DEF Framed
  <2>2. CASE i \notin DOMAIN s
    <3>1. i - Len(s) \in DOMAIN r /\ r[i - Len(s)].frame = Nobody
      BY <1>1, <1>5, <2>2
    <3>2. j \notin DOMAIN s
      BY <1>2, <1>5, <2>2
    <3>3. j - Len(s) \in DOMAIN r /\ sr[j] = r[j - Len(s)] /\ j - Len(s) > i - Len(s)
      BY <1>1, <1>2, <1>5, <3>2
    <3> QED BY <3>1, <3>3 DEF ShapeOK
  <2> QED BY <2>1, <2>2
<1>6. Framed(r, fr) => Framed(sr, fr)
  BY <1>1 DEF Framed
<1> QED BY <1>2, <1>3, <1>4, <1>5, <1>6 DEF ShapeOK, sr

\* The elements of a phase.
LEMMA ElementsTyped ==
    ASSUME NEW s \in Seq(Phase), NEW i \in DOMAIN s
    PROVE  s[i] \in Phase /\ s[i].cbs \subseteq Callback /\ s[i].futs \subseteq Future
<1>1. s[i] \in Phase
  OBVIOUS
<1>2. \A p \in Phase : p.cbs \subseteq Callback /\ p.futs \subseteq Future
  BY DEF Phase
<1> QED BY <1>1, <1>2

\* Two stacks that call different callbacks.
LEMMA ConcatNotices ==
    ASSUME NEW s \in Seq(Phase), NEW r \in Seq(Phase), NEW reg, NEW out, NEW del,
           NoticesOK(s, reg, out, del), NoticesOK(r, reg, out, del),
           Told(s) \cap Told(r) = {}
    PROVE  NoticesOK(s \o r, reg, out, del)
<1> DEFINE sr == s \o r
<1>1. \A i \in DOMAIN sr :
        \/ i \in DOMAIN s /\ sr[i] = s[i]
        \/ i \notin DOMAIN s /\ i - Len(s) \in DOMAIN r /\ sr[i] = r[i - Len(s)]
  OBVIOUS
<1>2. /\ \A i \in DOMAIN s : s[i].cbs \subseteq Callback
      /\ \A i \in DOMAIN r : r[i].cbs \subseteq Callback
  BY ElementsTyped
<1>3. DOMAIN sr \subseteq Int /\ Len(s) \in Int
  OBVIOUS
<1> HIDE DEF sr
<1>4. ASSUME NEW i \in DOMAIN sr, NEW c \in sr[i].cbs
      PROVE  reg[c] # Nobody /\ out[reg[c]] = sr[i].out /\ del[c] = "never"
  BY <1>1 DEF NoticesOK
<1>5. ASSUME NEW i \in DOMAIN sr, NEW j \in DOMAIN sr, NEW c \in sr[i].cbs \cap sr[j].cbs
      PROVE  i = j
  <2>1. CASE i \in DOMAIN s /\ j \in DOMAIN s
    BY <1>1, <1>5, <2>1 DEF NoticesOK
  <2>2. CASE i \notin DOMAIN s /\ j \notin DOMAIN s
    <3>1. i - Len(s) = j - Len(s)
      BY <1>1, <1>5, <2>2 DEF NoticesOK
    <3> QED BY <1>3, <3>1
  <2>3. CASE i \in DOMAIN s /\ j \notin DOMAIN s
    BY <1>1, <1>2, <1>5, <2>3 DEF Told
  <2>4. CASE i \notin DOMAIN s /\ j \in DOMAIN s
    BY <1>1, <1>2, <1>5, <2>4 DEF Told
  <2> QED BY <2>1, <2>2, <2>3, <2>4
<1> QED BY <1>4, <1>5 DEF NoticesOK, sr

\* A stack that calls nobody, and one of a single phase.
LEMMA OneNotices ==
    ASSUME NEW reg, NEW out, NEW del
    PROVE  /\ \A s \in Seq(Phase) : Told(s) = {} => NoticesOK(s, reg, out, del)
           /\ \A p \in Phase :
                (\A c \in p.cbs : reg[c] # Nobody /\ out[reg[c]] = p.out /\ del[c] = "never")
                => NoticesOK(<<p>>, reg, out, del)
<1>1. ASSUME NEW s \in Seq(Phase), Told(s) = {} PROVE NoticesOK(s, reg, out, del)
  <2>1. \A i \in DOMAIN s : s[i].cbs \subseteq Callback
    BY ElementsTyped
  <2>2. \A i \in DOMAIN s : s[i].cbs = {}
    BY <1>1, <2>1 DEF Told
  <2> QED BY <2>2 DEF NoticesOK
<1>2. ASSUME NEW p \in Phase,
             \A c \in p.cbs : reg[c] # Nobody /\ out[reg[c]] = p.out /\ del[c] = "never"
      PROVE  NoticesOK(<<p>>, reg, out, del)
  <2> DEFINE q == <<p>>
  <2>1. DOMAIN q = {1} /\ q[1] = p
    OBVIOUS
  <2> HIDE DEF q
  <2>2. NoticesOK(q, reg, out, del)
    BY <1>2, <2>1 DEF NoticesOK
  <2> QED BY <2>2 DEF q
<1> QED BY <1>1, <1>2

\* What the constructors build.
LEMMA EnqueueBuilt ==
    ASSUME NEW fs \in SUBSET Future
    PROVE  /\ Enqueue(fs) \in Seq(Phase) /\ ShapeOK(Enqueue(fs)) /\ Framed(Enqueue(fs), Nobody)
           /\ Told(Enqueue(fs)) = {} /\ Owed(Enqueue(fs), "enqueue") = fs
<1> DEFINE p == [Blank EXCEPT !.op = "enqueue", !.futs = fs]
<1>1. /\ p \in Phase /\ p.op = "enqueue" /\ p.futs = fs /\ p.cbs = {} /\ p.frame = Nobody
  BY BlankTyped DEF Phase, Blank
<1>2. Enqueue(fs) = IF fs = {} THEN <<>> ELSE <<p>>
  BY DEF Enqueue
<1> HIDE DEF p
<1>3. /\ <<p>> \in Seq(Phase) /\ ShapeOK(<<p>>) /\ Framed(<<p>>, Nobody)
      /\ <<>> \in Seq(Phase) /\ ShapeOK(<<>>) /\ Framed(<<>>, Nobody)
  BY <1>1, OneBuilt
<1>4. /\ Told(<<p>>) = {} /\ Told(<<>>) = {} /\ Owed(<<p>>, "enqueue") = fs
      /\ Owed(<<>>, "enqueue") = {}
  BY <1>1, OneOwes
<1> QED BY <1>2, <1>3, <1>4

\* The calls of a settled Future to its callbacks.
LEMMA NotifyBuilt ==
    ASSUME NEW cs \in SUBSET Callback, NEW o \in Outcome, NEW fr \in Future \cup {Nobody}
    PROVE  /\ Notify(cs, o, fr) \in Seq(Phase) /\ ShapeOK(Notify(cs, o, fr))
           /\ Framed(Notify(cs, o, fr), fr) /\ Told(Notify(cs, o, fr)) = cs
<1> DEFINE p == [Blank EXCEPT !.op = "notify", !.cbs = cs, !.out = o, !.frame = fr]
<1>1. p \in Phase /\ p.op = "notify" /\ p.cbs = cs /\ p.frame = fr
  BY BlankTyped DEF Phase, Blank
<1>2. Notify(cs, o, fr) = IF cs = {} THEN <<>> ELSE <<p>>
  BY DEF Notify
<1> HIDE DEF p
<1>3. /\ <<p>> \in Seq(Phase) /\ ShapeOK(<<p>>) /\ Framed(<<p>>, fr)
      /\ <<>> \in Seq(Phase) /\ ShapeOK(<<>>) /\ Framed(<<>>, fr)
  BY <1>1, OneBuilt
<1>4. Told(<<p>>) = cs /\ Told(<<>>) = {}
  BY <1>1, OneOwes
<1> QED BY <1>2, <1>3, <1>4

\* ... are right when the outcome is that of the Future they are registered on.
LEMMA NotifyNotices ==
    ASSUME NEW cs \in SUBSET Callback, NEW o \in Outcome, NEW fr \in Future \cup {Nobody},
           NEW reg, NEW out, NEW del,
           \A c \in cs : reg[c] # Nobody /\ out[reg[c]] = o /\ del[c] = "never"
    PROVE  NoticesOK(Notify(cs, o, fr), reg, out, del)
<1> DEFINE p == [Blank EXCEPT !.op = "notify", !.cbs = cs, !.out = o, !.frame = fr]
<1>1. p \in Phase /\ p.cbs = cs /\ p.out = o
  BY BlankTyped DEF Phase, Blank
<1>2. Notify(cs, o, fr) = IF cs = {} THEN <<>> ELSE <<p>>
  BY DEF Notify
<1> HIDE DEF p
<1>3. <<>> \in Seq(Phase) /\ Told(<<>>) = {}
  <2>1. Told(<<>>) = {}
    BY <1>1, OneOwes
  <2> QED BY <2>1
<1>4. NoticesOK(<<p>>, reg, out, del) /\ NoticesOK(<<>>, reg, out, del)
  BY <1>1, <1>3, OneNotices
<1> QED BY <1>2, <1>4

\* The signal of a cancellation.
LEMMA SignalBuilt ==
    ASSUME NEW f \in Future, NEW w \in Worker \cup {Nobody}, NEW fr \in Future \cup {Nobody}
    PROVE  /\ Signal(f, w, fr) \in Seq(Phase) /\ ShapeOK(Signal(f, w, fr))
           /\ Framed(Signal(f, w, fr), fr) /\ Told(Signal(f, w, fr)) = {}
<1> DEFINE p == [Blank EXCEPT !.op = "signal", !.futs = {f}, !.wrk = w, !.frame = fr]
<1>1. /\ p \in Phase /\ p.op = "signal" /\ p.cbs = {} /\ p.frame = fr
  BY BlankTyped DEF Phase, Blank
<1>2. Signal(f, w, fr) = IF w = Nobody THEN <<>> ELSE <<p>>
  BY DEF Signal
<1> HIDE DEF p
<1>3. /\ <<p>> \in Seq(Phase) /\ ShapeOK(<<p>>) /\ Framed(<<p>>, fr)
      /\ <<>> \in Seq(Phase) /\ ShapeOK(<<>>) /\ Framed(<<>>, fr)
  BY <1>1, OneBuilt
<1>4. Told(<<p>>) = {} /\ Told(<<>>) = {}
  BY <1>1, OneOwes
<1> QED BY <1>2, <1>3, <1>4

\* The children a cancellation follows.
LEMMA CancelAllBuilt ==
    ASSUME NEW fs \in SUBSET Future, NEW fr \in Future \cup {Nobody}
    PROVE  /\ CancelAll(fs, fr) \in Seq(Phase) /\ ShapeOK(CancelAll(fs, fr))
           /\ Framed(CancelAll(fs, fr), fr) /\ Told(CancelAll(fs, fr)) = {}
           /\ Owed(CancelAll(fs, fr), "cancel") = fs
<1> DEFINE p == [Blank EXCEPT !.op = "cancel", !.futs = fs, !.frame = fr]
<1>1. /\ p \in Phase /\ p.op = "cancel" /\ p.futs = fs /\ p.cbs = {} /\ p.frame = fr
  BY BlankTyped DEF Phase, Blank
<1>2. CancelAll(fs, fr) = IF fs = {} THEN <<>> ELSE <<p>>
  BY DEF CancelAll
<1> HIDE DEF p
<1>3. /\ <<p>> \in Seq(Phase) /\ ShapeOK(<<p>>) /\ Framed(<<p>>, fr)
      /\ <<>> \in Seq(Phase) /\ ShapeOK(<<>>) /\ Framed(<<>>, fr)
  BY <1>1, OneBuilt
<1>4. /\ Told(<<p>>) = {} /\ Told(<<>>) = {} /\ Owed(<<p>>, "cancel") = fs
      /\ Owed(<<>>, "cancel") = {}
  BY <1>1, OneOwes
<1> QED BY <1>2, <1>3, <1>4

\* The removal at the end of a destroy.
LEMMA EraseBuilt ==
    ASSUME NEW f \in Future
    PROVE  /\ Erase(f) \in Seq(Phase) /\ ShapeOK(Erase(f)) /\ Framed(Erase(f), Nobody)
           /\ Told(Erase(f)) = {}
<1> DEFINE p == [Blank EXCEPT !.op = "erase", !.futs = {f}]
<1>1. /\ p \in Phase /\ p.op = "erase" /\ p.cbs = {} /\ p.frame = Nobody
  BY BlankTyped DEF Phase, Blank
<1>2. Erase(f) = <<p>>
  BY DEF Erase
<1> HIDE DEF p
<1> QED BY <1>1, <1>2, OneBuilt, OneOwes

\* What a completion leaves for after the unlock: calls and tasks.
LEMMA HandlersBuilt ==
    ASSUME TypeOK, NEW f \in Future, NEW o \in Outcome
    PROVE  /\ TerminalHandlers(f, o) \in Seq(Phase) /\ ShapeOK(TerminalHandlers(f, o))
           /\ Framed(TerminalHandlers(f, o), Nobody)
           /\ Told(TerminalHandlers(f, o)) = watchers[f]
           /\ conts[f] \subseteq Owed(TerminalHandlers(f, o), "enqueue")
<1> DEFINE a == Notify(watchers[f], o, Nobody)
           b == Enqueue(conts[f])
<1>1. watchers[f] \in SUBSET Callback /\ conts[f] \in SUBSET Future
  BY DEF TypeOK
<1>2. a \in Seq(Phase) /\ ShapeOK(a) /\ Framed(a, Nobody) /\ Told(a) = watchers[f]
  BY <1>1, NotifyBuilt
<1>3. /\ b \in Seq(Phase) /\ ShapeOK(b) /\ Framed(b, Nobody) /\ Told(b) = {}
      /\ Owed(b, "enqueue") = conts[f]
  BY <1>1, EnqueueBuilt
<1>4. TerminalHandlers(f, o) = a \o b
  BY DEF TerminalHandlers
<1> HIDE DEF a, b
<1>5. a \o b \in Seq(Phase) /\ ShapeOK(a \o b) /\ Framed(a \o b, Nobody)
  BY <1>2, <1>3, ConcatBuilt
<1>6. Told(a \o b) = watchers[f] /\ conts[f] \subseteq Owed(a \o b, "enqueue")
  <2>1. /\ Told(a \o b) = Told(a) \cup Told(b)
        /\ Owed(a \o b, "enqueue") = Owed(a, "enqueue") \cup Owed(b, "enqueue")
    BY <1>2, <1>3, ConcatOwes
  <2> QED BY <1>2, <1>3, <2>1
<1> QED BY <1>4, <1>5, <1>6

\* What a cancellation leaves: a signal, calls and the children.
LEMMA CancelBuilt ==
    ASSUME TypeOK, NEW f \in Future, NEW fr \in Future \cup {Nobody}
    PROVE  /\ CancelWork(f, fr) \in Seq(Phase) /\ ShapeOK(CancelWork(f, fr))
           /\ Framed(CancelWork(f, fr), fr) /\ Told(CancelWork(f, fr)) = watchers[f]
           /\ kids[f] \subseteq Owed(CancelWork(f, fr), "cancel")
<1> DEFINE a == Signal(f, thread[f], fr)
           b == Notify(watchers[f], "cancelled", fr)
           c == CancelAll(kids[f], fr)
           d == a \o b
<1>1. /\ watchers[f] \in SUBSET Callback /\ kids[f] \in SUBSET Future
      /\ thread[f] \in Worker \cup {Nobody} /\ "cancelled" \in Outcome
  BY DEF TypeOK, Outcome
<1>2. a \in Seq(Phase) /\ ShapeOK(a) /\ Framed(a, fr) /\ Told(a) = {}
  BY <1>1, SignalBuilt
<1>3. b \in Seq(Phase) /\ ShapeOK(b) /\ Framed(b, fr) /\ Told(b) = watchers[f]
  BY <1>1, NotifyBuilt
<1>4. /\ c \in Seq(Phase) /\ ShapeOK(c) /\ Framed(c, fr) /\ Told(c) = {}
      /\ Owed(c, "cancel") = kids[f]
  BY <1>1, CancelAllBuilt
<1>5. CancelWork(f, fr) = d \o c
  BY DEF CancelWork
<1> HIDE DEF a, b, c
<1>6. d \in Seq(Phase) /\ ShapeOK(d) /\ Framed(d, fr) /\ Told(d) = watchers[f]
  <2>1. d \in Seq(Phase) /\ ShapeOK(d) /\ Framed(d, fr)
    BY <1>2, <1>3, ConcatBuilt
  <2>2. Told(d) = Told(a) \cup Told(b)
    BY <1>2, <1>3, ConcatOwes
  <2> QED BY <1>2, <1>3, <2>1, <2>2
<1> HIDE DEF d
<1>7. d \o c \in Seq(Phase) /\ ShapeOK(d \o c) /\ Framed(d \o c, fr)
  BY <1>4, <1>6, ConcatBuilt
<1>8. Told(d \o c) = watchers[f] /\ kids[f] \subseteq Owed(d \o c, "cancel")
  <2>1. /\ Told(d \o c) = Told(d) \cup Told(c)
        /\ Owed(d \o c, "cancel") = Owed(d, "cancel") \cup Owed(c, "cancel")
    BY <1>4, <1>6, ConcatOwes
  <2> QED BY <1>4, <1>6, <2>1
<1> QED BY <1>5, <1>7, <1>8

\* Both call the callbacks rightly when the outcome is what those are owed.
LEMMA SettledNotices ==
    ASSUME TypeOK, NEW f \in Future, NEW o \in Outcome, NEW fr \in Future \cup {Nobody},
           NEW reg, NEW out, NEW del,
           \A c \in watchers[f] : reg[c] # Nobody /\ out[reg[c]] = o /\ del[c] = "never"
    PROVE  /\ NoticesOK(TerminalHandlers(f, o), reg, out, del)
           /\ o = "cancelled" => NoticesOK(CancelWork(f, fr), reg, out, del)
<1> DEFINE b(p) == Notify(watchers[f], o, p)
<1>1. /\ watchers[f] \in SUBSET Callback /\ conts[f] \in SUBSET Future
      /\ kids[f] \in SUBSET Future /\ thread[f] \in Worker \cup {Nobody}
  BY DEF TypeOK
<1>2. ASSUME NEW p \in Future \cup {Nobody}
      PROVE  b(p) \in Seq(Phase) /\ NoticesOK(b(p), reg, out, del)
  BY <1>1, NotifyBuilt, NotifyNotices
<1>3. NoticesOK(TerminalHandlers(f, o), reg, out, del)
  <2> DEFINE a == b(Nobody)
             e == Enqueue(conts[f])
  <2>1. a \in Seq(Phase) /\ NoticesOK(a, reg, out, del)
    BY <1>2
  <2>2. e \in Seq(Phase) /\ Told(e) = {}
    BY <1>1, EnqueueBuilt
  <2>3. TerminalHandlers(f, o) = a \o e
    BY DEF TerminalHandlers
  <2> HIDE DEF a, e
  <2>4. NoticesOK(e, reg, out, del) /\ Told(a) \cap Told(e) = {}
    BY <2>2, OneNotices
  <2> QED BY <2>1, <2>2, <2>3, <2>4, ConcatNotices
<1>4. ASSUME o = "cancelled" PROVE NoticesOK(CancelWork(f, fr), reg, out, del)
  <2> DEFINE s == Signal(f, thread[f], fr)
             a == b(fr)
             e == CancelAll(kids[f], fr)
             d == s \o a
  <2>1. a \in Seq(Phase) /\ NoticesOK(a, reg, out, del)
    BY <1>2
  <2>2. e \in Seq(Phase) /\ Told(e) = {}
    BY <1>1, CancelAllBuilt
  <2>3. s \in Seq(Phase) /\ Told(s) = {}
    BY <1>1, SignalBuilt
  <2>4. CancelWork(f, fr) = d \o e
    BY <1>4 DEF CancelWork
  <2> HIDE DEF s, a, e
  <2>5. NoticesOK(e, reg, out, del) /\ NoticesOK(s, reg, out, del)
    BY <2>2, <2>3, OneNotices
  <2>6. d \in Seq(Phase) /\ NoticesOK(d, reg, out, del)
    BY <2>1, <2>3, <2>5, ConcatNotices
  <2> HIDE DEF d
  <2> QED BY <2>2, <2>4, <2>5, <2>6, ConcatNotices
<1> QED BY <1>3, <1>4

-----------------------------------------------------------------------------
(* Every step is of one of seven kinds, and leaves a rest of the stack of   *)
(* its thread, below what the kind pushes.                                  *)

\* The tasks the pool has: queued, or dequeued and not yet claimed.
Placed ==
    {f \in Future : \/ \E i \in DOMAIN queue : queue[i] = f
                    \/ \E w \in Worker : pc[w] = "dequeued" /\ held[w] = f}

\* What is no longer owed by the rest was done, or lost to an exception.
Remains(t, rest) ==
    /\ rest \in Seq(Phase) /\ Part(rest, todo[t]) /\ lost \subseteq lost'
    /\ Told(todo[t]) \subseteq
         Told(rest) \cup lost' \cup {c \in Callback : delivered'[c] # "never"}
    /\ Owed(todo[t], "cancel") \subseteq
         Owed(rest, "cancel") \cup lost' \cup {f \in Future : state'[f] \notin Live}
    /\ Owed(todo[t], "enqueue") \cup Placed \subseteq
         Owed(rest, "enqueue") \cup lost' \cup Placed' \cup {f \in Future : state'[f] # "pending"}

promises == <<outcome, watchers, registered, delivered>>
links == <<created, conts, kids, origin, parent>>

\* A Future is created, and its task handed over with it, or to its parent.
Opens(push, rest) ==
    \E p \in Future \cup {Nobody}, how \in {"task", "deferred", "continuation"}, link \in BOOLEAN :
        /\ Create(p, how, link) /\ UNCHANGED promises /\ rest = <<>>
        /\ \/ /\ how = "task" /\ link /\ push = Enqueue({created + 1}) /\ UNCHANGED conts
           \/ /\ how = "deferred" /\ link /\ push = <<>> /\ UNCHANGED conts
           \/ /\ how = "continuation" /\ link /\ push = <<>> /\ p # Nobody /\ state[p] \in Live
              /\ conts' = [conts EXCEPT ![p] = @ \cup {created + 1}]
           \/ /\ how = "continuation" /\ push = Enqueue({created + 1}) /\ UNCHANGED conts
              /\ p # Nobody /\ state[p] = "completed"
           \/ /\ how = "continuation" /\ push = CancelAll({created + 1}, Nobody)
              /\ UNCHANGED conts /\ p # Nobody /\ state[p] = "cancelled"

\* A live Future settles, and its handlers are taken.
Settles(push, rest) ==
    \E f \in Future, o \in Outcome, fr \in Future \cup {Nobody} :
        /\ state[f] \in Live /\ outcome' = [outcome EXCEPT ![f] = o] /\ DropHandlers(f)
        /\ UNCHANGED <<created, origin, parent, registered, delivered>>
        /\ \/ /\ state' = [state EXCEPT ![f] = "completed"]
              /\ push = TerminalHandlers(f, o) /\ Framed(rest, Nobody)
           \/ /\ state' = [state EXCEPT ![f] = "cancelled"] /\ o = "cancelled"
              /\ push = CancelWork(f, fr) /\ (fr = Nobody => rest = <<>>)

\* A callback is registered.
Registers(push, rest) ==
    \E f \in Future, c \in Callback :
        /\ registered[c] = Nobody /\ registered' = [registered EXCEPT ![c] = f]
        /\ UNCHANGED <<state, outcome, delivered, links>> /\ rest = <<>>
        /\ \/ /\ state[f] \in Live /\ push = <<>>
              /\ watchers' = [watchers EXCEPT ![f] = @ \cup {c}]
           \/ /\ state[f] \in Terminal /\ push = Notify({c}, outcome[f], Nobody)
              /\ UNCHANGED watchers

\* A callback is called, with the outcome of the Future it was registered on.
Calls(t, push, rest) ==
    \E c \in Told(todo[t]) :
        /\ delivered[c] = "never" /\ registered[c] # Nobody
        /\ outcome[registered[c]] \in Outcome
        /\ delivered' = [delivered EXCEPT ![c] = outcome[registered[c]]]
        /\ c \notin Told(rest) /\ push = <<>>
        /\ UNCHANGED <<state, outcome, watchers, registered, links>>

\* The facts of a Future are erased; what waited on it is lost.
Erases(push) ==
    \E f \in Future :
        /\ state[f] # "absent" /\ state' = [state EXCEPT ![f] = "destroyed"] /\ push = <<>>
        /\ watchers' = [watchers EXCEPT ![f] = {}] /\ conts' = [conts EXCEPT ![f] = {}]
        /\ kids' = [p \in Future |-> IF p = f THEN {} ELSE kids[p] \ {f}]
        /\ state[f] \in Live => watchers[f] \cup conts[f] \subseteq lost'
        /\ UNCHANGED <<created, outcome, registered, delivered, origin, parent>>

\* A pending task is claimed.
Claims(push) ==
    /\ UNCHANGED <<promises, links>> /\ push = <<>>
    /\ \E f \in Future : state[f] = "pending" /\ state' = [state EXCEPT ![f] = "running"]

\* Nothing changes but the pool and the stacks.
Works(push, rest) ==
    /\ UNCHANGED <<state, promises, links>>
    /\ \/ push = <<>>
       \/ /\ rest = <<>>
          /\ \E f \in Future :
                push = (IF state[f] \in Live THEN CancelAll({f}, Nobody) ELSE <<>>) \o Erase(f)

Kind(t, push, rest) ==
    \/ Opens(push, rest) \/ Settles(push, rest) \/ Registers(push, rest)
    \/ Calls(t, push, rest) \/ Erases(push) \/ Claims(push) \/ Works(push, rest)

Move(t) ==
    \E push \in Seq(Phase), rest \in Seq(Phase) :
        /\ todo' = [todo EXCEPT ![t] = push \o rest]
        /\ Remains(t, rest) /\ Kind(t, push, rest)

-----------------------------------------------------------------------------
(* What the kinds of step keep.                                            *)

\* The next Future is a new one.
LEMMA NextIsFresh ==
    ASSUME TypeOK, FreshOK, created < MaxFutures
    PROVE  created + 1 \in Future /\ state[created + 1] = "absent"
  BY BoundAssumption DEF TypeOK, FreshOK, Future

\* Unsettled Futures have no outcome, and called callbacks a settled Future.
LEMMA KindOpen ==
    ASSUME TypeOK, FreshOK, OpenOK, CalledOK, NEW t \in Thread, NEW push, NEW rest,
           Kind(t, push, rest)
    PROVE  OpenOK' /\ CalledOK'
<1> USE DEF TypeOK, OpenOK, CalledOK, promises, links
<1>1. CASE Opens(push, rest)
  <2>1. /\ state' = [state EXCEPT ![created + 1] = "pending"] /\ UNCHANGED promises
        /\ created < MaxFutures
    BY <1>1 DEF Opens, Create
  <2> QED BY <2>1, NextIsFresh
<1>2. CASE Settles(push, rest)
  <2>1. PICK f \in Future, o \in Outcome :
          /\ state[f] \in Live /\ outcome' = [outcome EXCEPT ![f] = o]
          /\ UNCHANGED <<registered, delivered>>
          /\ \/ state' = [state EXCEPT ![f] = "completed"]
             \/ state' = [state EXCEPT ![f] = "cancelled"]
    BY <1>2 DEF Settles
  <2>2. \A g \in Future : g # f => state'[g] = state[g] /\ outcome'[g] = outcome[g]
    BY <2>1
  <2>3. state'[f] \notin Live \cup {"absent"} /\ outcome'[f] # "open"
    BY <2>1 DEF Live, Outcome, GoalOutcome
  <2>4. \A c \in Callback : registered[c] # Nobody => registered[c] \in Future
    OBVIOUS
  <2> QED BY <2>1, <2>2, <2>3, <2>4
<1>3. CASE Registers(push, rest)
  BY <1>3 DEF Registers
<1>4. CASE Calls(t, push, rest)
  <2>1. PICK c \in Told(todo[t]) :
          /\ registered[c] # Nobody /\ outcome[registered[c]] \in Outcome
          /\ delivered' = [delivered EXCEPT ![c] = outcome[registered[c]]]
          /\ UNCHANGED <<state, outcome, registered>>
    BY <1>4 DEF Calls
  <2>2. outcome[registered[c]] # "open"
    BY <2>1 DEF Outcome, GoalOutcome
  <2>3. \A b \in Callback : b # c => delivered'[b] = delivered[b]
    BY <2>1
  <2> QED BY <2>1, <2>2, <2>3
<1>5. CASE Erases(push)
  BY <1>5 DEF Erases, Live
<1>6. CASE Claims(push)
  BY <1>6 DEF Claims, Live
<1>7. CASE Works(push, rest)
  BY <1>7 DEF Works
<1> QED BY <1>1, <1>2, <1>3, <1>4, <1>5, <1>6, <1>7 DEF Kind

\* Handlers wait on live Futures.
LEMMA KindWaits ==
    ASSUME TypeOK, FreshOK, WatchOK, ContsOK, NEW t \in Thread, NEW push, NEW rest,
           Kind(t, push, rest)
    PROVE  WatchOK' /\ ContsOK'
<1> USE DEF TypeOK, WatchOK, ContsOK, promises, links
<1>1. CASE Opens(push, rest)
  <2> DEFINE n == created + 1
  <2>1. PICK p \in Future \cup {Nobody} :
          /\ state' = [state EXCEPT ![n] = "pending"] /\ UNCHANGED promises
          /\ parent' = [parent EXCEPT ![n] = p] /\ created < MaxFutures
          /\ \/ UNCHANGED conts
             \/ p # Nobody /\ state[p] \in Live /\ conts' = [conts EXCEPT ![p] = @ \cup {n}]
    BY <1>1 DEF Opens, Create
  <2>2. n \in Future /\ state[n] = "absent"
    BY <2>1, NextIsFresh
  <2> HIDE DEF n
  <2>3. /\ \A g \in Future : g # n => state'[g] = state[g] /\ parent'[g] = parent[g]
        /\ state'[n] = "pending" /\ parent'[n] = p
    BY <2>1, <2>2
  <2>4. WatchOK'
    BY <2>1, <2>2, <2>3 DEF Live
  <2>5. ASSUME NEW q \in Future, NEW g \in conts[q]
        PROVE  /\ state'[q] \in Live /\ parent'[g] = q /\ state'[g] # "absent"
    <3>1. g \in Future /\ state[q] \in Live /\ parent[g] = q /\ state[g] # "absent"
      BY <2>5
    <3>2. q # n /\ g # n
      BY <2>2, <3>1 DEF Live
    <3> QED BY <2>3, <3>1, <3>2
  <2>6. ASSUME NEW q \in Future, NEW g \in conts'[q]
        PROVE  /\ state'[q] \in Live /\ parent'[g] = q /\ state'[g] # "absent"
    <3>1. CASE g \in conts[q]
      BY <2>5, <3>1
    <3>2. CASE g \notin conts[q]
      <4>1. p # Nobody /\ state[p] \in Live /\ conts' = [conts EXCEPT ![p] = @ \cup {n}]
        BY <2>1, <2>6, <3>2
      <4>2. p \in Future /\ p # n
        BY <2>2, <4>1 DEF Live
      <4>3. q = p /\ g = n
        BY <2>6, <3>2, <4>1, <4>2
      <4> QED BY <2>3, <4>1, <4>2, <4>3
    <3> QED BY <3>1, <3>2
  <2>7. ContsOK'
    BY <2>6
  <2> QED BY <2>4, <2>7
<1>2. CASE Settles(push, rest)
  <2>1. PICK f \in Future :
          /\ DropHandlers(f) /\ UNCHANGED <<parent, registered>>
          /\ \/ state' = [state EXCEPT ![f] = "completed"]
             \/ state' = [state EXCEPT ![f] = "cancelled"]
    BY <1>2 DEF Settles
  <2>2. /\ \A g \in Future : g # f => /\ state'[g] = state[g] /\ watchers'[g] = watchers[g]
                                       /\ conts'[g] = conts[g]
        /\ watchers'[f] = {} /\ conts'[f] = {} /\ state'[f] # "absent"
    BY <2>1 DEF DropHandlers
  <2> QED BY <2>1, <2>2
<1>3. CASE Registers(push, rest)
  <2>1. PICK f \in Future, c \in Callback :
          /\ registered[c] = Nobody /\ registered' = [registered EXCEPT ![c] = f]
          /\ UNCHANGED <<state, conts, parent>>
          /\ \/ state[f] \in Live /\ watchers' = [watchers EXCEPT ![f] = @ \cup {c}]
             \/ UNCHANGED watchers
    BY <1>3 DEF Registers
  <2>2. \A g \in Future : c \notin watchers[g]
    BY <2>1 DEF Future, Nobody
  <2>3. registered'[c] = f /\ \A b \in Callback : b # c => registered'[b] = registered[b]
    BY <2>1
  <2>4. ASSUME NEW g \in Future, NEW b \in watchers'[g]
        PROVE  registered'[b] = g /\ state'[g] \in Live
    <3>1. CASE b \in watchers[g]
      BY <2>1, <2>2, <2>3, <3>1
    <3>2. CASE b \notin watchers[g]
      <4>1. state[f] \in Live /\ watchers' = [watchers EXCEPT ![f] = @ \cup {c}]
        BY <2>1, <2>4, <3>2
      <4>2. g = f /\ b = c
        BY <2>4, <3>2, <4>1
      <4> QED BY <2>1, <2>3, <4>1, <4>2
    <3> QED BY <3>1, <3>2
  <2>5. WatchOK' /\ ContsOK'
    BY <2>1, <2>4
  <2> QED BY <2>5
<1>4. CASE Calls(t, push, rest)
  BY <1>4 DEF Calls
<1>5. CASE Erases(push)
  <2>1. PICK f \in Future :
          /\ state' = [state EXCEPT ![f] = "destroyed"]
          /\ watchers' = [watchers EXCEPT ![f] = {}] /\ conts' = [conts EXCEPT ![f] = {}]
          /\ UNCHANGED <<parent, registered>>
    BY <1>5 DEF Erases
  <2>2. /\ \A g \in Future : g # f => /\ state'[g] = state[g] /\ watchers'[g] = watchers[g]
                                       /\ conts'[g] = conts[g]
        /\ watchers'[f] = {} /\ conts'[f] = {} /\ state'[f] # "absent"
    BY <2>1
  <2> QED BY <2>1, <2>2
<1>6. CASE Claims(push)
  BY <1>6 DEF Claims, Live
<1>7. CASE Works(push, rest)
  BY <1>7 DEF Works
<1> QED BY <1>1, <1>2, <1>3, <1>4, <1>5, <1>6, <1>7 DEF Kind

\* Live Futures keep their links.
LEMMA KindLinks ==
    ASSUME TypeOK, FreshOK, LinkOK, NEW t \in Thread, NEW push, NEW rest,
           Kind(t, push, rest)
    PROVE  LinkOK'
<1> USE DEF TypeOK, LinkOK, promises, links
<1>1. CASE Opens(push, rest)
  <2> DEFINE n == created + 1
  <2>1. PICK p \in Future \cup {Nobody}, how \in {"task", "deferred", "continuation"},
             link \in BOOLEAN :
          /\ Create(p, how, link)
          /\ \/ link
             \/ p # Nobody /\ state[p] \in Terminal
    <3>1. PICK p \in Future \cup {Nobody}, how \in {"task", "deferred", "continuation"},
               link \in BOOLEAN :
            /\ Create(p, how, link)
            /\ \/ link
               \/ p # Nobody /\ state[p] = "completed"
               \/ p # Nobody /\ state[p] = "cancelled"
      BY <1>1 DEF Opens
    <3> QED BY <3>1 DEF Terminal
  <2>2. n \in Future /\ state[n] = "absent"
    BY <2>1, NextIsFresh DEF Create
  <2>3. /\ state' = [state EXCEPT ![n] = "pending"] /\ parent' = [parent EXCEPT ![n] = p]
        /\ kids' = IF p # Nobody /\ link THEN [kids EXCEPT ![p] = @ \cup {n}] ELSE kids
    BY <2>1 DEF Create
  <2> HIDE DEF n
  <2>4. /\ \A g \in Future : g # n => state'[g] = state[g] /\ parent'[g] = parent[g]
        /\ parent'[n] = p /\ \A g \in Future : kids[g] \subseteq kids'[g]
    BY <2>2, <2>3
  <2>5. ASSUME NEW g \in Future, g # n, parent'[g] # Nobody, state'[g] \in Live,
               state'[parent'[g]] \in Live \cup {"absent"}
        PROVE  g \in kids'[parent'[g]]
    <3>1. parent[g] \in Future /\ parent[g] # Nobody /\ parent'[g] = parent[g] /\ state[g] \in Live
      BY <2>4, <2>5
    <3>2. state[parent[g]] \in Live \cup {"absent"}
      BY <2>2, <2>4, <2>5, <3>1
    <3>3. g \in kids[parent[g]]
      BY <3>1, <3>2
    <3> QED BY <2>4, <3>1, <3>3
  <2>6. ASSUME p # Nobody, state'[p] \in Live \cup {"absent"} PROVE n \in kids'[p]
    <3>1. p \in Future
      BY <2>6
    <3>2. link
      BY <2>1, <2>2, <2>4, <2>6, <3>1 DEF Live, Terminal
    <3> QED BY <2>3, <2>6, <3>1, <3>2
  <2> QED BY <2>4, <2>5, <2>6
<1>2. CASE Settles(push, rest)
  <2>1. PICK f \in Future :
          /\ DropHandlers(f) /\ UNCHANGED parent
          /\ \/ state' = [state EXCEPT ![f] = "completed"]
             \/ state' = [state EXCEPT ![f] = "cancelled"]
    BY <1>2 DEF Settles
  <2>2. /\ \A g \in Future : g # f => state'[g] = state[g] /\ kids'[g] = kids[g]
        /\ state'[f] \notin Live \cup {"absent"}
    BY <2>1 DEF DropHandlers, Live
  <2> QED BY <2>1, <2>2
<1>3. CASE Registers(push, rest)
  BY <1>3 DEF Registers
<1>4. CASE Calls(t, push, rest)
  BY <1>4 DEF Calls
<1>5. CASE Erases(push)
  <2>1. PICK f \in Future :
          /\ state' = [state EXCEPT ![f] = "destroyed"] /\ UNCHANGED parent
          /\ kids' = [p \in Future |-> IF p = f THEN {} ELSE kids[p] \ {f}]
    BY <1>5 DEF Erases
  <2>2. /\ \A g \in Future : g # f => state'[g] = state[g] /\ kids'[g] = kids[g] \ {f}
        /\ state'[f] \notin Live \cup {"absent"}
    BY <2>1 DEF Live
  <2> QED BY <2>1, <2>2
<1>6. CASE Claims(push)
  BY <1>6 DEF Claims, Live
<1>7. CASE Works(push, rest)
  BY <1>7 DEF Works
<1> QED BY <1>1, <1>2, <1>3, <1>4, <1>5, <1>6, <1>7 DEF Kind

\* A callback some thread is about to call is registered on a settled Future
\* and was not called.
LEMMA ToldIsSettled ==
    ASSUME TypeOK, NEW s \in Seq(Phase), NoticesOK(s, registered, outcome, delivered),
           NEW c \in Told(s)
    PROVE  /\ c \in Callback /\ registered[c] \in Future /\ registered[c] # Nobody
           /\ outcome[registered[c]] \in Outcome /\ delivered[c] = "never"
<1>1. PICK i \in DOMAIN s : c \in s[i].cbs /\ c \in Callback
  BY DEF Told
<1>2. registered[c] # Nobody /\ outcome[registered[c]] = s[i].out /\ delivered[c] = "never"
  BY <1>1 DEF NoticesOK
<1>3. s[i].out \in Outcome
  <2>1. s[i] \in Phase
    BY <1>1, ElementsTyped
  <2>2. \A p \in Phase : p.out \in Outcome
    BY DEF Phase
  <2> QED BY <2>1, <2>2
<1> QED BY <1>1, <1>2, <1>3 DEF TypeOK

\* What is promised to such a callback stays promised.
LEMMA KindKeeps ==
    ASSUME TypeOK, FreshOK, OpenOK, NEW t \in Thread, NEW push, NEW rest, Kind(t, push, rest),
           NEW c \in Callback, registered[c] # Nobody, outcome[registered[c]] \in Outcome
    PROVE  /\ registered'[c] = registered[c]
           /\ outcome'[registered[c]] = outcome[registered[c]]
           /\ delivered'[c] = delivered[c] \/ (c \in Told(todo[t]) /\ c \notin Told(rest))
<1> USE DEF TypeOK, OpenOK, promises, links
<1>1. CASE Opens(push, rest)
  BY <1>1 DEF Opens
<1>2. CASE Settles(push, rest)
  <2>1. PICK f \in Future, o \in Outcome :
          /\ state[f] \in Live /\ outcome' = [outcome EXCEPT ![f] = o]
          /\ UNCHANGED <<registered, delivered>>
    BY <1>2 DEF Settles
  <2>2. registered[c] # f
    BY <2>1 DEF Outcome, GoalOutcome
  <2> QED BY <2>1, <2>2
<1>3. CASE Registers(push, rest)
  <2>1. PICK f \in Future, d \in Callback :
          /\ registered[d] = Nobody /\ registered' = [registered EXCEPT ![d] = f]
          /\ UNCHANGED <<outcome, delivered>>
    BY <1>3 DEF Registers
  <2> QED BY <2>1
<1>4. CASE Calls(t, push, rest)
  <2>1. PICK d \in Told(todo[t]) :
          /\ delivered' = [delivered EXCEPT ![d] = outcome[registered[d]]]
          /\ d \notin Told(rest) /\ UNCHANGED <<outcome, registered>>
    BY <1>4 DEF Calls
  <2> QED BY <2>1
<1>5. CASE Erases(push)
  BY <1>5 DEF Erases
<1>6. CASE Claims(push)
  BY <1>6 DEF Claims
<1>7. CASE Works(push, rest)
  BY <1>7 DEF Works
<1> QED BY <1>1, <1>2, <1>3, <1>4, <1>5, <1>6, <1>7 DEF Kind

\* A stack none of whose callbacks this step calls stays sound.
LEMMA NoticesKept ==
    ASSUME TypeOK, FreshOK, OpenOK, NEW t \in Thread, NEW push, NEW rest, Kind(t, push, rest),
           NEW s \in Seq(Phase), NoticesOK(s, registered, outcome, delivered),
           \A c \in Told(s) : c \notin Told(todo[t]) \/ c \in Told(rest)
    PROVE  NoticesOK(s, registered', outcome', delivered')
<1>1. ASSUME NEW i \in DOMAIN s, NEW c \in s[i].cbs
      PROVE  registered'[c] # Nobody /\ outcome'[registered'[c]] = s[i].out /\ delivered'[c] = "never"
  <2>1. c \in Told(s)
    BY ElementsTyped DEF Told
  <2>2. /\ c \in Callback /\ registered[c] # Nobody /\ outcome[registered[c]] \in Outcome
        /\ delivered[c] = "never" /\ outcome[registered[c]] = s[i].out
    BY <2>1, ToldIsSettled DEF NoticesOK
  <2>3. /\ registered'[c] = registered[c] /\ outcome'[registered[c]] = outcome[registered[c]]
        /\ delivered'[c] = delivered[c]
    BY <2>1, <2>2, KindKeeps
  <2> QED BY <2>2, <2>3
<1>2. \A i, j \in DOMAIN s : s[i].cbs \cap s[j].cbs # {} => i = j
  BY DEF NoticesOK
<1> QED BY <1>1, <1>2 DEF NoticesOK

\* What a kind pushes is well built, belongs on the rest, and calls callbacks
\* that no thread was about to call.
LEMMA KindPushes ==
    ASSUME TypeOK, FreshOK, OpenOK, WatchOK, CalledOK, SettledOK,
           NEW t \in Thread, NEW push \in Seq(Phase), NEW rest \in Seq(Phase),
           Kind(t, push, rest)
    PROVE  /\ ShapeOK(push) /\ NoticesOK(push, registered', outcome', delivered')
           /\ \E fr : Framed(push, fr) /\ (fr = Nobody => Framed(rest, Nobody))
           /\ \A c \in Told(push) :
                registered[c] # Nobody => outcome[registered[c]] \notin Outcome
<1>0. /\ <<>> \in Seq(Phase) /\ ShapeOK(<<>>) /\ \A fr : Framed(<<>>, fr)
      /\ Told(<<>>) = {} /\ \A reg, out, del : NoticesOK(<<>>, reg, out, del)
  <2>1. <<>> \in Seq(Phase) /\ ShapeOK(<<>>) /\ \A fr : Framed(<<>>, fr)
    BY DEF ShapeOK, Framed
  <2>2. Told(<<>>) = {}
    BY BlankTyped, OneOwes
  <2>3. ASSUME NEW reg, NEW out, NEW del PROVE NoticesOK(<<>>, reg, out, del)
    BY <2>1, <2>2, OneNotices
  <2> QED BY <2>1, <2>2, <2>3
<1>1. ASSUME push = <<>> PROVE
           /\ ShapeOK(push) /\ NoticesOK(push, registered', outcome', delivered')
           /\ \E fr : Framed(push, fr) /\ (fr = Nobody => Framed(rest, Nobody))
           /\ \A c \in Told(push) :
                registered[c] # Nobody => outcome[registered[c]] \notin Outcome
  <2>1. Framed(push, 1) /\ 1 # Nobody
    BY <1>0, <1>1 DEF Nobody
  <2> QED BY <1>0, <1>1, <2>1
<1>2. ASSUME ShapeOK(push), Told(push) = {}, Framed(push, Nobody), rest = <<>> PROVE
           /\ ShapeOK(push) /\ NoticesOK(push, registered', outcome', delivered')
           /\ \E fr : Framed(push, fr) /\ (fr = Nobody => Framed(rest, Nobody))
           /\ \A c \in Told(push) :
                registered[c] # Nobody => outcome[registered[c]] \notin Outcome
  <2>1. NoticesOK(push, registered', outcome', delivered')
    BY <1>2, OneNotices
  <2> QED BY <1>0, <1>2, <2>1
<1>3. CASE Opens(push, rest)
  <2>1. created < MaxFutures /\ rest = <<>>
        /\ (push = <<>> \/ push = Enqueue({created + 1}) \/ push = CancelAll({created + 1}, Nobody))
    BY <1>3 DEF Opens, Create
  <2>2. {created + 1} \in SUBSET Future
    BY <2>1, NextIsFresh
  <2>3. CASE push = Enqueue({created + 1})
    BY <1>2, <2>1, <2>2, <2>3, EnqueueBuilt
  <2>4. CASE push = CancelAll({created + 1}, Nobody)
    BY <1>2, <2>1, <2>2, <2>4, CancelAllBuilt
  <2> QED BY <1>1, <2>1, <2>3, <2>4
<1>4. CASE Settles(push, rest)
  <2>1. PICK f \in Future, o \in Outcome, fr \in Future \cup {Nobody} :
          /\ state[f] \in Live /\ outcome' = [outcome EXCEPT ![f] = o]
          /\ UNCHANGED <<registered, delivered>>
          /\ \/ push = TerminalHandlers(f, o) /\ Framed(rest, Nobody)
             \/ o = "cancelled" /\ push = CancelWork(f, fr) /\ (fr = Nobody => rest = <<>>)
    BY <1>4 DEF Settles
  <2>2. ASSUME NEW c \in watchers[f]
        PROVE  /\ c \in Callback /\ registered[c] = f /\ f # Nobody /\ outcome[f] = "open"
               /\ delivered[c] = "never"
    <3>1. c \in Callback /\ registered[c] = f /\ outcome[f] = "open"
      BY <2>1, <2>2 DEF WatchOK, TypeOK, OpenOK
    <3> QED BY <3>1 DEF CalledOK, Future, Nobody
  <2>3. \A c \in watchers[f] :
          registered'[c] # Nobody /\ outcome'[registered'[c]] = o /\ delivered'[c] = "never"
    BY <2>1, <2>2 DEF TypeOK
  <2>4. Told(push) = watchers[f] => \A c \in Told(push) : outcome[registered[c]] \notin Outcome
    BY <2>2 DEF Outcome, GoalOutcome
  <2>5. CASE push = TerminalHandlers(f, o) /\ Framed(rest, Nobody)
    <3> DEFINE h == TerminalHandlers(f, o)
    <3>2. /\ ShapeOK(h) /\ Framed(h, Nobody) /\ Told(h) = watchers[f]
          /\ NoticesOK(h, registered', outcome', delivered')
      BY <2>3, HandlersBuilt, SettledNotices
    <3>1. /\ ShapeOK(push) /\ Framed(push, Nobody) /\ Told(push) = watchers[f]
          /\ NoticesOK(push, registered', outcome', delivered')
      BY <2>5, <3>2
    <3> QED BY <2>4, <2>5, <3>1
  <2>6. CASE o = "cancelled" /\ push = CancelWork(f, fr) /\ (fr = Nobody => rest = <<>>)
    <3>1. /\ ShapeOK(push) /\ Framed(push, fr) /\ Told(push) = watchers[f]
          /\ NoticesOK(push, registered', outcome', delivered')
      BY <2>3, <2>6, CancelBuilt, SettledNotices
    <3> QED BY <1>0, <2>4, <2>6, <3>1
  <2> QED BY <2>1, <2>5, <2>6
<1>5. CASE Registers(push, rest)
  <2>1. PICK f \in Future, c \in Callback :
          /\ registered[c] = Nobody /\ registered' = [registered EXCEPT ![c] = f]
          /\ UNCHANGED <<outcome, delivered>> /\ rest = <<>>
          /\ \/ push = <<>>
             \/ state[f] \in Terminal /\ push = Notify({c}, outcome[f], Nobody)
    BY <1>5 DEF Registers, links
  <2>2. CASE state[f] \in Terminal /\ push = Notify({c}, outcome[f], Nobody)
    <3>1. outcome[f] \in Outcome /\ f # Nobody /\ delivered[c] = "never" /\ {c} \in SUBSET Callback
      BY <2>1, <2>2 DEF SettledOK, CalledOK, TypeOK, Future, Nobody
    <3>2. /\ registered'[c] # Nobody /\ outcome'[registered'[c]] = outcome[f]
          /\ delivered'[c] = "never"
      BY <2>1, <3>1 DEF TypeOK
    <3> DEFINE cs == {c}
           o == outcome[f]
           h == Notify(cs, o, Nobody)
    <3>4. /\ ShapeOK(h) /\ Framed(h, Nobody) /\ Told(h) = cs
          /\ NoticesOK(h, registered', outcome', delivered')
      <4>1. \A d \in cs : /\ registered'[d] # Nobody /\ outcome'[registered'[d]] = o
                          /\ delivered'[d] = "never"
        BY <3>2
      <4>2. Nobody \in Future \cup {Nobody} /\ cs \in SUBSET Callback /\ o \in Outcome
        BY <3>1
      <4> HIDE DEF cs, o
      <4> DEFINE reg == registered'
                 out == outcome'
                 del == delivered'
                 fr == Nobody
      <4>3. \A d \in cs : reg[d] # Nobody /\ out[reg[d]] = o /\ del[d] = "never"
        BY <4>1
      <4>4. fr \in Future \cup {Nobody}
        BY <4>2
      <4> HIDE DEF reg, out, del, fr
      <4>5. /\ ShapeOK(Notify(cs, o, fr)) /\ Framed(Notify(cs, o, fr), fr)
            /\ Told(Notify(cs, o, fr)) = cs /\ NoticesOK(Notify(cs, o, fr), reg, out, del)
        BY <4>2, <4>3, <4>4, NotifyBuilt, NotifyNotices
      <4> QED BY <4>5 DEF reg, out, del, fr
    <3>3. /\ ShapeOK(push) /\ Framed(push, Nobody) /\ Told(push) = {c}
          /\ NoticesOK(push, registered', outcome', delivered')
      BY <2>2, <3>4
    <3> QED BY <1>0, <2>1, <3>3
  <2> QED BY <1>1, <2>1, <2>2
<1>6. CASE Calls(t, push, rest) \/ Erases(push) \/ Claims(push)
  BY <1>1, <1>6 DEF Calls, Erases, Claims
<1>7. CASE Works(push, rest)
  <2>1. ASSUME rest = <<>>, NEW f \in Future,
               push = (IF state[f] \in Live THEN CancelAll({f}, Nobody) ELSE <<>>) \o Erase(f)
        PROVE  ShapeOK(push) /\ Told(push) = {} /\ Framed(push, Nobody)
    <3> DEFINE a == IF state[f] \in Live THEN CancelAll({f}, Nobody) ELSE <<>>
    <3>1. a \in Seq(Phase) /\ ShapeOK(a) /\ Framed(a, Nobody) /\ Told(a) = {}
      BY <1>0, CancelAllBuilt
    <3>2. /\ Erase(f) \in Seq(Phase) /\ ShapeOK(Erase(f)) /\ Framed(Erase(f), Nobody)
          /\ Told(Erase(f)) = {}
      BY EraseBuilt
    <3>3. push = a \o Erase(f)
      BY <2>1
    <3> HIDE DEF a
    <3>4. ShapeOK(push) /\ Framed(push, Nobody)
      BY <3>1, <3>2, <3>3, ConcatBuilt
    <3>5. Told(push) = Told(a) \cup Told(Erase(f))
      BY <3>1, <3>2, <3>3, ConcatOwes
    <3> QED BY <3>1, <3>2, <3>4, <3>5
  <2> QED BY <1>1, <1>2, <1>7, <2>1 DEF Works
<1> QED BY <1>3, <1>4, <1>5, <1>6, <1>7 DEF Kind

\* What every kind starts from.
AsyncInv == ClaimInv /\ AccountInv

\* The stacks stay well built, and no callback is about to be called twice.
LEMMA MoveStacks ==
    ASSUME AsyncInv, NEW t \in Thread, Move(t)
    PROVE  ShapesOK' /\ AllNoticesOK'
<1>0. /\ TypeOK /\ FreshOK /\ OpenOK /\ WatchOK /\ CalledOK /\ SettledOK /\ ShapesOK
      /\ AllNoticesOK
  BY DEF AsyncInv, ClaimInv, Typed, AccountInv, NoticeInv
<1>1. PICK push \in Seq(Phase), rest \in Seq(Phase) :
        /\ todo' = [todo EXCEPT ![t] = push \o rest]
        /\ Part(rest, todo[t]) /\ Kind(t, push, rest)
  BY DEF Move, Remains
<1>2. \A u \in Thread : /\ todo[u] \in Seq(Phase) /\ ShapeOK(todo[u])
                        /\ NoticesOK(todo[u], registered, outcome, delivered)
  BY <1>0 DEF TypeOK, ShapesOK, AllNoticesOK
<1>3. /\ todo'[t] = push \o rest
      /\ \A u \in Thread : u # t => todo'[u] = todo[u]
  BY <1>0, <1>1 DEF TypeOK
<1>4. /\ ShapeOK(rest) /\ NoticesOK(rest, registered, outcome, delivered)
      /\ Told(rest) \subseteq Told(todo[t])
  <2>1. ShapeOK(rest)
    BY <1>1, <1>2, PartShape
  <2>2. NoticesOK(rest, registered, outcome, delivered) /\ Told(rest) \subseteq Told(todo[t])
    BY <1>1, <1>2, PartNotices
  <2> QED BY <2>1, <2>2
<1>5. /\ ShapeOK(push) /\ NoticesOK(push, registered', outcome', delivered')
      /\ \E fr : Framed(push, fr) /\ (fr = Nobody => Framed(rest, Nobody))
      /\ \A c \in Told(push) :
           registered[c] # Nobody => outcome[registered[c]] \notin Outcome
  BY <1>0, <1>1, KindPushes
<1>6. \A u \in Thread : Told(push) \cap Told(todo[u]) = {}
  <2> SUFFICES ASSUME NEW u \in Thread, NEW c \in Told(todo[u]), c \in Told(push) PROVE FALSE
    OBVIOUS
  <2>1. registered[c] # Nobody /\ outcome[registered[c]] \in Outcome
    BY <1>0, <1>2, ToldIsSettled
  <2> QED BY <1>5, <2>1
<1>7. Told(push) \cap Told(rest) = {}
  BY <1>4, <1>6
<1>8. ShapeOK(push \o rest)
  <2>1. PICK fr : Framed(push, fr) /\ (fr = Nobody => Framed(rest, Nobody))
    BY <1>5
  <2> QED BY <1>4, <1>5, <2>1, ConcatBuilt
<1>9. NoticesOK(rest, registered', outcome', delivered')
  BY <1>0, <1>1, <1>4, NoticesKept
<1>10. NoticesOK(push \o rest, registered', outcome', delivered')
  BY <1>5, <1>7, <1>9, ConcatNotices
<1>11. ASSUME NEW u \in Thread, u # t
       PROVE  NoticesOK(todo[u], registered', outcome', delivered')
  <2>1. \A c \in Told(todo[u]) : c \notin Told(todo[t])
    BY <1>0, <1>11 DEF AllNoticesOK
  <2> QED BY <1>0, <1>1, <1>2, <2>1, NoticesKept
<1>12. Told(push \o rest) = Told(push) \cup Told(rest)
  BY ConcatOwes
<1>13. \A u \in Thread : u # t => Told(push \o rest) \cap Told(todo[u]) = {}
  BY <1>0, <1>4, <1>6, <1>12 DEF AllNoticesOK
<1>14. ShapesOK'
  BY <1>2, <1>3, <1>8 DEF ShapesOK
<1>15. \A u \in Thread : NoticesOK(todo'[u], registered', outcome', delivered')
  BY <1>3, <1>10, <1>11
<1>16. \A u, v \in Thread : u # v => Told(todo'[u]) \cap Told(todo'[v]) = {}
  <2> SUFFICES ASSUME NEW u \in Thread, NEW v \in Thread, u # v
               PROVE  Told(todo'[u]) \cap Told(todo'[v]) = {}
    OBVIOUS
  <2>1. CASE u = t
    BY <1>3, <1>13, <2>1
  <2>2. CASE v = t
    BY <1>3, <1>13, <2>2
  <2>3. CASE u # t /\ v # t
    BY <1>0, <1>3, <2>3 DEF AllNoticesOK
  <2> QED BY <2>1, <2>2, <2>3
<1> QED BY <1>14, <1>15, <1>16 DEF AllNoticesOK

\* Where a step leaves what the stacks owe.
LEMMA MoveOwes ==
    ASSUME TypeOK, NEW t \in Thread, NEW push \in Seq(Phase), NEW rest \in Seq(Phase),
           todo' = [todo EXCEPT ![t] = push \o rest], Remains(t, rest)
    PROVE  /\ \A f \in Future : \A op : f \in Owed(push, op) => InTodo(f, op)'
           /\ \A f \in Future : InTodo(f, "cancel") =>
                InTodo(f, "cancel")' \/ f \in lost' \/ state'[f] \notin Live
           /\ \A f \in Future : InTodo(f, "enqueue") \/ f \in Placed =>
                \/ InTodo(f, "enqueue")' \/ f \in Placed' \/ f \in lost'
                \/ state'[f] # "pending"
           /\ \A c \in Callback : c \in Told(push) => \E u \in Thread : c \in Told(todo'[u])
           /\ \A c \in Callback, u \in Thread : c \in Told(todo[u]) =>
                \/ \E v \in Thread : c \in Told(todo'[v])
                \/ c \in lost' \/ delivered'[c] # "never"
<1>1. /\ todo'[t] = push \o rest
      /\ \A u \in Thread : u # t => todo'[u] = todo[u]
  BY DEF TypeOK
<1>2. /\ Told(todo'[t]) = Told(push) \cup Told(rest)
      /\ \A op : Owed(todo'[t], op) = Owed(push, op) \cup Owed(rest, op)
  <2>1. Told(push \o rest) = Told(push) \cup Told(rest)
    BY ConcatOwes
  <2>2. \A op : Owed(push \o rest, op) = Owed(push, op) \cup Owed(rest, op)
    BY ConcatOwes
  <2> QED BY <1>1, <2>1, <2>2
<1>3. ASSUME NEW f \in Future, NEW op, NEW u \in Thread, f \in Owed(todo'[u], op)
      PROVE  InTodo(f, op)'
  BY <1>3 DEF Owed, InTodo
<1>4. ASSUME NEW f \in Future, NEW op, InTodo(f, op)
      PROVE  \E u \in Thread : f \in Owed(todo[u], op)
  BY <1>4 DEF Owed, InTodo
<1>5. ASSUME NEW f \in Future, NEW op, f \in Owed(push, op) PROVE InTodo(f, op)'
  BY <1>2, <1>3, <1>5
<1>6. ASSUME NEW f \in Future, InTodo(f, "cancel")
      PROVE  InTodo(f, "cancel")' \/ f \in lost' \/ state'[f] \notin Live
  <2>1. PICK u \in Thread : f \in Owed(todo[u], "cancel")
    BY <1>4, <1>6
  <2>2. CASE u = t
    BY <1>2, <1>3, <2>1, <2>2 DEF Remains
  <2>3. CASE u # t
    BY <1>1, <1>3, <2>1, <2>3
  <2> QED BY <2>2, <2>3
<1>7. ASSUME NEW f \in Future, InTodo(f, "enqueue") \/ f \in Placed
      PROVE  \/ InTodo(f, "enqueue")' \/ f \in Placed' \/ f \in lost'
             \/ state'[f] # "pending"
  <2>1. CASE f \in Placed \cup Owed(todo[t], "enqueue")
    BY <1>2, <1>3, <2>1 DEF Remains
  <2>2. CASE f \notin Placed \cup Owed(todo[t], "enqueue")
    <3>1. PICK u \in Thread : f \in Owed(todo[u], "enqueue")
      BY <1>4, <1>7, <2>2
    <3> QED BY <1>1, <1>3, <2>2, <3>1
  <2> QED BY <2>1, <2>2
<1>8. ASSUME NEW c \in Callback, NEW u \in Thread, c \in Told(todo[u])
      PROVE  \/ \E v \in Thread : c \in Told(todo'[v])
             \/ c \in lost' \/ delivered'[c] # "never"
  <2>1. CASE u = t
    BY <1>2, <1>8, <2>1 DEF Remains
  <2>2. CASE u # t
    BY <1>1, <1>8, <2>2
  <2> QED BY <2>1, <2>2
<1>9. \A c \in Callback : c \in Told(push) => \E u \in Thread : c \in Told(todo'[u])
  BY <1>2
<1> QED BY <1>5, <1>6, <1>7, <1>8, <1>9

\* No pending task is stranded by a step.
LEMMA MovePending ==
    ASSUME AsyncInv, NEW t \in Thread, Move(t) PROVE PendingIsAccounted'
<1>0. /\ TypeOK /\ FreshOK /\ ContsOK /\ LinkOK /\ PendingIsAccounted
  BY DEF AsyncInv, ClaimInv, Typed, AccountInv
<1>1. PICK push \in Seq(Phase), rest \in Seq(Phase) :
        /\ todo' = [todo EXCEPT ![t] = push \o rest]
        /\ Remains(t, rest) /\ Kind(t, push, rest)
  BY DEF Move
<1>2. /\ \A f \in Future : \A op : f \in Owed(push, op) => InTodo(f, op)'
      /\ \A f \in Future : InTodo(f, "cancel") =>
           InTodo(f, "cancel")' \/ f \in lost' \/ state'[f] \notin Live
      /\ \A f \in Future : InTodo(f, "enqueue") \/ f \in Placed =>
           \/ InTodo(f, "enqueue")' \/ f \in Placed' \/ f \in lost'
           \/ state'[f] # "pending"
      /\ lost \subseteq lost'
  BY <1>0, <1>1, MoveOwes DEF Remains
<1> DEFINE Kept(f) == \/ f \in Placed' \/ \E p \in Future : f \in conts'[p]
                      \/ InTodo(f, "enqueue")' \/ InTodo(f, "cancel")' \/ f \in lost'
<1> SUFFICES ASSUME NEW f \in Future, state'[f] = "pending", origin'[f] # "deferred"
             PROVE  Kept(f)
  BY DEF PendingIsAccounted, Placed
<1>3. ASSUME state[f] = "pending", origin[f] # "deferred"
      PROVE  \/ Kept(f) \/ \E p \in Future : f \in conts[p]
  <2>1. \/ f \in Placed \/ \E p \in Future : f \in conts[p]
        \/ InTodo(f, "enqueue") \/ InTodo(f, "cancel") \/ f \in lost
    BY <1>0, <1>3 DEF PendingIsAccounted, Placed
  <2> QED BY <1>2, <2>1 DEF Live
<1> HIDE DEF Kept
<1>4. ASSUME NEW p \in Future, f \in conts'[p] PROVE Kept(f)
  BY <1>4 DEF Kept
<1>5. ASSUME state[f] = "pending", origin[f] # "deferred",
             \A p \in Future : f \in conts[p] => f \in conts'[p]
      PROVE  Kept(f)
  BY <1>3, <1>4, <1>5
<1>6. CASE Opens(push, rest)
  <2>1. PICK p \in Future \cup {Nobody}, how \in {"task", "deferred", "continuation"},
             link \in BOOLEAN :
          /\ Create(p, how, link)
          /\ \/ how = "deferred" /\ UNCHANGED conts
             \/ push = Enqueue({created + 1}) /\ UNCHANGED conts
             \/ p # Nobody /\ conts' = [conts EXCEPT ![p] = @ \cup {created + 1}]
             \/ push = CancelAll({created + 1}, Nobody) /\ UNCHANGED conts
    BY <1>6 DEF Opens
  <2>2. created + 1 \in Future
    BY <1>0, <2>1, NextIsFresh DEF Create
  <2>3. \A q \in Future : conts[q] \subseteq conts'[q]
    BY <1>0, <2>1, <2>2 DEF TypeOK
  <2>4. CASE f # created + 1
    <3>1. state'[f] = state[f] /\ origin'[f] = origin[f]
      BY <1>0, <2>1, <2>4 DEF Create, TypeOK
    <3> QED BY <1>5, <2>3, <3>1
  <2>5. CASE f = created + 1
    <3>1. origin'[f] = how
      BY <1>0, <2>1, <2>5 DEF Create, TypeOK
    <3>2. CASE push = Enqueue({f})
      <4>1. {f} \in SUBSET Future
        OBVIOUS
      <4>2. f \in Owed(push, "enqueue")
        BY <3>2, <4>1, EnqueueBuilt
      <4> QED BY <1>2, <4>2 DEF Kept
    <3>3. CASE push = CancelAll({f}, Nobody)
      <4> DEFINE fs == {f}
      <4>1. fs \in SUBSET Future /\ Nobody \in Future \cup {Nobody} /\ f \in fs
            /\ push = CancelAll(fs, Nobody)
        BY <3>3
      <4> HIDE DEF fs
      <4>2. f \in Owed(push, "cancel")
        BY <4>1, CancelAllBuilt
      <4> QED BY <1>2, <4>2 DEF Kept
    <3>4. CASE p # Nobody /\ conts' = [conts EXCEPT ![p] = @ \cup {f}]
      <4>1. p \in Future /\ f \in conts'[p]
        BY <1>0, <3>4 DEF TypeOK
      <4> QED BY <1>4, <4>1
    <3> QED BY <2>1, <2>5, <3>1, <3>2, <3>3, <3>4
  <2> QED BY <2>4, <2>5
<1>7. CASE Settles(push, rest)
  <2>1. PICK g \in Future, o \in Outcome, fr \in Future \cup {Nobody} :
          /\ state[g] \in Live /\ conts' = [conts EXCEPT ![g] = {}] /\ UNCHANGED origin
          /\ \/ state' = [state EXCEPT ![g] = "completed"] /\ push = TerminalHandlers(g, o)
             \/ state' = [state EXCEPT ![g] = "cancelled"] /\ push = CancelWork(g, fr)
    BY <1>7 DEF Settles, DropHandlers
  <2>2. f # g /\ state[f] = "pending" /\ origin[f] # "deferred"
    BY <1>0, <2>1 DEF TypeOK
  <2>3. ASSUME f \in conts[g] PROVE Kept(f)
    <3>1. CASE push = TerminalHandlers(g, o)
      <4>1. conts[g] \subseteq Owed(push, "enqueue")
        BY <1>0, <2>1, <3>1, HandlersBuilt
      <4> QED BY <1>2, <2>3, <4>1 DEF Kept
    <3>2. CASE push = CancelWork(g, fr)
      <4>1. kids[g] \subseteq Owed(push, "cancel")
        BY <1>0, <2>1, <3>2, CancelBuilt
      <4>2. parent[f] = g /\ g # Nobody
        BY <1>0, <2>3 DEF ContsOK, Future, Nobody
      <4>3. f \in kids[g]
        BY <1>0, <2>1, <2>2, <4>2 DEF LinkOK, Live
      <4> QED BY <1>2, <4>1, <4>3 DEF Kept
    <3> QED BY <2>1, <3>1, <3>2
  <2>4. \A p \in Future : p # g => conts'[p] = conts[p]
    BY <1>0, <2>1 DEF TypeOK
  <2> QED BY <1>5, <2>2, <2>3, <2>4
<1>8. CASE Erases(push)
  <2>1. PICK g \in Future :
          /\ state' = [state EXCEPT ![g] = "destroyed"] /\ conts' = [conts EXCEPT ![g] = {}]
          /\ state[g] \in Live => watchers[g] \cup conts[g] \subseteq lost'
          /\ UNCHANGED origin
    BY <1>8 DEF Erases
  <2>2. f # g /\ state[f] = "pending" /\ origin[f] # "deferred"
    BY <1>0, <2>1 DEF TypeOK
  <2>3. ASSUME f \in conts[g] PROVE Kept(f)
    BY <1>0, <2>1, <2>3 DEF ContsOK, Kept
  <2>4. \A p \in Future : p # g => conts'[p] = conts[p]
    BY <1>0, <2>1 DEF TypeOK
  <2> QED BY <1>5, <2>2, <2>3, <2>4
<1>9. CASE Claims(push)
  <2>1. UNCHANGED <<conts, origin>> /\ state[f] = "pending"
    BY <1>0, <1>9 DEF Claims, links, TypeOK
  <2> QED BY <1>5, <2>1
<1>10. CASE Registers(push, rest) \/ Calls(t, push, rest) \/ Works(push, rest)
  <2>1. UNCHANGED <<conts, origin, state>>
    BY <1>10 DEF Registers, Calls, Works, links
  <2> QED BY <1>5, <2>1
<1> QED BY <1>1, <1>6, <1>7, <1>8, <1>9, <1>10 DEF Kind

\* No callback is forgotten by a step.
LEMMA MoveCallbacks ==
    ASSUME AsyncInv, NEW t \in Thread, Move(t) PROVE CallbackIsAccounted'
<1>0. TypeOK /\ FreshOK /\ WatchOK /\ CallbackIsAccounted
  BY DEF AsyncInv, ClaimInv, Typed, AccountInv, NoticeInv
<1>1. PICK push \in Seq(Phase), rest \in Seq(Phase) :
        /\ todo' = [todo EXCEPT ![t] = push \o rest]
        /\ Remains(t, rest) /\ Kind(t, push, rest)
  BY DEF Move
<1>2. /\ \A c \in Callback : c \in Told(push) => \E u \in Thread : c \in Told(todo'[u])
      /\ \A c \in Callback, u \in Thread : c \in Told(todo[u]) =>
           \/ \E v \in Thread : c \in Told(todo'[v])
           \/ c \in lost' \/ delivered'[c] # "never"
      /\ lost \subseteq lost'
  BY <1>0, <1>1, MoveOwes DEF Remains
<1> DEFINE Kept(c) == \/ c \in watchers'[registered'[c]]
                      \/ \E u \in Thread : c \in Told(todo'[u])
                      \/ c \in lost'
<1> SUFFICES ASSUME NEW c \in Callback, registered'[c] # Nobody, delivered'[c] = "never"
             PROVE  Kept(c)
  BY DEF CallbackIsAccounted, Told
<1>3. ASSUME registered[c] # Nobody, delivered[c] = "never"
      PROVE  Kept(c) \/ c \in watchers[registered[c]]
  <2>1. \/ c \in watchers[registered[c]] \/ c \in lost
        \/ \E u \in Thread : c \in Told(todo[u])
    BY <1>0, <1>3 DEF CallbackIsAccounted, Told
  <2> QED BY <1>2, <2>1
<1>4. ASSUME c \in Told(push) PROVE Kept(c)
  BY <1>2, <1>4
<1>5. ASSUME registered[c] # Nobody, delivered[c] = "never", UNCHANGED registered,
             c \in watchers[registered[c]] => c \in watchers'[registered[c]]
      PROVE  Kept(c)
  BY <1>3, <1>5
<1>11. c \in lost' => Kept(c)
  OBVIOUS
<1> HIDE DEF Kept
<1>6. CASE Opens(push, rest) \/ Claims(push) \/ Works(push, rest)
  BY <1>5, <1>6 DEF Opens, Claims, Works, promises
<1>7. CASE Settles(push, rest)
  <2>1. PICK g \in Future, o \in Outcome, fr \in Future \cup {Nobody} :
          /\ watchers' = [watchers EXCEPT ![g] = {}] /\ UNCHANGED <<registered, delivered>>
          /\ push = TerminalHandlers(g, o) \/ push = CancelWork(g, fr)
    BY <1>7 DEF Settles, DropHandlers
  <2>2. Told(push) = watchers[g]
    BY <1>0, <2>1, HandlersBuilt, CancelBuilt
  <2>3. registered[c] # g => watchers'[registered[c]] = watchers[registered[c]]
    BY <1>0, <2>1 DEF TypeOK
  <2> QED BY <1>4, <1>5, <2>1, <2>2, <2>3
<1>8. CASE Registers(push, rest)
  <2>1. PICK f \in Future, d \in Callback :
          /\ registered[d] = Nobody /\ registered' = [registered EXCEPT ![d] = f]
          /\ UNCHANGED delivered
          /\ \/ watchers' = [watchers EXCEPT ![f] = @ \cup {d}]
             \/ state[f] \in Terminal /\ push = Notify({d}, outcome[f], Nobody) /\ UNCHANGED watchers
    BY <1>8 DEF Registers
  <2>2. \A g \in Future : watchers[g] \subseteq watchers'[g]
    BY <1>0, <2>1 DEF TypeOK
  <2>3. CASE c # d
    <3>1. registered'[c] = registered[c] /\ registered[c] \in Future
      BY <1>0, <2>1, <2>3 DEF TypeOK
    <3>2. c \in watchers[registered[c]] => Kept(c)
      BY <2>2, <3>1 DEF Kept
    <3> QED BY <1>3, <2>1, <3>1, <3>2
  <2>4. CASE c = d
    <3>1. registered'[c] = f
      BY <1>0, <2>1, <2>4 DEF TypeOK
    <3>2. CASE watchers' = [watchers EXCEPT ![f] = @ \cup {d}]
      BY <1>0, <2>4, <3>1, <3>2 DEF TypeOK, Kept
    <3>3. CASE state[f] \in Terminal /\ push = Notify({d}, outcome[f], Nobody)
      <4> DEFINE cs == {d}
                 o == outcome[f]
      <4>1. cs \in SUBSET Callback /\ o \in Outcome /\ Nobody \in Future \cup {Nobody}
            /\ c \in cs /\ push = Notify(cs, o, Nobody)
        BY <2>4, <3>3 DEF AsyncInv, ClaimInv, Typed, SettledOK
      <4> HIDE DEF cs, o
      <4> QED BY <1>4, <4>1, NotifyBuilt
    <3> QED BY <2>1, <3>2, <3>3
  <2> QED BY <2>3, <2>4
<1>9. CASE Calls(t, push, rest)
  <2>1. PICK d \in Told(todo[t]) :
          /\ delivered' = [delivered EXCEPT ![d] = outcome[registered[d]]]
          /\ delivered[d] = "never" /\ UNCHANGED <<registered, watchers>>
    BY <1>9 DEF Calls
  <2>2. delivered[c] = "never"
    BY <1>0, <2>1 DEF TypeOK
  <2> QED BY <1>5, <2>1, <2>2
<1>10. CASE Erases(push)
  <2>1. PICK g \in Future :
          /\ watchers' = [watchers EXCEPT ![g] = {}] /\ UNCHANGED <<registered, delivered>>
          /\ state[g] \in Live => watchers[g] \cup conts[g] \subseteq lost'
    BY <1>10 DEF Erases
  <2>2. registered[c] # g => watchers'[registered[c]] = watchers[registered[c]]
    BY <1>0, <2>1 DEF TypeOK
  <2>3. c \in watchers[g] => Kept(c)
    BY <1>0, <1>11, <2>1 DEF WatchOK
  <2> QED BY <1>3, <1>5, <2>1, <2>2, <2>3
<1> QED BY <1>1, <1>6, <1>7, <1>8, <1>9, <1>10 DEF Kind

\* No child of a cancelled Future escapes the cancellation by a step.
LEMMA MoveChildren ==
    ASSUME AsyncInv, NEW t \in Thread, Move(t) PROVE CancelReachesChildren'
<1>0. TypeOK /\ FreshOK /\ LinkOK /\ CancelReachesChildren
  BY DEF AsyncInv, ClaimInv, Typed, AccountInv
<1>1. PICK push \in Seq(Phase), rest \in Seq(Phase) :
        /\ todo' = [todo EXCEPT ![t] = push \o rest]
        /\ Remains(t, rest) /\ Kind(t, push, rest)
  BY DEF Move
<1>2. /\ \A f \in Future : \A op : f \in Owed(push, op) => InTodo(f, op)'
      /\ \A f \in Future : InTodo(f, "cancel") =>
           InTodo(f, "cancel")' \/ f \in lost' \/ state'[f] \notin Live
      /\ lost \subseteq lost'
  BY <1>0, <1>1, MoveOwes DEF Remains
<1> DEFINE Kept(f) == \/ InTodo(f, "cancel")' \/ f \in lost'
                      \/ origin'[f] # "continuation" /\ f \in kids'[parent'[f]]
<1> SUFFICES ASSUME NEW f \in Future, parent'[f] # Nobody, state'[f] \in Live,
                    state'[parent'[f]] = "cancelled"
             PROVE  Kept(f)
  BY DEF CancelReachesChildren
<1>3. ASSUME state[f] \in Live, UNCHANGED <<origin, parent>>,
             state[parent[f]] = "cancelled",
             f \in kids[parent[f]] => f \in kids'[parent[f]]
      PROVE  Kept(f)
  <2>1. \/ InTodo(f, "cancel") \/ f \in lost
        \/ origin[f] # "continuation" /\ f \in kids[parent[f]]
    BY <1>0, <1>3 DEF CancelReachesChildren
  <2> QED BY <1>2, <1>3, <2>1
<1> HIDE DEF Kept
<1>4. CASE Opens(push, rest)
  <2>1. PICK p \in Future \cup {Nobody}, how \in {"task", "deferred", "continuation"},
             link \in BOOLEAN :
          /\ Create(p, how, link)
          /\ \/ how # "continuation" /\ link
             \/ how = "continuation" /\ p # Nobody /\ state[p] \in Live
             \/ how = "continuation" /\ p # Nobody /\ state[p] = "completed"
             \/ push = CancelAll({created + 1}, Nobody)
    BY <1>4 DEF Opens
  <2>0. PICK n \in Future : n = created + 1 /\ state[n] = "absent"
    BY <1>0, <2>1, NextIsFresh DEF Create
  <2>2. state[n] = "absent"
    BY <2>0
  <2>3. /\ state' = [state EXCEPT ![n] = "pending"] /\ parent' = [parent EXCEPT ![n] = p]
        /\ origin' = [origin EXCEPT ![n] = how]
        /\ kids' = IF p # Nobody /\ link THEN [kids EXCEPT ![p] = @ \cup {n}] ELSE kids
    BY <2>0, <2>1 DEF Create
  <2>4. push = CancelAll({n}, Nobody) => InTodo(n, "cancel")'
    <3> DEFINE fs == {n}
    <3>1. fs \in SUBSET Future /\ Nobody \in Future \cup {Nobody} /\ n \in fs
      BY <2>2
    <3> HIDE DEF fs
    <3>2. n \in Owed(CancelAll(fs, Nobody), "cancel")
      BY <3>1, CancelAllBuilt
    <3> QED BY <1>2, <2>2, <3>2 DEF fs
  <2>5. \/ how # "continuation" /\ link
        \/ how = "continuation" /\ p # Nobody /\ state[p] \in Live
        \/ how = "continuation" /\ p # Nobody /\ state[p] = "completed"
        \/ push = CancelAll({n}, Nobody)
    BY <2>0, <2>1
  <2>6. /\ parent'[n] = p /\ origin'[n] = how /\ state'[n] = "pending"
        /\ \A g \in Future : g # n =>
             parent'[g] = parent[g] /\ origin'[g] = origin[g] /\ state'[g] = state[g]
        /\ \A g \in Future : kids[g] \subseteq kids'[g]
    BY <1>0, <2>2, <2>3 DEF TypeOK
  <2>7. CASE f = n
    <3>1. p \in Future /\ p # Nobody /\ p # n /\ state[p] = "cancelled"
      BY <2>2, <2>6, <2>7
    <3>2. CASE push = CancelAll({n}, Nobody)
      BY <2>4, <2>7, <3>2 DEF Kept
    <3>3. CASE how # "continuation" /\ link
      <4>1. n \in kids'[p]
        BY <1>0, <2>3, <3>1, <3>3 DEF TypeOK
      <4> QED BY <2>6, <2>7, <3>3, <4>1 DEF Kept
    <3> QED BY <2>5, <3>1, <3>2, <3>3 DEF Live
  <2>8. CASE f # n
    <3>1. parent[f] \in Future /\ parent'[f] = parent[f] /\ state[f] \in Live
          /\ origin'[f] = origin[f]
      BY <1>0, <2>6, <2>8 DEF TypeOK
    <3>2. state[parent[f]] = "cancelled"
      BY <2>6, <3>1
    <3>3. \/ InTodo(f, "cancel") \/ f \in lost
          \/ origin[f] # "continuation" /\ f \in kids[parent[f]]
      BY <1>0, <3>1, <3>2 DEF CancelReachesChildren
    <3> QED BY <1>2, <2>6, <3>1, <3>3 DEF Kept
  <2> QED BY <2>7, <2>8
<1>5. CASE Settles(push, rest)
  <2>1. PICK g \in Future, o \in Outcome, fr \in Future \cup {Nobody} :
          /\ state[g] \in Live /\ kids' = [kids EXCEPT ![g] = {}] /\ UNCHANGED <<origin, parent>>
          /\ \/ state' = [state EXCEPT ![g] = "completed"]
             \/ state' = [state EXCEPT ![g] = "cancelled"] /\ push = CancelWork(g, fr)
    BY <1>5 DEF Settles, DropHandlers
  <2>2. f # g /\ state[f] \in Live /\ parent[f] \in Future
    BY <1>0, <2>1 DEF TypeOK, Live
  <2>3. CASE parent[f] # g
    <3>1. state[parent[f]] = "cancelled" /\ kids'[parent[f]] = kids[parent[f]]
      BY <1>0, <2>1, <2>2, <2>3 DEF TypeOK
    <3> QED BY <1>3, <2>1, <2>2, <3>1
  <2>4. CASE parent[f] = g
    <3>1. push = CancelWork(g, fr)
      BY <1>0, <2>1, <2>4 DEF TypeOK
    <3>2. f \in kids[g]
      BY <1>0, <2>1, <2>2, <2>4 DEF LinkOK
    <3>3. f \in Owed(push, "cancel")
      BY <1>0, <3>1, <3>2, CancelBuilt
    <3> QED BY <1>2, <3>3 DEF Kept
  <2> QED BY <2>3, <2>4
<1>6. CASE Erases(push)
  <2>1. PICK g \in Future :
          /\ state' = [state EXCEPT ![g] = "destroyed"] /\ UNCHANGED <<origin, parent>>
          /\ kids' = [p \in Future |-> IF p = g THEN {} ELSE kids[p] \ {g}]
    BY <1>6 DEF Erases
  <2>2. /\ f # g /\ state[f] \in Live /\ parent[f] \in Future /\ parent[f] # g
        /\ state[parent[f]] = "cancelled" /\ state'[g] \notin Live
    BY <1>0, <2>1 DEF TypeOK, Live
  <2>3. kids'[parent[f]] = kids[parent[f]] \ {g}
    BY <2>1, <2>2
  <2> QED BY <1>3, <2>1, <2>2, <2>3
<1>7. CASE Claims(push)
  <2>1. PICK g \in Future :
          /\ state[g] = "pending" /\ state' = [state EXCEPT ![g] = "running"]
          /\ UNCHANGED <<kids, origin, parent>>
    BY <1>7 DEF Claims, links
  <2>2. parent[f] \in Future /\ state[f] \in Live /\ state[parent[f]] = "cancelled"
    BY <1>0, <2>1 DEF TypeOK, Live
  <2> QED BY <1>3, <2>1, <2>2
<1>8. CASE Registers(push, rest) \/ Calls(t, push, rest) \/ Works(push, rest)
  <2>1. UNCHANGED <<state, kids, origin, parent>>
    BY <1>8 DEF Registers, Calls, Works, links
  <2> QED BY <1>3, <2>1
<1> QED BY <1>1, <1>4, <1>5, <1>6, <1>7, <1>8 DEF Kind

-----------------------------------------------------------------------------
(* Each kind of step is one of Promises, or a stutter.                     *)

\* The refinement mapping.
Settlement == [f \in Future |-> IF state[f] = "absent" THEN "none" ELSE outcome[f]]

\* The step of Promises that a step of the runtime is.
LEMMA KindRefines ==
    ASSUME TypeOK, FreshOK, OpenOK, NEW t \in Thread, NEW push, NEW rest, Kind(t, push, rest)
    PROVE  Promises!Next \/ UNCHANGED <<Settlement, registered, delivered>>
<1> USE DEF TypeOK, promises, links
<1>1. CASE Opens(push, rest)
  <2>1. /\ state' = [state EXCEPT ![created + 1] = "pending"] /\ UNCHANGED promises
        /\ created < MaxFutures
    BY <1>1 DEF Opens, Create
  <2>2. PICK n \in Future : n = created + 1 /\ state[n] = "absent"
    BY <2>1, NextIsFresh
  <2>3. outcome[n] = "open"
    BY <2>2 DEF OpenOK
  <2>4. Settlement[n] = "none" /\ Settlement' = [Settlement EXCEPT ![n] = "open"]
    BY <2>1, <2>2, <2>3 DEF Settlement
  <2>5. Promises!Open(n)
    BY <2>1, <2>4 DEF Promises!Open, Settlement
  <2> QED BY <2>5 DEF Promises!Next
<1>2. CASE Settles(push, rest)
  <2>1. PICK f \in Future, o \in Outcome :
          /\ state[f] \in Live /\ outcome' = [outcome EXCEPT ![f] = o]
          /\ UNCHANGED <<registered, delivered>>
          /\ \/ state' = [state EXCEPT ![f] = "completed"]
             \/ state' = [state EXCEPT ![f] = "cancelled"]
    BY <1>2 DEF Settles
  <2>2. state[f] # "absent" /\ outcome[f] = "open"
    BY <2>1 DEF OpenOK, Live
  <2>3. /\ state'[f] # "absent" /\ outcome'[f] = o
        /\ \A g \in Future : g # f => state'[g] = state[g] /\ outcome'[g] = outcome[g]
    BY <2>1
  <2>4. Settlement[f] = "open" /\ Settlement' = [Settlement EXCEPT ![f] = o]
    BY <2>2, <2>3 DEF Settlement
  <2>5. Promises!Settle(f, o)
    BY <2>1, <2>4 DEF Promises!Settle, Settlement
  <2> QED BY <2>5 DEF Promises!Next
<1>3. CASE Registers(push, rest)
  <2>1. PICK f \in Future, c \in Callback :
          /\ registered[c] = Nobody /\ registered' = [registered EXCEPT ![c] = f]
          /\ UNCHANGED <<state, outcome, delivered>>
          /\ state[f] \in Live \cup Terminal
    BY <1>3 DEF Registers
  <2>2. state[f] # "absent" /\ UNCHANGED Settlement
    BY <2>1 DEF Live, Terminal, Settlement
  <2>3. Settlement[f] # "none"
    BY <2>2 DEF Settlement, Outcome, GoalOutcome
  <2>4. Promises!Register(c, f)
    BY <2>1, <2>2, <2>3 DEF Promises!Register, Settlement
  <2> QED BY <2>4 DEF Promises!Next
<1>4. CASE Calls(t, push, rest)
  <2>1. PICK c \in Callback :
          /\ delivered[c] = "never" /\ registered[c] # Nobody
          /\ outcome[registered[c]] \in Outcome
          /\ delivered' = [delivered EXCEPT ![c] = outcome[registered[c]]]
          /\ UNCHANGED <<state, outcome, registered>>
    BY <1>4 DEF Calls, Told
  <2>2. registered[c] \in Future /\ state[registered[c]] # "absent"
    BY <2>1 DEF OpenOK, Outcome, GoalOutcome
  <2>3. Settlement[registered[c]] = outcome[registered[c]] /\ UNCHANGED Settlement
    BY <2>1, <2>2 DEF Settlement
  <2>4. Promises!Deliver(c)
    BY <2>1, <2>3 DEF Promises!Deliver, Settlement
  <2> QED BY <2>4 DEF Promises!Next
<1>5. CASE Erases(push)
  <2>1. PICK f \in Future :
          /\ state[f] # "absent" /\ state' = [state EXCEPT ![f] = "destroyed"]
          /\ UNCHANGED <<outcome, registered, delivered>>
    BY <1>5 DEF Erases
  <2>2. UNCHANGED Settlement
    BY <2>1 DEF Settlement
  <2> QED BY <2>1, <2>2
<1>6. CASE Claims(push)
  <2>1. PICK f \in Future :
          /\ state[f] = "pending" /\ state' = [state EXCEPT ![f] = "running"]
          /\ UNCHANGED <<outcome, registered, delivered>>
    BY <1>6 DEF Claims
  <2>2. UNCHANGED Settlement
    BY <2>1 DEF Settlement
  <2> QED BY <2>1, <2>2
<1>7. CASE Works(push, rest)
  BY <1>7 DEF Works, Settlement
<1> QED BY <1>1, <1>2, <1>3, <1>4, <1>5, <1>6, <1>7 DEF Kind

-----------------------------------------------------------------------------
(* Every step of the runtime is of one of the kinds.                       *)

\* A step whose whole stack is the rest, and one on an empty stack.
LEMMA RestMove ==
    ASSUME NEW t \in Thread, NEW rest \in Seq(Phase), todo' = [todo EXCEPT ![t] = rest],
           Remains(t, rest), Kind(t, <<>>, rest)
    PROVE  Move(t)
<1>1. <<>> \in Seq(Phase) /\ <<>> \o rest = rest
  OBVIOUS
<1> QED BY <1>1 DEF Move

\* ... that pushes.
LEMMA PushMove ==
    ASSUME NEW t \in Thread, NEW push \in Seq(Phase), todo' = [todo EXCEPT ![t] = push],
           Remains(t, <<>>), Kind(t, push, <<>>)
    PROVE  Move(t)
<1>1. <<>> \in Seq(Phase) /\ push \o <<>> = push
  OBVIOUS
<1> QED BY <1>1 DEF Move

\* A stack on which nothing is left is left by no step.
LEMMA EmptyRemains ==
    ASSUME NEW t \in Thread, todo[t] = <<>>, lost \subseteq lost',
           Placed \subseteq Placed' \cup {f \in Future : state'[f] # "pending"}
    PROVE  Remains(t, <<>>)
<1>1. /\ <<>> \in Seq(Phase) /\ Told(<<>>) = {} /\ \A op : Owed(<<>>, op) = {}
  BY DEF Told, Owed
<1>2. Part(<<>>, todo[t])
  BY DEF Part
<1> QED BY <1>1, <1>2 DEF Remains

\* A stack the step does not touch.
LEMMA WholeRemains ==
    ASSUME TypeOK, NEW t \in Thread, lost \subseteq lost',
           Placed \subseteq Placed' \cup {f \in Future : state'[f] # "pending"}
    PROVE  Remains(t, todo[t])
<1>1. todo[t] \in Seq(Phase)
  BY DEF TypeOK
<1>2. Part(todo[t], todo[t])
  <2>1. \A i \in DOMAIN todo[t] : i + 0 = i
    BY <1>1
  <2> QED BY <2>1 DEF Part
<1> QED BY <1>1, <1>2 DEF Remains

\* Steps that only the pool, the signals or the waits are changed by.
LEMMA IdleMove ==
    ASSUME TypeOK, UNCHANGED <<todo, lost, state, promises, links>>, Placed \subseteq Placed',
           NEW t \in Thread
    PROVE  Move(t)
<1>1. Remains(t, todo[t])
  BY WholeRemains
<1>2. Kind(t, <<>>, todo[t])
  BY DEF Kind, Works
<1>3. todo' = [todo EXCEPT ![t] = todo[t]] /\ todo[t] \in Seq(Phase)
  BY DEF TypeOK
<1> QED BY <1>1, <1>2, <1>3, RestMove

\* A completion, on whatever is left of the stack.
LEMMA CompleteMoves ==
    ASSUME TypeOK, NEW t \in Thread, NEW f \in Future, NEW o \in Outcome,
           NEW rest \in Seq(Phase), Complete(t, f, o, rest), Remains(t, rest),
           Framed(rest, Nobody), UNCHANGED <<created, origin, parent, registered, delivered>>
    PROVE  Move(t)
<1>1. CASE MayComplete(f)
  <2> DEFINE h == TerminalHandlers(f, o)
  <2>1. h \in Seq(Phase)
    BY HandlersBuilt
  <2>2. /\ todo' = [todo EXCEPT ![t] = h \o rest] /\ DropHandlers(f) /\ state[f] \in Live
        /\ state' = [state EXCEPT ![f] = "completed"] /\ outcome' = [outcome EXCEPT ![f] = o]
    BY <1>1 DEF Complete, MayComplete
  <2>3. Settles(h, rest)
    BY <2>2 DEF Settles
  <2> HIDE DEF h
  <2> QED BY <2>1, <2>2, <2>3 DEF Move, Kind
<1>2. CASE ~MayComplete(f)
  <2>1. /\ todo' = [todo EXCEPT ![t] = rest]
        /\ UNCHANGED <<state, outcome, watchers, conts, kids>>
    BY <1>2 DEF Complete
  <2>2. Kind(t, <<>>, rest)
    BY <2>1 DEF Kind, Works, promises, links
  <2> QED BY <2>1, <2>2, RestMove
<1> QED BY <1>1, <1>2

\* A cancellation, likewise.
LEMMA CancelMoves ==
    ASSUME TypeOK, NEW t \in Thread, NEW f \in Future, NEW fr \in Future \cup {Nobody},
           NEW rest \in Seq(Phase), CancelTransition(t, f, fr, rest), state[f] \in Live,
           Remains(t, rest), fr = Nobody => rest = <<>>,
           UNCHANGED <<created, origin, parent, registered, delivered>>
    PROVE  Move(t)
<1> DEFINE h == CancelWork(f, fr)
<1>1. h \in Seq(Phase) /\ "cancelled" \in Outcome
  BY CancelBuilt DEF Outcome
<1>2. /\ todo' = [todo EXCEPT ![t] = h \o rest] /\ DropHandlers(f)
      /\ state' = [state EXCEPT ![f] = "cancelled"]
      /\ outcome' = [outcome EXCEPT ![f] = "cancelled"]
  BY DEF CancelTransition
<1>3. Settles(h, rest)
  BY <1>1, <1>2 DEF Settles
<1> HIDE DEF h
<1> QED BY <1>1, <1>2, <1>3 DEF Move, Kind

\* Library calls.
LEMMA CallMoves == ASSUME AsyncInv, NEW t \in Thread, Call(t) PROVE Move(t)
<1>0. TypeOK /\ FreshOK /\ SettledOK
  BY DEF AsyncInv, ClaimInv, Typed
<1>1. UNCHANGED <<queue, pc, held>> /\ todo[t] = <<>> /\ UNCHANGED lost
  BY DEF Call, Submit, Deferred, Resolve, OnComplete, Then, Cancel, Destroy, Await, pool, ghost, CanCall
<1>2. Placed' = Placed
  BY <1>1 DEF Placed
<1>3. Remains(t, <<>>) /\ <<>> \in Seq(Phase)
  BY <1>1, <1>2, EmptyRemains
<1>4. UNCHANGED todo => todo' = [todo EXCEPT ![t] = <<>>]
  BY <1>0, <1>1 DEF TypeOK
<1>5. CASE Submit(t)
  <2>1. CurrentParent(t) \in Future \cup {Nobody}
    BY <1>0 DEF CurrentParent, TypeOK
  <2>2. created < MaxFutures
    BY <1>5 DEF Submit, Create
  <2>3. Enqueue({created + 1}) \in Seq(Phase)
    BY <1>0, <2>2, NextIsFresh, EnqueueTyped
  <2>4. Opens(Enqueue({created + 1}), <<>>)
    BY <1>5, <2>1 DEF Submit, Opens, promises
  <2>5. todo' = [todo EXCEPT ![t] = Enqueue({created + 1})]
    BY <1>5 DEF Submit
  <2> QED BY <1>3, <2>3, <2>4, <2>5, PushMove DEF Kind
<1>6. CASE Deferred(t)
  <2>1. CurrentParent(t) \in Future \cup {Nobody}
    BY <1>0 DEF CurrentParent, TypeOK
  <2>2. Opens(<<>>, <<>>)
    BY <1>6, <2>1 DEF Deferred, Opens, promises
  <2> QED BY <1>3, <1>4, <1>6, <2>2, PushMove DEF Kind, Deferred
<1>7. ASSUME NEW f \in Future, NEW o \in GoalOutcome, Resolve(t, f, o) PROVE Move(t)
  <2>1. /\ Complete(t, f, o, <<>>) /\ o \in Outcome /\ Framed(<<>>, Nobody)
        /\ UNCHANGED <<created, origin, parent, registered, delivered>>
    BY <1>7 DEF Resolve, Outcome, ghost, Framed
  <2> QED BY <1>0, <1>3, <2>1, CompleteMoves
<1>8. ASSUME NEW f \in Future, NEW c \in Callback, OnComplete(t, f, c) PROVE Move(t)
  <2>1. CASE state[f] \in Live /\ UNCHANGED todo /\ watchers' = [watchers EXCEPT ![f] = @ \cup {c}]
    <3>1. Registers(<<>>, <<>>)
      BY <1>8, <2>1 DEF OnComplete, Registers, links
    <3> QED BY <1>3, <1>4, <2>1, <3>1, PushMove DEF Kind
  <2>2. CASE /\ state[f] \in Terminal /\ UNCHANGED watchers
             /\ todo' = [todo EXCEPT ![t] = Notify({c}, outcome[f], Nobody)]
    <3>1. {c} \in SUBSET Callback /\ outcome[f] \in Outcome
      BY <1>0, <2>2 DEF SettledOK
    <3>2. Notify({c}, outcome[f], Nobody) \in Seq(Phase)
      BY <3>1, NotifyTyped
    <3>3. Registers(Notify({c}, outcome[f], Nobody), <<>>)
      BY <1>8, <2>2 DEF OnComplete, Registers, links
    <3> QED BY <1>3, <2>2, <3>2, <3>3, PushMove DEF Kind
  <2> QED BY <1>8, <2>1, <2>2 DEF OnComplete
<1>9. ASSUME NEW f \in Future, Then(t, f) PROVE Move(t)
  <2>1. /\ Create(f, "continuation", state[f] \in Live) /\ UNCHANGED promises
        /\ created < MaxFutures /\ (state[f] \in Live) \in BOOLEAN /\ f # Nobody
    BY <1>9 DEF Then, promises, Create, Future, Nobody
  <2>2. {created + 1} \in SUBSET Future /\ Nobody \in Future \cup {Nobody}
    BY <1>0, <2>1, NextIsFresh
  <2>3. CASE state[f] \in Live /\ conts' = [conts EXCEPT ![f] = @ \cup {created + 1}] /\ UNCHANGED todo
    <3>1. Opens(<<>>, <<>>)
      BY <2>1, <2>3 DEF Opens
    <3> QED BY <1>3, <1>4, <2>3, <3>1, PushMove DEF Kind
  <2>4. CASE state[f] = "completed" /\ todo' = [todo EXCEPT ![t] = Enqueue({created + 1})]
             /\ UNCHANGED conts
    <3>1. Enqueue({created + 1}) \in Seq(Phase)
      BY <2>2, EnqueueTyped
    <3>2. Opens(Enqueue({created + 1}), <<>>)
      BY <2>1, <2>4 DEF Opens
    <3> QED BY <1>3, <2>4, <3>1, <3>2, PushMove DEF Kind
  <2>5. CASE state[f] = "cancelled" /\ todo' = [todo EXCEPT ![t] = CancelAll({created + 1}, Nobody)]
             /\ UNCHANGED conts
    <3>1. CancelAll({created + 1}, Nobody) \in Seq(Phase)
      BY <2>2, CancelAllTyped
    <3>2. Opens(CancelAll({created + 1}, Nobody), <<>>)
      BY <2>1, <2>5 DEF Opens
    <3> QED BY <1>3, <2>5, <3>1, <3>2, PushMove DEF Kind
  <2> QED BY <1>9, <2>3, <2>4, <2>5 DEF Then
<1>10. ASSUME NEW f \in Future, Cancel(t, f) PROVE Move(t)
  <2>1. /\ CancelTransition(t, f, Nobody, <<>>) /\ state[f] \in Live
        /\ UNCHANGED <<created, origin, parent, registered, delivered>>
    BY <1>10 DEF Cancel, ghost
  <2> QED BY <1>0, <1>3, <2>1, CancelMoves
<1>11. ASSUME NEW f \in Future, Destroy(t, f) PROVE Move(t)
  <2> DEFINE a == IF state[f] \in Live THEN CancelAll({f}, Nobody) ELSE <<>>
  <2>1. a \in Seq(Phase) /\ Erase(f) \in Seq(Phase)
    BY CancelAllTyped, EraseTyped
  <2>2. todo' = [todo EXCEPT ![t] = a \o Erase(f)]
    BY <1>11 DEF Destroy
  <2>3. Works(a \o Erase(f), <<>>)
    BY <1>11 DEF Destroy, Works, facts, ghost, promises, links
  <2> HIDE DEF a
  <2>4. a \o Erase(f) \in Seq(Phase)
    BY <2>1
  <2> QED BY <1>3, <2>2, <2>3, <2>4, PushMove DEF Kind
<1>12. ASSUME NEW f \in Future, Await(t, f) PROVE Move(t)
  BY <1>0, <1>2, <1>12, IdleMove DEF Await, facts, ghost, promises, links
<1> QED BY <1>5, <1>6, <1>7, <1>8, <1>9, <1>10, <1>11, <1>12 DEF Call

\* The first phase of a thread, and what is below one that no catch/3 protects.
LEMMA BareBelow ==
    ASSUME NEW s \in Seq(Phase), s # <<>>, ShapeOK(s), s[1].frame = Nobody,
           NEW r \in Seq(Phase), Part(r, s)
    PROVE  Framed(r, Nobody)
<1>1. \A j \in DOMAIN s : s[j].frame = Nobody
  <2> SUFFICES ASSUME NEW j \in DOMAIN s PROVE s[j].frame = Nobody
    OBVIOUS
  <2>1. 1 \in DOMAIN s /\ (j = 1 \/ j > 1)
    OBVIOUS
  <2> QED BY <2>1 DEF ShapeOK
<1> QED BY <1>1 DEF Part, Framed

\* What a thread does outside the mutex.
LEMMA UnlockedMoves == ASSUME AsyncInv, NEW t \in Thread, Unlocked(t) PROVE Move(t)
<1>0. TypeOK /\ FreshOK /\ SettledOK /\ StacksOK /\ AllNoticesOK
  BY DEF AsyncInv, ClaimInv, Typed, AccountInv, NoticeInv
<1>1. /\ todo[t] \in Seq(Phase) /\ todo[t] # <<>> /\ ShapeOK(todo[t])
      /\ NoticesOK(todo[t], registered, outcome, delivered)
  BY DEF Unlocked, EnqueueTask, RejectTask, SignalWorker, RunCallback, CancelChild,
     NextToCancel, EraseFuture, Doing, TypeOK, AsyncInv, ClaimInv, Typed, AccountInv,
     NoticeInv, ShapesOK, AllNoticesOK
<1> DEFINE s == todo[t]
<1>2. ASSUME NEW f \in Future, s[1].op \in {"enqueue", "cancel"}, lost \subseteq lost',
             s[1].op = "cancel" => state'[f] \notin Live,
             s[1].op = "enqueue" => f \in Placed' \/ state'[f] # "pending",
             Placed \subseteq Placed'
      PROVE  Remains(t, WithoutFuture(s, f)) /\ WithoutFuture(s, f) \in Seq(Phase)
  <2> DEFINE r == WithoutFuture(s, f)
  <2>1. /\ r \in Seq(Phase) /\ Part(r, s) /\ Told(r) = Told(s)
        /\ \A op : Owed(s, op) \subseteq Owed(r, op) \cup {f}
        /\ \A op : op # s[1].op => Owed(s, op) \subseteq Owed(r, op)
    BY <1>1, <1>2, WithoutFutureOwes
  <2> HIDE DEF r
  <2>2. CASE s[1].op = "enqueue"
    <3>1. Owed(s, "cancel") \subseteq Owed(r, "cancel")
      BY <2>1, <2>2
    <3>2. Owed(s, "enqueue") \subseteq Owed(r, "enqueue") \cup {f}
      BY <2>1
    <3> QED BY <1>2, <2>1, <2>2, <3>1, <3>2 DEF Remains, r
  <2>3. CASE s[1].op = "cancel"
    <3>1. Owed(s, "enqueue") \subseteq Owed(r, "enqueue")
      BY <2>1, <2>3
    <3>2. Owed(s, "cancel") \subseteq Owed(r, "cancel") \cup {f}
      BY <2>1
    <3>3. state'[f] \notin Live
      BY <1>2, <2>3
    <3>4. Told(s) \subseteq Told(r)
      BY <2>1
    <3> QED BY <1>2, <2>1, <3>1, <3>2, <3>3, <3>4 DEF Remains, r
  <2> QED BY <1>2, <2>2, <2>3
<1>3. UNCHANGED <<queue, pc, held>> => Placed' = Placed
  BY DEF Placed
<1>4. ASSUME NEW f \in Future, EnqueueTask(t, f) PROVE Move(t)
  <2>1. Placed \subseteq Placed' /\ f \in Placed'
    <3>1. queue' = Append(queue, f) /\ UNCHANGED <<pc, held>> /\ queue \in Seq(Future)
      BY <1>0, <1>4 DEF EnqueueTask, TypeOK
    <3>2. \A i \in DOMAIN queue : i \in DOMAIN queue' /\ queue'[i] = queue[i]
      BY <3>1
    <3>3. Len(queue) + 1 \in DOMAIN queue' /\ queue'[Len(queue) + 1] = f
      BY <3>1
    <3> QED BY <3>1, <3>2, <3>3 DEF Placed
  <2>2. s[1].op = "enqueue" /\ UNCHANGED lost
    BY <1>4 DEF EnqueueTask, Doing, ghost
  <2>3. Remains(t, WithoutFuture(s, f)) /\ WithoutFuture(s, f) \in Seq(Phase)
    BY <1>2, <2>1, <2>2
  <2>4. /\ todo' = [todo EXCEPT ![t] = WithoutFuture(s, f)]
        /\ Kind(t, <<>>, WithoutFuture(s, f))
    BY <1>4 DEF EnqueueTask, Kind, Works, facts, ghost, promises, links
  <2> QED BY <2>3, <2>4, RestMove
<1>5. ASSUME NEW f \in Future, RejectTask(t, f) PROVE Move(t)
  <2>1. /\ s[1].op = "enqueue" /\ UNCHANGED <<queue, pc, held, lost>>
        /\ Complete(t, f, "backpressure", WithoutFuture(s, f))
        /\ UNCHANGED <<created, origin, parent, registered, delivered>>
    BY <1>5 DEF RejectTask, Doing, ghost, pool
  <2>2. state'[f] # "pending"
    BY <1>0, <2>1 DEF Complete, MayComplete, Live, TypeOK
  <2>3. Remains(t, WithoutFuture(s, f)) /\ WithoutFuture(s, f) \in Seq(Phase)
    BY <1>2, <1>3, <2>1, <2>2
  <2>4. s[1].frame = Nobody
    BY <1>1, <2>1 DEF ShapeOK
  <2>5. Framed(WithoutFuture(s, f), Nobody)
    BY <1>1, <2>3, <2>4, BareBelow DEF Remains
  <2> QED BY <1>0, <2>1, <2>3, <2>5, CompleteMoves DEF Outcome
<1>6. ASSUME s[1].op \in {"signal", "erase"}, lost \subseteq lost', Placed \subseteq Placed'
      PROVE  Remains(t, Tail(s)) /\ Tail(s) \in Seq(Phase)
  BY <1>1, <1>6, TailOwes DEF Remains
<1>7. ASSUME NEW f \in Future, SignalWorker(t, f) PROVE Move(t)
  <2>1. /\ s[1].op = "signal" /\ UNCHANGED <<queue, pc, held, lost>>
        /\ todo' = [todo EXCEPT ![t] = Tail(s)] /\ Kind(t, <<>>, Tail(s))
    BY <1>7 DEF SignalWorker, Doing, Kind, Works, facts, ghost, promises, links
  <2>2. Remains(t, Tail(s)) /\ Tail(s) \in Seq(Phase)
    BY <1>3, <1>6, <2>1
  <2> QED BY <2>1, <2>2, RestMove
<1>8. ASSUME NEW f \in Future, EraseFuture(t, f) PROVE Move(t)
  <2>1. /\ s[1].op = "erase" /\ UNCHANGED <<queue, pc, held>> /\ lost \subseteq lost'
        /\ todo' = [todo EXCEPT ![t] = Tail(s)]
    BY <1>8 DEF EraseFuture, Doing, pool
  <2>2. state[f] # "absent"
    <3>1. StackOK(s, Dead, Known)
      BY <1>0 DEF StacksOK
    <3>2. PhaseOK(s[1], Dead, Known)
      BY <1>1, <3>1, TailOK
    <3> QED BY <1>8, <2>1, <3>2 DEF EraseFuture, PhaseOK, Known
  <2>3. Kind(t, <<>>, Tail(s))
    <3>1. state[f] \in Live => watchers[f] \cup conts[f] \subseteq lost'
      BY <1>8 DEF EraseFuture
    <3>2. Erases(<<>>)
      BY <1>8, <2>2, <3>1 DEF EraseFuture, Erases
    <3> QED BY <3>2 DEF Kind
  <2>4. Remains(t, Tail(s)) /\ Tail(s) \in Seq(Phase)
    BY <1>3, <1>6, <2>1
  <2> QED BY <2>1, <2>3, <2>4, RestMove
<1>9. ASSUME NEW f \in Future, CancelChild(t, f) PROVE Move(t)
  <2> DEFINE r == WithoutFuture(s, f)
  <2>1. /\ s[1].op = "cancel" /\ UNCHANGED <<queue, pc, held, lost>>
        /\ UNCHANGED <<created, origin, parent, registered, delivered>>
    BY <1>9 DEF CancelChild, NextToCancel, Doing, ghost, pool
  <2>2. state'[f] \notin Live
    BY <1>0, <1>9 DEF CancelChild, CancelTransition, TypeOK, Live
  <2>3. Remains(t, r) /\ r \in Seq(Phase)
    BY <1>2, <1>3, <2>1, <2>2
  <2>4. CASE state[f] \in Live /\ CancelTransition(t, f, f, r)
    <3>1. f # Nobody
      BY DEF Future, Nobody
    <3> HIDE DEF r
    <3> QED BY <1>0, <2>1, <2>3, <2>4, <3>1, CancelMoves
  <2>5. CASE /\ todo' = [todo EXCEPT ![t] = r]
             /\ UNCHANGED <<state, outcome, watchers, conts, kids>>
    <3>1. Kind(t, <<>>, r)
      BY <2>1, <2>5 DEF Kind, Works, promises, links
    <3> QED BY <2>3, <2>5, <3>1, RestMove
  <2> QED BY <1>9, <2>4, <2>5 DEF CancelChild
<1>10. ASSUME NEW c \in Callback, RunCallback(t, c) PROVE Move(t)
  <2> DEFINE r == WithoutCallback(s, c)
  <2>1. /\ s[1].op = "notify" /\ c \in s[1].cbs /\ UNCHANGED <<queue, pc, held, lost>>
        /\ todo' = [todo EXCEPT ![t] = r]
        /\ delivered' = [delivered EXCEPT ![c] = IF @ = "never" THEN s[1].out ELSE "again"]
        /\ UNCHANGED <<state, outcome, watchers, registered, links>>
    BY <1>10 DEF RunCallback, Doing, ghost, pool, facts, links
  <2>2. /\ registered[c] # Nobody /\ outcome[registered[c]] = s[1].out
        /\ delivered[c] = "never" /\ s[1].out \in Outcome /\ c \in Told(s)
    <3>1. 1 \in DOMAIN s /\ s[1] \in Phase
      BY <1>1
    <3>2. s[1].out \in Outcome
      BY <3>1 DEF Phase
    <3> QED BY <1>1, <2>1, <3>1, <3>2 DEF NoticesOK, Told
  <2>3. /\ r \in Seq(Phase) /\ Part(r, s) /\ Told(r) = Told(s) \ {c}
        /\ \A op : op # "notify" => Owed(s, op) \subseteq Owed(r, op)
    BY <1>1, <2>1, WithoutCallbackOwes
  <2>4. delivered' = [delivered EXCEPT ![c] = outcome[registered[c]]]
    BY <1>0, <2>1, <2>2 DEF TypeOK
  <2>5. delivered'[c] # "never"
    BY <1>0, <2>2, <2>4 DEF TypeOK, Outcome, GoalOutcome
  <2> HIDE DEF r
  <2>6. Owed(s, "cancel") \subseteq Owed(r, "cancel") /\ Owed(s, "enqueue") \subseteq Owed(r, "enqueue")
    BY <2>3
  <2>7. Remains(t, r)
    BY <1>3, <2>1, <2>3, <2>5, <2>6 DEF Remains
  <2>8. Calls(t, <<>>, r)
    BY <2>1, <2>2, <2>3, <2>4 DEF Calls
  <2> QED BY <2>1, <2>3, <2>7, <2>8, RestMove DEF Kind
<1> QED BY <1>4, <1>5, <1>7, <1>8, <1>9, <1>10 DEF Unlocked

\* What a worker does, and what an interrupt does to it.
LEMMA WorkerMoves ==
    ASSUME AsyncInv, NEW w \in Worker, WorkerStep(w) \/ Returns(w) \/ Interrupt(w)
    PROVE  Move(w)
<1> w \in Thread
  BY DEF Thread
<1>0. TypeOK /\ HeldOK /\ QuietOK /\ AllNoticesOK
  BY DEF AsyncInv, ClaimInv, Typed, AccountInv, NoticeInv
<1> DEFINE s == todo[w]
<1>1. s \in Seq(Phase) /\ ShapeOK(s) /\ NoticesOK(s, registered, outcome, delivered)
  BY <1>0 DEF TypeOK, AsyncInv, AccountInv, ShapesOK, AllNoticesOK
<1> DEFINE Idle == UNCHANGED <<todo, lost, state, promises, links>>
<1>2. ASSUME NEW v \in Worker, pc[v] # "dequeued" \/ state'[held[v]] # "pending", lost \subseteq lost',
             queue' = queue, \A u \in Worker : u # v => pc'[u] = pc[u] /\ held'[u] = held[u]
      PROVE  Placed \subseteq Placed' \cup {f \in Future : state'[f] # "pending"}
  <2> SUFFICES ASSUME NEW f \in Placed, f \notin Placed' PROVE state'[f] # "pending"
    BY DEF Placed
  <2>1. ~ \E i \in DOMAIN queue : queue[i] = f
    BY <1>2 DEF Placed
  <2>2. PICK u \in Worker : pc[u] = "dequeued" /\ held[u] = f
    BY <2>1 DEF Placed
  <2>3. u = v
    BY <1>2, <2>2 DEF Placed
  <2> QED BY <1>2, <2>2, <2>3
<1>3. ASSUME queue' = queue, held' = held, \A u \in Worker : pc[u] = "dequeued" => pc'[u] = "dequeued"
      PROVE  Placed \subseteq Placed'
  BY <1>3 DEF Placed
<1>4. CASE Dequeue(w)
  <2>1. Placed \subseteq Placed'
    <3>1. /\ queue \in Seq(Future) /\ queue # <<>> /\ queue' = Tail(queue) /\ pc[w] = "idle"
          /\ pc' = [pc EXCEPT ![w] = "dequeued"] /\ held' = [held EXCEPT ![w] = Head(queue)]
      BY <1>0, <1>4 DEF Dequeue, TypeOK
    <3>2. \A i \in DOMAIN queue : queue[i] = Head(queue) \/ \E j \in DOMAIN queue' : queue'[j] = queue[i]
      <4> SUFFICES ASSUME NEW i \in DOMAIN queue, i # 1 PROVE \E j \in DOMAIN queue' : queue'[j] = queue[i]
        BY <3>1
      <4>1. i - 1 \in DOMAIN queue' /\ queue'[i - 1] = queue[i]
        BY <3>1
      <4> QED BY <4>1
    <3>3. pc'[w] = "dequeued" /\ held'[w] = Head(queue)
      BY <1>0, <3>1 DEF TypeOK
    <3>4. \A u \in Worker : pc[u] = "dequeued" => pc'[u] = "dequeued" /\ held'[u] = held[u]
      BY <1>0, <3>1 DEF TypeOK
    <3> QED BY <3>2, <3>3, <3>4 DEF Placed
  <2>2. Idle
    BY <1>4 DEF Dequeue, facts, ghost, promises, links
  <2> QED BY <1>0, <2>1, <2>2, IdleMove
<1>5. CASE Claim(w)
  <2>1. held[w] \in Future /\ UNCHANGED <<promises, links, todo, lost, queue>>
    BY <1>0, <1>5 DEF Claim, HeldOK, promises, links, ghost
  <2>2. CASE Claimable(held[w]) /\ state' = [state EXCEPT ![held[w]] = "running"]
    <3>1. state[held[w]] = "pending" /\ state'[held[w]] = "running"
      BY <1>0, <2>1, <2>2 DEF Claimable, TypeOK
    <3>2. \A u \in Worker : u # w => pc'[u] = pc[u] /\ held'[u] = held[u]
      BY <1>0, <1>5 DEF Claim, TypeOK
    <3>3. Placed \subseteq Placed' \cup {f \in Future : state'[f] # "pending"}
      BY <1>2, <2>1, <3>1, <3>2
    <3>4. Remains(w, s)
      BY <1>0, <2>1, <3>3, WholeRemains
    <3>5. Claims(<<>>)
      BY <2>1, <2>2, <3>1 DEF Claims
    <3>6. todo' = [todo EXCEPT ![w] = s]
      BY <1>0, <2>1 DEF TypeOK
    <3> QED BY <1>1, <3>4, <3>5, <3>6, RestMove DEF Kind
  <2>3. CASE ~Claimable(held[w]) /\ UNCHANGED state
    <3>1. state'[held[w]] # "pending"
      BY <2>3 DEF Claimable
    <3>2. \A u \in Worker : u # w => pc'[u] = pc[u] /\ held'[u] = held[u]
      BY <1>0, <1>5 DEF Claim, TypeOK
    <3>3. Placed \subseteq Placed' \cup {f \in Future : state'[f] # "pending"}
      BY <1>2, <2>1, <3>1, <3>2
    <3>4. Remains(w, s)
      BY <1>0, <2>1, <3>3, WholeRemains
    <3>5. Works(<<>>, s)
      BY <2>1, <2>3 DEF Works
    <3>6. todo' = [todo EXCEPT ![w] = s]
      BY <1>0, <2>1 DEF TypeOK
    <3> QED BY <1>1, <3>4, <3>5, <3>6, RestMove DEF Kind
  <2> QED BY <1>5, <2>2, <2>3 DEF Claim
<1>6. CASE Setup(w) \/ Enter(w) \/ Cleanup(w)
  <2>1. /\ queue' = queue /\ held' = held
        /\ \A u \in Worker : pc[u] = "dequeued" => pc'[u] = "dequeued"
    BY <1>0, <1>6 DEF Setup, Enter, Cleanup, TypeOK
  <2>2. Idle
    BY <1>6 DEF Setup, Enter, Cleanup, facts, ghost, promises, links
  <2> QED BY <1>0, <1>3, <2>1, <2>2, IdleMove
<1>7. CASE Store(w)
  <2>1. /\ s = <<>> /\ held[w] \in Future /\ result[w] \in Outcome
        /\ Complete(w, held[w], result[w], <<>>)
        /\ UNCHANGED <<created, origin, parent, registered, delivered, queue, lost>>
    BY <1>0, <1>7 DEF Store, QuietOK, HeldOK, TypeOK, Outcome, ghost
  <2>2. /\ pc[w] = "storing"
        /\ \A u \in Worker : u # w => pc'[u] = pc[u] /\ held'[u] = held[u]
    BY <1>0, <1>7 DEF Store, TypeOK
  <2>3. Placed \subseteq Placed' \cup {f \in Future : state'[f] # "pending"}
    BY <1>2, <2>1, <2>2
  <2>4. Remains(w, <<>>) /\ Framed(<<>>, Nobody) /\ <<>> \in Seq(Phase)
    BY <2>1, <2>3, EmptyRemains DEF Framed
  <2> QED BY <1>0, <2>1, <2>4, CompleteMoves
<1>8. CASE ReleaseWorker(w)
  <2>1. Idle /\ queue' = queue
    BY <1>8 DEF ReleaseWorker, ghost, promises, links
  <2>2. \A u \in Worker : pc[u] = "dequeued" => pc'[u] = "dequeued" /\ held'[u] = held[u]
    BY <1>0, <1>8 DEF ReleaseWorker, TypeOK
  <2>3. Placed \subseteq Placed'
    BY <2>1, <2>2 DEF Placed
  <2> QED BY <1>0, <2>1, <2>3, IdleMove
<1>9. ASSUME NEW o \in GoalOutcome, GoalReturn(w, o) PROVE Move(w)
  <2>1. /\ queue' = queue /\ held' = held
        /\ \A u \in Worker : pc[u] = "dequeued" => pc'[u] = "dequeued"
    BY <1>0, <1>9 DEF GoalReturn, TypeOK
  <2>2. Idle
    BY <1>9 DEF GoalReturn, facts, ghost, promises, links
  <2> QED BY <1>0, <1>3, <2>1, <2>2, IdleMove
<1>10. ASSUME NEW f \in Future, StaleSignal(w, f) \/ CancelGoal(w, f) \/ EscapeGoal(w, f) PROVE Move(w)
  <2>1. /\ queue' = queue /\ held' = held
        /\ \A u \in Worker : pc[u] = "dequeued" => pc'[u] = "dequeued"
    BY <1>0, <1>10 DEF StaleSignal, CancelGoal, EscapeGoal, TypeOK
  <2>2. Idle
    BY <1>10 DEF StaleSignal, CancelGoal, EscapeGoal, facts, ghost, promises, links
  <2> QED BY <1>0, <1>3, <2>1, <2>2, IdleMove
<1>11. ASSUME NEW f \in Future, InterruptElement(w, f) PROVE Move(w)
  <2>1. UNCHANGED <<queue, held, pc, state, promises, links>>
    BY <1>11 DEF InterruptElement, facts, promises, links
  <2>2. Placed' = Placed
    BY <2>1 DEF Placed
  <2>3. CASE UNCHANGED <<todo, lost>>
    BY <1>0, <2>1, <2>2, <2>3, IdleMove
  <2>4. ASSUME NEW c \in s[1].cbs, Doing(w, "notify"), lost' = lost \cup {c},
               todo' = [todo EXCEPT ![w] = WithoutCallback(s, c)]
        PROVE  Move(w)
    <3> DEFINE r == WithoutCallback(s, c)
    <3>1. /\ r \in Seq(Phase) /\ Part(r, s) /\ Told(r) = Told(s) \ {c}
          /\ \A op : op # "notify" => Owed(s, op) \subseteq Owed(r, op)
      BY <1>1, <2>4, WithoutCallbackOwes DEF Doing
    <3> HIDE DEF r
    <3>2. Owed(s, "cancel") \subseteq Owed(r, "cancel") /\ Owed(s, "enqueue") \subseteq Owed(r, "enqueue")
      BY <3>1
    <3>3. Remains(w, r)
      BY <2>2, <2>4, <3>1, <3>2 DEF Remains
    <3>4. Kind(w, <<>>, r)
      BY <2>1 DEF Kind, Works
    <3> QED BY <2>4, <3>1, <3>3, <3>4, RestMove DEF r
  <2>5. ASSUME NEW c \in Future, NextToCancel(w, c), lost' = lost \cup {c},
               todo' = [todo EXCEPT ![w] = WithoutFuture(s, c)]
        PROVE  Move(w)
    <3> DEFINE r == WithoutFuture(s, c)
    <3>1. /\ r \in Seq(Phase) /\ Part(r, s) /\ Told(r) = Told(s)
          /\ \A op : Owed(s, op) \subseteq Owed(r, op) \cup {c}
      BY <1>1, <2>5, WithoutFutureOwes DEF NextToCancel, Doing
    <3> HIDE DEF r
    <3>2. /\ Owed(s, "cancel") \subseteq Owed(r, "cancel") \cup {c}
          /\ Owed(s, "enqueue") \subseteq Owed(r, "enqueue") \cup {c}
      BY <3>1
    <3>3. Remains(w, r)
      BY <2>2, <2>5, <3>1, <3>2 DEF Remains
    <3>4. Kind(w, <<>>, r)
      BY <2>1 DEF Kind, Works
    <3> QED BY <2>5, <3>1, <3>3, <3>4, RestMove DEF r
  <2> QED BY <1>11, <2>3, <2>4, <2>5 DEF InterruptElement
<1>12. ASSUME NEW f \in Future, Unwind(w, f) PROVE Move(w)
  <2>1. PICK n \in DOMAIN s :
          /\ todo' = [todo EXCEPT ![w] = SubSeq(s, n + 1, Len(s))]
          /\ lost' = lost \cup UNION {s[i].futs \cup s[i].cbs : i \in 1..n}
    BY <1>12 DEF Unwind
  <2> DEFINE r == SubSeq(s, n + 1, Len(s))
             gone == UNION {s[i].futs \cup s[i].cbs : i \in 1..n}
  <2>2. /\ UNCHANGED <<queue, held, state, promises, links>> /\ pc[w] = "goal"
        /\ \A u \in Worker : pc[u] = "dequeued" => pc'[u] = "dequeued"
    BY <1>0, <1>12 DEF Unwind, facts, promises, links, TypeOK
  <2>3. Placed \subseteq Placed'
    BY <1>3, <2>2
  <2>4. r \in Seq(Phase) /\ Part(r, s)
    BY <1>1, SubSeqPart
  <2>5. Told(s) \subseteq Told(r) \cup gone /\ \A op : Owed(s, op) \subseteq Owed(r, op) \cup gone
    BY <1>1, SubSeqOwes
  <2>6. todo' = [todo EXCEPT ![w] = r] /\ lost' = lost \cup gone
    BY <2>1
  <2> HIDE DEF r, gone
  <2>7. /\ Owed(s, "cancel") \subseteq Owed(r, "cancel") \cup gone
        /\ Owed(s, "enqueue") \subseteq Owed(r, "enqueue") \cup gone
    BY <2>5
  <2>8. Remains(w, r)
    BY <2>3, <2>4, <2>5, <2>6, <2>7 DEF Remains
  <2>9. Kind(w, <<>>, r)
    BY <2>2 DEF Kind, Works
  <2> QED BY <2>4, <2>6, <2>8, <2>9, RestMove
<1> QED BY <1>4, <1>5, <1>6, <1>7, <1>8, <1>9, <1>10, <1>11, <1>12
    DEF WorkerStep, Returns, Interrupt

\* Every step is a move of some thread.
LEMMA StepMoves == AsyncInv /\ [Next]_vars => \E t \in Thread : Move(t)
<1> SUFFICES ASSUME AsyncInv, [Next]_vars PROVE \E t \in Thread : Move(t)
  OBVIOUS
<1>0. TypeOK
  BY DEF AsyncInv, ClaimInv, Typed
<1>1. ASSUME NEW t \in Thread, AwaitReturn(t) \/ AwaitTimeout(t) PROVE Move(t)
  <2>1. UNCHANGED <<todo, lost, state, promises, links, queue, pc, held>>
    BY <1>1 DEF AwaitReturn, AwaitTimeout, facts, pool, ghost, promises, links
  <2> QED BY <1>0, <2>1, IdleMove DEF Placed
<1>2. ASSUME UNCHANGED vars PROVE \E t \in Thread : Move(t)
  <2>1. UNCHANGED <<todo, lost, state, promises, links, queue, pc, held>>
    BY <1>2 DEF vars, facts, pool, ghost, promises, links
  <2>2. PICK t : t \in Thread
    BY ThreadAssumption DEF Thread
  <2> QED BY <1>0, <2>1, <2>2, IdleMove DEF Placed
<1>3. ASSUME NEW t \in Thread, Call(t) \/ Unlocked(t) PROVE Move(t)
  BY <1>3, CallMoves, UnlockedMoves
<1>4. ASSUME NEW w \in Worker, WorkerStep(w) \/ Returns(w) \/ Interrupt(w)
      PROVE  w \in Thread /\ Move(w)
  BY <1>4, WorkerMoves DEF Thread
<1> QED BY <1>1, <1>2, <1>3, <1>4 DEF Next

\* A worker leaves nothing undone: it calls the library from its goal only, and
\* an exception that leaves the goal has left every phase of its stack.
LEMMA StepQuiet == AsyncInv /\ [Next]_vars => QuietOK'
<1> SUFFICES ASSUME AsyncInv, [Next]_vars, NEW w \in Worker, pc'[w] \notin {"idle", "goal"}
             PROVE  todo'[w] = <<>>
  BY DEF QuietOK
<1>0. TypeOK /\ QuietOK /\ w \in Thread /\ Worker \cap Client = {}
  BY ThreadAssumption DEF AsyncInv, ClaimInv, Typed, AccountInv, Thread
<1>1. ASSUME NEW t \in Thread, Call(t) \/ Unlocked(t) PROVE todo'[w] = <<>>
  <2>1. pc'[w] = pc[w]
    BY <1>1, ThreadStepsKeepPool
  <2>2. todo[w] = <<>>
    BY <1>0, <2>1 DEF QuietOK
  <2>3. CASE Call(t)
    <3>1. CanCall(t) \/ UNCHANGED todo
      BY <2>3 DEF Call, Submit, Deferred, Resolve, OnComplete, Then, Cancel, Destroy, Await
    <3>2. t # w \/ UNCHANGED todo
      BY <1>0, <2>1, <3>1 DEF CanCall
    <3>3. UNCHANGED todo \/ \E x : todo' = [todo EXCEPT ![t] = x]
      BY <2>3 DEF Call, Submit, Deferred, Resolve, OnComplete, Then, Cancel, Destroy, Await,
         Complete, CancelTransition
    <3> QED BY <1>0, <2>2, <3>2, <3>3 DEF TypeOK
  <2>4. CASE Unlocked(t)
    <3>1. todo[t] # <<>>
      BY <2>4 DEF Unlocked, EnqueueTask, RejectTask, SignalWorker, RunCallback, CancelChild,
         NextToCancel, EraseFuture, Doing
    <3>2. \E x : todo' = [todo EXCEPT ![t] = x]
      BY <2>4 DEF Unlocked, EnqueueTask, RejectTask, SignalWorker, RunCallback, CancelChild,
         EraseFuture, Complete, CancelTransition
    <3> QED BY <1>0, <2>2, <3>1, <3>2 DEF TypeOK
  <2> QED BY <1>1, <2>3, <2>4
<1>2. ASSUME UNCHANGED <<pc, todo>> PROVE todo'[w] = <<>>
  BY <1>0, <1>2 DEF QuietOK
<1>3. ASSUME NEW v \in Worker, Dequeue(v) \/ Claim(v) \/ Setup(v) \/ Enter(v) \/ Cleanup(v)
             \/ ReleaseWorker(v)
      PROVE  todo'[w] = <<>>
  <2>1. UNCHANGED todo
    BY <1>3 DEF Dequeue, Claim, Setup, Enter, Cleanup, ReleaseWorker
  <2> QED BY <1>0, <1>3, <2>1
      DEF Dequeue, Claim, Setup, Enter, Cleanup, ReleaseWorker, TypeOK, QuietOK
<1>4. ASSUME NEW v \in Worker, Store(v) PROVE todo'[w] = <<>>
  <2>1. pc'[v] = "idle" /\ w # v /\ pc'[w] = pc[w]
    BY <1>0, <1>4 DEF Store, TypeOK
  <2>2. \E x : todo' = [todo EXCEPT ![v] = x]
    BY <1>4 DEF Store, Complete
  <2> QED BY <1>0, <2>1, <2>2 DEF TypeOK, QuietOK
<1>5. ASSUME NEW v \in Worker, Returns(v) PROVE todo'[w] = <<>>
  BY <1>0, <1>5 DEF Returns, GoalReturn, TypeOK, QuietOK
<1>6. ASSUME NEW v \in Worker, NEW f \in Future, StaleSignal(v, f) \/ EscapeGoal(v, f)
             \/ CancelGoal(v, f)
      PROVE  todo'[w] = <<>>
  <2>1. UNCHANGED todo
    BY <1>6 DEF StaleSignal, EscapeGoal, CancelGoal
  <2>2. CASE w = v
    BY <1>0, <1>6, <2>1, <2>2 DEF StaleSignal, EscapeGoal, CancelGoal, TypeOK, QuietOK
  <2>3. CASE w # v
    BY <1>0, <1>6, <2>1, <2>3 DEF StaleSignal, EscapeGoal, CancelGoal, TypeOK, QuietOK
  <2> QED BY <2>2, <2>3
<1>7. ASSUME NEW v \in Worker, NEW f \in Future, InterruptElement(v, f) PROVE todo'[w] = <<>>
  <2>1. pc' = pc /\ pc[v] = "goal" /\ (UNCHANGED todo \/ \E x : todo' = [todo EXCEPT ![v] = x])
    BY <1>7 DEF InterruptElement
  <2> QED BY <1>0, <2>1 DEF TypeOK, QuietOK
<1>8. ASSUME NEW v \in Worker, NEW f \in Future, Unwind(v, f) PROVE todo'[w] = <<>>
  <2> DEFINE s == todo[v]
  <2>1. PICK n \in DOMAIN s :
          /\ pc[v] = "goal" /\ FrameEnds(s, n)
          /\ todo' = [todo EXCEPT ![v] = SubSeq(s, n + 1, Len(s))]
          /\ pc' \in (IF s[1].frame = Nobody THEN {pc, [pc EXCEPT ![v] = "leaving"]} ELSE {pc})
    BY <1>8 DEF Unwind
  <2>2. CASE w # v
    <3>1. pc'[w] = pc[w] /\ todo'[w] = todo[w]
      BY <1>0, <2>1, <2>2 DEF TypeOK
    <3> QED BY <1>0, <3>1 DEF QuietOK
  <2>3. CASE w = v
    <3>1. s[1].frame = Nobody
      BY <2>1, <2>3
    <3>2. s \in Seq(Phase) /\ ShapeOK(s) /\ v \in Thread
      BY <1>0, <2>3 DEF AsyncInv, AccountInv, ShapesOK, TypeOK
    <3>3. n = Len(s)
      <4> SUFFICES ASSUME n < Len(s) PROVE FALSE
        BY <3>2
      <4>1. n + 1 \in DOMAIN s /\ 1 \in DOMAIN s /\ n + 1 > 1
        BY <3>2
      <4>2. s[n + 1].frame = Nobody
        BY <3>1, <3>2, <4>1 DEF ShapeOK
      <4> QED BY <2>1, <3>1, <4>2 DEF FrameEnds
    <3>4. SubSeq(s, n + 1, Len(s)) = <<>>
      BY <3>2, <3>3
    <3> QED BY <1>0, <2>1, <2>3, <3>4 DEF TypeOK
  <2> QED BY <2>2, <2>3
<1> QED BY <1>1, <1>2, <1>3, <1>4, <1>5, <1>6, <1>7, <1>8
    DEF Next, vars, WorkerStep, Interrupt, AwaitReturn, AwaitTimeout, pool

-----------------------------------------------------------------------------
(* The inductive invariant, and what follows from it.                      *)

\* The initial states satisfy the invariant.
LEMMA InitAsync == Init => AsyncInv
<1> SUFFICES ASSUME Init PROVE AsyncInv
  OBVIOUS
<1>1. ClaimInv
  BY InitClaim
<1>2. \A t \in Thread : todo[t] = <<>>
  BY DEF Init
<1>3. ShapesOK /\ QuietOK
  BY <1>2 DEF ShapesOK, ShapeOK, QuietOK, Init
<1>4. AllNoticesOK
  BY <1>2 DEF AllNoticesOK, NoticesOK, Told
<1>5. OpenOK /\ WatchOK /\ CalledOK
  BY DEF Init, OpenOK, WatchOK, CalledOK
<1>6. ContsOK /\ LinkOK /\ CancelReachesChildren
  BY DEF Init, ContsOK, LinkOK, CancelReachesChildren
<1>7. PendingIsAccounted /\ CallbackIsAccounted
  BY DEF Init, PendingIsAccounted, CallbackIsAccounted
<1> QED BY <1>1, <1>3, <1>4, <1>5, <1>6, <1>7 DEF AsyncInv, AccountInv, NoticeInv

\* Every step keeps it.
LEMMA StepAsync == AsyncInv /\ [Next]_vars => AsyncInv'
<1> SUFFICES ASSUME AsyncInv, [Next]_vars PROVE AsyncInv'
  OBVIOUS
<1>1. ClaimInv'
  BY StepTyped, StepHeld, StepSettled, StepStacks, StepMonotone, StepSignals, StepCurrent,
     StepClaim DEF AsyncInv, ClaimInv, Typed
<1>2. PICK t \in Thread : Move(t)
  BY StepMoves
<1>3. PICK push \in Seq(Phase), rest \in Seq(Phase) : Kind(t, push, rest)
  BY <1>2 DEF Move
<1>4. /\ TypeOK /\ FreshOK /\ OpenOK /\ CalledOK /\ WatchOK /\ ContsOK /\ LinkOK
  BY DEF AsyncInv, ClaimInv, Typed, AccountInv, NoticeInv
<1>5. OpenOK' /\ CalledOK'
  BY <1>3, <1>4, KindOpen
<1>6. WatchOK' /\ ContsOK'
  BY <1>3, <1>4, KindWaits
<1>7. LinkOK'
  BY <1>3, <1>4, KindLinks
<1>8. ShapesOK' /\ AllNoticesOK'
  BY <1>2, MoveStacks
<1>9. PendingIsAccounted' /\ CallbackIsAccounted' /\ CancelReachesChildren'
  BY <1>2, MovePending, MoveCallbacks, MoveChildren
<1>10. QuietOK'
  BY StepQuiet
<1> QED BY <1>1, <1>5, <1>6, <1>7, <1>8, <1>9, <1>10 DEF AsyncInv, AccountInv, NoticeInv

\* So it always holds.
LEMMA AsyncInvHolds == Spec => []AsyncInv
  BY InitAsync, StepAsync, PTL DEF Spec

\* No task is forgotten between the facts, the queue, the workers and the phases
\* that threads have yet to run: enqueue_future/3, async_claim_task/3, the
\* continuations a completion takes and the children a cancellation follows hand
\* a pending Future from one to the next, unless an interrupt drops it.
THEOREM TasksAreAccounted == Spec => []PendingIsAccounted
<1>1. AsyncInv => PendingIsAccounted
  BY DEF AsyncInv, AccountInv
<1> QED BY AsyncInvHolds, <1>1, PTL

\* No callback that rlm_future_on_complete/2 accepted is forgotten: it waits with
\* its Future, or some thread has yet to run it, or it was run, or an interrupt
\* dropped it.
THEOREM CallbacksAreAccounted == Spec => []CallbackIsAccounted
<1>1. AsyncInv => CallbackIsAccounted
  BY DEF AsyncInv, AccountInv
<1> QED BY AsyncInvHolds, <1>1, PTL

\* apply_cancel_transition/6 misses no continuation and no child that was there
\* when its Future was cancelled, whatever is created, settled or destroyed
\* before cancel_children/1 gets to it.
THEOREM CancellationsReach == Spec => []CancelReachesChildren
<1>1. AsyncInv => CancelReachesChildren
  BY DEF AsyncInv, AccountInv
<1> QED BY AsyncInvHolds, <1>1, PTL

\* The runtime implements write-once promises: under the mapping Settlement every
\* step opens, settles, registers or delivers one, or stutters, so that no race of
\* completions, cancellations, rejections and destroys settles a Future twice or
\* calls a callback twice, early, or with another outcome.
THEOREM RuntimeKeepsPromises == Spec => KeepsPromises
<1>1. Init => Promises!Init
  BY DEF Init, Promises!Init
<1>2. AsyncInv /\ [Next]_vars
        => Promises!Next \/ UNCHANGED <<Settlement, registered, delivered>>
  <2> SUFFICES ASSUME AsyncInv, [Next]_vars
               PROVE  Promises!Next \/ UNCHANGED <<Settlement, registered, delivered>>
    OBVIOUS
  <2>1. PICK t \in Thread : Move(t)
    BY StepMoves
  <2>2. PICK push \in Seq(Phase), rest \in Seq(Phase) : Kind(t, push, rest)
    BY <2>1 DEF Move
  <2>3. TypeOK /\ FreshOK /\ OpenOK
    BY DEF AsyncInv, ClaimInv, Typed, AccountInv, NoticeInv
  <2> QED BY <2>2, <2>3, KindRefines
<1>3. AsyncInv /\ [Next]_vars => [Promises!Next]_<<Settlement, registered, delivered>>
  BY <1>2
<1> QED BY <1>1, <1>3, AsyncInvHolds, PTL DEF KeepsPromises, Promises!Spec, Spec, Settlement
=============================================================================
