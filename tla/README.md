# A verification development for prolog-rlm

prolog-rlm is an agent runtime for language models: some 63,000 lines of
SWI-Prolog, a C binding to Tree-sitter and a Lisp bridge. Most of it transforms
data in one thread. What is hard to get right, and hard to test, is a small core
of concurrent and durable mechanisms that everything else is run by. This
directory models that core in TLA+, checks it with TLC on small instances, and
proves its most important guarantees with TLAPS for all instances.

1. Inventory of the system
2. Modules, and how they correspond to the code
3. What the runs check and show
4. What is proved
5. Disagreements with the documentation
6. What is not modelled, and the plan

File names below are relative to `src/prolog/` unless they start with `src/`.

## 1. Inventory of the system

| Part | State it keeps | Operations | Interacts with |
|---|---|---|---|
| Async runtime, `rlm_async.pl` | facts for Futures, their threads, parents, callbacks, continuations; a bounded message queue; 8 workers | submit, deferred, resolve, then, on_complete, await, cancel, destroy | every public predicate `*_async` is a task of it |
| Effects, `rlm_effect.pl`, `rlm_effect_persist.pl`, `rlm_effect_executor.pl` | a journal of calls, attempts, observations, events and epochs in a file | prepare, admit, dispatch, observe, reconcile, cancel, resolve, prune | tools with external effects; runs inside async tasks and is cancelled with them |
| Effect stores, `rlm_effect_persist.pl`, `rlm_effect_migration.pl` | journal files with an identity and a path, sidecar locks, leases of executors | open, switch, close, lease, release; offline migration in place or to a new path | the executor holds a lease while its effect is under way; other processes through the files |
| Authority, `rlm_authority.pl` | per context: a mode, single-use permissions, pending operations with gates and two Futures each | decide, approve, edit, deny, cancel by owner, clear, prune | called by `rlm_tool.pl`; executes through the async runtime |
| Tree-sitter binding, `src/c/` | reference-counted native objects behind Prolog blobs | load, create, parse, compile, execute, close; the collector's release hooks | the project registries |
| Completion and direct loop, `rlm_completion.pl`, `rlm_direct.pl` | cancellation tokens, registered threads, stream sequence counters | run, cancel, nested model steps of typed plans | chain, plan, tools, contexts |
| Graph runtime, `rlm_graph.pl`, `rlm_graph_persist.pl` | tokens; checkpoints and events per run | compile, run, resume, cancel, history | inline subgraphs, experts, agents |
| Plan graphs, `rlm_plan_graph.pl` | tokens; a graph state threaded through the loop | parse, validate, execute, cancel | experts, native operations |
| Agents, `rlm_agent.pl` | per agent an engine, a bounded mailbox, worker threads; a trace | spawn, send, pump, supervised call, cancel tree, destroy | authority contexts, async runtime |
| Project registries, `rlm_project_*.pl` | files, grammars, parses, query and semantic observations with generations | register, parse, extract, normalize, clear | Tree-sitter binding |
| Contexts and mounts, `rlm_context.pl`, `rlm_context_mount.pl` | handles, tombstones, a cache of a persistent table | register, slice, delete, mount | completion |
| Conversations, `rlm_conversation*.pl` | transcripts, warm summaries | append, pack, publish | context budget, chain |
| Artifacts, experts, skills, tools, MCP, prompts, specifications | registries of mostly immutable records | register, look up, invoke | completion and graphs |
| Front ends and bridges | a table of requests | | completion |

`PROJECT.json` lists each with its sources and what is modelled of it, and the
hazards of the code at their lines with the properties that watch them.

The behaviours that make this code hard:

- *Decide under a mutex, act after it.* Almost every operation commits a
  transition inside `with_mutex/2` and then sends messages, resolves Futures,
  calls callbacks or signals threads outside it. Other threads act in between.
- *Asynchronous exceptions.* Cancellation is `thread_signal/2` with a goal that
  throws. It arrives between any two steps of a worker that may by then have
  moved on, or be inside a library operation called from its goal.
- *Reused threads.* Pool workers carry out one task after the other, so that a
  late signal, a stale fact or a leaked registration concerns somebody else.
- *A journal without transactions.* A ledger operation appends several records,
  each synchronous; a crash or a cancellation falls between two of them.
- *Collected handles.* Native objects are freed by whoever drops the last use,
  in any order, including the garbage collector's thread.

What makes each component correct is stated by the properties below; in one
line each: a Future is settled once and everybody waiting is told; an external
effect crosses the boundary at most once per licensed attempt; a pending
operation is executed at most once and only while its approval stands; native
memory is freed exactly when its last user is gone; a cancelled execution ends,
and nobody else does; a journal has one writer and loses nothing, whoever opens,
copies or migrates it; an agent waits for the calls somebody works on, and a
cancelled tree has no active agent left.

## 2. Modules, and how they correspond to the code

What a predicate does under one mutex is one action, because every access to the
facts it protects is under that mutex; what it does afterwards is split into an
action per observable step. The exception is the effect journal, where each
write of a locked section is a step, since a crash may separate them.
`PROJECT.json` maps each definition to its lines.

**AsyncFutures** (with **Promises**, what it promises) models `rlm_async.pl`.
`state`, `outcome`, `thread`, `watchers`, `conts`, `kids` are the facts about a
Future; `queue` is the message queue; `pc`, `held` and `current` say where a
worker is in `async_worker_run/1`, which message it took and its
`async_current_future/1`; `signals` are goals thrown at it and not yet run.
`todo` is, per thread, the stack of what its library calls still have to do
outside the mutex: `enqueue` continuations, `notify` callbacks, `cancel` children,
`signal` a worker, `erase` a destroyed Future. Workers named in `GoalCaller` have
goals that call the library themselves; a signal that arrives then unwinds
the stack, and what is dropped is remembered in `lost`. The order of handlers of
one Future is left open (the code's order is the order of facts), which only
adds behaviours.

**EffectLedger**, **EffectExecutor** (with **Effects**) model one logical call
in one store. An attempt is its epoch and its path of retries. `lock` holds the
mutex's owner and the journal writes it still owes; `Journal` makes them one by
one, `Crash` and an interrupt drop the rest. An executor goes through prepare,
admit, dispatch, submit, observe, or reconciles what it finds in doubt; a signal
is raised at any of these steps and handled as `executor_exception/6` does.
`submissions` counts how often an attempt was handed to the adapter. The host's
predicates (status, cancel, resolve, prune) are taken at any time.

**Approvals** (with **Decisions**) models the pending operations of one
context. `record` is `authority_pending/3`; `resolution`, `exec`, `callback`,
`gate` are the two Futures, the completion callback and the message queue that
go with one; `pc` and `job` say between which critical sections a host thread
is. `sweep`, `found` and `todo` are an owner cancellation's or a teardown's
progress over the operations it saw. `doomed` are Futures a thread has unhooked
and not yet destroyed. A gate that is gone takes no message, and what the code
puts after such a message is then skipped: an approver that finds its operation
withdrawn releases nothing (`Abandon`), one whose operation could not be scheduled
forgets the Futures it pruned (`Failed`).

**AuthorityModes** models modes and allow_once facts of a root and a child
context. `owner` and `saved` record which caller's use of a grant is under way
and whose outcome was stored.

**TreeSitterLifetime** models `src/c/`: for each native object whether its
handle is open, its counters, and what it points to. Operations that work on
native memory outside the global lock are two actions, one that retains the
operands and one that publishes the result or takes the error path. `Collect`
is the release hook of a blob nothing refers to any more. A release that follows a locked
section is `owed` by the thread and made in a step of its own. The users of a resource are the
resources that point to it (`Pointing`), the threads in a call that retained it (`Holding`) and
the owed releases (`Debts`).

**EffectStores** models the files those journals are in, and the processes that
open them: runtimes, and runs of the command that migrates a journal of the first
schema. `file` is the journal at each canonical path (its records, identity, schema
version and the path it is bound to), `staged` the temporary file beside it, `backup` the copy of
an in-place migration, `lock` the holder of each sidecar lock. Opening is three
actions, since the process may die between the lock, the identity and the schema it writes; a migration
is one action per file operation. An executor's `Identify` and `Lease` are apart, because
`rlm_effect_executor.pl` computes the identity of a call before it asks for its lease.
`legacy`, the records the source had at first, is the one variable the code does not have.

**CancellationTokens** models the protocol that completions, direct runs,
graphs and plan graphs each implement. `Kind` says how the executions of a token
register: one fact per thread (`"thread"`, completions and direct runs), a count
per thread (`"counted"`, graphs) or one thread per token (`"single"`, plan
graphs); tokens in `Shared` are used by several tasks, those in `Nesting` by an
execution inside an execution. A frame is
an execution on a worker's stack and its phase; `registered` are the facts that
tie threads to tokens; `sending` is a canceller between its critical section and
its signals. The pool is reduced to what matters here: tasks, claims, the
task's catch, and the queue loop's recovery outside it.

**GraphRuns** models one durable run of `rlm_graph.pl` on the persistent backend.
`history` and `checkpoint` are the two kinds of records of the run; `snap` is the
snapshot an execution threads through its loop, and `todo` the writes, node and
router calls it makes before the loop goes round. Between any two of them it may
fail (a cancellation, the time limit, the node, the router or the event handler:
`Fail`) or the process may end (`Crash`); both may cut the checkpoint's retract
and assert apart. `exclusive` records whether the host started the run once and
never had two executions of it under way, which is what the code relies on.

**AgentRuntime** models one runtime of `rlm_agent.pl`. `status` and `pending` are the
state an agent's engine keeps, `mailbox` its message queue, `recordedWorker` the facts
`agent_worker/4`; `worker` says where the thread of a call is, which the code has
nowhere. Threads of the async pool drive the engines: a driver's `pc`, `on`, `at` and `message` say which
agent, call and message it has in hand. Nothing but spawning and the last part of
destruction is under a mutex, so each access to a mailbox, an engine or a fact is a step.
`Transition` is the engine's function of message and state. An engine call may be
refused while another thread is at the same engine, since SWI-Prolog does not wait for it; the
code turns the refusal into a failure reply, and `disturbed` remembers the agent. `todo` is
what a cancellation still has to visit of the tree it walks, `scope` the tree it began with:
`Tree(a)` is the least set that has `a` and the recorded children of its members, and `Visits` puts
the children an agent has when it is visited in front of what is left, the oldest first. A cancellation
that is swallowed while a worker's thread is created leaves an `"orphan"`: a thread nobody
has recorded, which waits for a start that never comes, of a call that is refused.

The **MC** modules (MCAsyncFutures, MCEffectExecutor, MCEffectStores, MCApprovals, MCAuthorityModes,
MCTreeSitterLifetime, MCCancellationTokens, MCGraphRuns, MCAgentRuntime) name the constants of the
instances, and **AsyncFuturesProofs**, **EffectProofs**, **EffectStoresProofs**, **AuthorityProofs** (of
Approvals and of AuthorityModes), **GraphRunsProofs**, **CancellationTokensProofs**,
**TreeSitterLifetimeProofs** and **AgentRuntimeProofs** hold the theorems. Operators marked as a mutant beside some actions are
plausible mistakes; each property is known to fail when one replaces the action.

## 3. What the runs check and show

### Async runtime

| Run | Instance | Shows |
|---|---|---|
| `async_safety` | 2 workers, the goals of one of which call the library, a host thread, 2 Futures, 1 callback, backlog 1 | Futures are write-once promises and callbacks told once (`KeepsPromises`); no pending task or callback is forgotten, cancellation reaches composed Futures and submitted children; a thread fact names the worker that has the Future; a signal interrupts cancelled goals only |
| `async_liveness` | 1 worker whose goals call the library, a host that awaits | tasks settle, callbacks are called, awaits return |

Two Futures are enough for every relation the code has (parent and child, Future
and continuation, a queued task and one that overflows the backlog). One worker
suffices for the races of a task with its canceller; the second is for stale
thread facts and for a goal that meddles with the task of another worker.

*Fairness* (`FairSpec`): every thread that is in the middle of a library call
goes on, a worker takes the next message, and a goal comes to its end again and
again when interrupted (strong fairness, because a signal disables the return).
Goals that do not await pooled Futures are assumed, since a pool whose every
worker awaits a queued task is stuck by the caller's making.

### Effects

| Run | Instance | Shows |
|---|---|---|
| `effect_races` | 2 executors, 2 observation bodies, one retry or authorization | one attempt is submitted at most once, a retry has a settled or authorized parent, and the ledger implements `Effects` |
| `effect_epochs` | 2 executors, 2 epochs, abandon and prune, 1 crash | a new epoch starts over settled attempts only, nothing that happened to an attempt is lost to its history, and an attempt said to be observed has its observation, also after a torn write or prune |
| `effect_stores` | 2 runtimes and 2 migrations, one journal and one other path, 2 old records, an executor's record | no two processes use one journal, nor two journals with one migrated identity; what is at a path is never lost, a migrated journal is complete and its source backed up, and a lease keeps its store attached |

The refinement `KeepsEffects` says that the ledger and its
executors implement `Effects`, where an attempt is claimed, in doubt, known,
licensed, abandoned or void and never goes back. Crashes are bounded by one because recovery
starts from the journal alone and keeps no memory of how it came about. Symmetry over executors
and observations is used; neither run checks liveness.

Any process may die between any two steps, and operators may copy a journal nobody uses. One
path besides the source is a migration's destination, a copy or a store of its own; a
second migration is for what a first one leaves behind. The documentation's
promises after a crash hold for the files; what a rerun of the command answers
differs: after a publication out of place it is `destination_exists`
(docs/effect-migration.md:126 says `already_migrated`), and in place a backup
that was left refuses the rerun.

### Authority

| Run | Instance | Shows |
|---|---|---|
| `approval_safety` | 2 hosts that approve, deny, edit, cancel the owner and clear the context; 2 operations; history of 1 | at most one execution, only after an approval that stood (`KeepsDecisions`); nothing stays approved or gated with nobody at it; records and answers agree, and a closed operation's waiters are answered |
| `authority_once` | 2 callers, 2 operations, parent and child context | a grant is used for one operation |

`HistoryLimit` is 64 in the code and 1 here, so that pruning happens with two
operations.

### Tree-sitter lifetimes

| Run | Instance | Shows |
|---|---|---|
| `ts_reclaim` | one thread and the collector, one grammar, one of each object and a second node, a cursor, under fairness | a library stays mapped while used, counters stay exact and nothing pointed to is freed while a cursor is executed again and again; after the program drops its handles everything is freed |

Fairness here: a handle without references is collected in the end, and owed
releases are made by the thread that owes them. A lifetime error needs an object,
its user and at most one replacement of what the user points to, which is what
the instances have.

### Cancellation tokens

| Run | Instance | Shows |
|---|---|---|
| `cancel_tokens` | a graph token shared by 2 tasks that nest, a plan-graph token and a completion's, 2 threads, 2 cancellations; work may block for ever | registrations of graphs end with their executions, a cancellation finds every thread executing with its token, and a run whose token is cancelled ends |
| `cancel_completion` | a completion with a nested model step on 1 thread | finding, see section 5 |

Two workers, two tasks and a nesting of two cover sharing of a token between
threads and between levels of one thread. The run assumes that
clients send the signals they looked up, that threads handle their signals and go
on, and that the pool serves its queue; it does not assume that work ends.

### Graph runs

| Run | Instance | Shows |
|---|---|---|
| `graph_runs` | 2 threads, 3 nodes, budgets for 2 steps and 1 visit each, 3 calls of run or resume | no step is carried out twice and budgets count across resumptions; only failed resumptions of one pause repeat a sequence number |

Two steps let a run pause, fail in its resumption, and be resumed again; a second
pause is at the end. `StepsRunOnce` is why a run that was cut off in a node stays
`running` for good: the code has no way to know whether the node had its effect.

### Agents

| Run | Instance | Shows |
|---|---|---|
| `agent_runtime` | one thread that spawns, asks, makes supervised calls and may be interrupted, one that pumps and cancels; a supervisor and its child, one call, mailboxes of one message | a worker fact names a live worker, mailboxes keep their bound, the calls an agent waits for are those somebody has in hand, and a cancellation leaves no active agent in its tree |

A mailbox of one message is full as soon as a host sends; one call shows every
place a call can be in, since calls of one agent meet only in its set `pending` and its mailbox.
Agents in `disturbed` are excepted from the last two properties: a refused
engine or an interrupted driver is where the code gives up. No fairness is assumed: a
supervised call ends by its time limit whatever happens.

`CHECK_DEADLOCK FALSE` is set where an instance runs out of Futures, tasks, epochs
or cancellations and all threads are idle: the bounded program has ended.

## 4. What is proved

**AsyncFuturesProofs**, for every set of threads, backlog and number of Futures:
`Typing` (the type invariant), `ThreadFacts` (`ThreadFactIsWorker`) and
`Interrupts` (`InterruptHitsCancelled`). `ThreadFactIsWorker` is not inductive:
a stack may hold a `signal` for a Future that nobody cancelled, or a worker may
recover from one. The inductive invariant `ClaimInv` adds that stacks
signal for dead Futures and erase known ones (`StacksOK`), pending signals
are for dead Futures (`SignalsOK`), a goal runs under the Future its worker holds
(`CurrentOK`), and a recovering worker holds a dead one (`RecoveringOK`). Death is
permanent (`StepMonotone`), which is what makes a signal safe however late
it comes. The proof splits into one lemma per conjunct, each with a step per action.

`TasksAreAccounted` (`PendingIsAccounted`), `CallbacksAreAccounted` (`CallbackIsAccounted`),
`CancellationsReach` (`CancelReachesChildren`) and `RuntimeKeepsPromises` (the refinement
`KeepsPromises`) rest on `AsyncInv`, which is `ClaimInv` and `AccountInv`. What is accounted for is spread over
facts, queue, workers and stacks, so the invariant says what each of these may hold: handlers wait with live
Futures only (`WatchOK`, `ContsOK`), an unsettled Future has no outcome (`OpenOK`) and a live one keeps
the links to its live children (`LinkOK`); a stack calls callbacks with the outcome of their Future, each
callback is on one stack once and not called yet (`AllNoticesOK`), phases that no catch protects are below
those that one does (`ShapesOK`), and a worker that leaves its goal has left no phase (`QuietOK`).
`AccountInv` was checked by TLC on the instance of `async_safety` before it was proved. A stack
is described by what it owes: `Owed(s, op)` and `Told(s)`. Lemmas say what each constructor makes owed and what taking an element, a
phase or a whole frame off leaves owed. Then every step is shown to be a `Move` of a thread
(`CallMoves`, `UnlockedMoves`, `WorkerMoves`): it keeps a rest of the stack and pushes what one of seven kinds
of change asks for (`Opens`, `Settles`, `Registers`, `Calls`, `Erases`, `Claims`, `Works`), and
what the rest no longer owes was done or is in `lost`. Each conjunct, and each step of `Promises`, is then a
matter of the kind alone.

**EffectProofs**, for every number of executors, epochs, retries and crashes:
`LedgerTyping`, `AtMostOnce` (`SubmittedOnce`), `LicensedRetries`
(`RetryIsLicensed`) and `SettledEpochs` (`EpochsAreSettled`). The invariant
`Inv` has five parts: the ledger's types with its
record of old epochs and of observations owed (`LedgerInv`), the executors' types,
`Unsubmitted` (an attempt that is not yet dispatching was not handed over),
`OwnerHolds` (the executor between dispatch and submission is the only one, and its
attempt is not handed over yet) and `Lineage` (a child exists only under a licensed parent).
What a journal write or ledger operation may do to one attempt is the relation
`Settling`; lemmas show that each operation stays in it, and the invariant
is preserved by every step that does.

`ObservedCanBeReplayed` (`ObservedHasObservation`) and `NothingIsForgotten`
(`HistoryIsRecoverable`) need `RecordInv` besides, which ties the journal's three kinds of records together: an
attempt that says observed has its observation (`ObservationHolds`), a revision owed under the mutex is of an
observation journaled before it (`OwedHolds`), and the marks of a doubt and its resolution stand only where a repair
reads them (`MarksHold`). `LedgerKeepsEffects` is the refinement `KeepsEffects`: a step does at most one of five
deeds to the records of one attempt (`Claims`, `Advances`, `Learns`, `Confirms`, `Forgets`) or
begins an epoch, and from that the step of `Effects` follows. The mapping `Stage(a)` had
overlapping cases, of which TLC takes the first and a proof may assume none: they are disjoint now.

**EffectStoresProofs**, for every set of processes, paths, executors and records: `Typing`, `OneWriter`
(`SingleWriter`), `WholeMigrations` (`MigrationIsWhole`), `LeasesPin` (`LeasePinsStore`)
and `NothingIsLost` (`JournalsOnlyGrow`). None of these is inductive: a migration
replaces a journal by what it read much earlier. `IInv` adds which locks each
process has at each step (`LockOK`), what a runtime has checked of the journal it attaches (`AttachedOK`), that
the source is as it was until it has the second schema (`SourceOK`), that what a migration read, backed up
and validated still agrees with it (`MigrationOK`), and that an in-place
migration is not repeated (`OnceInPlace`). What any step may do to a journal is the
relation `FileChange`.

**AuthorityProofs**, for every set of hosts, number of operations and history limit: `Typing` (`TypeOK`), `AnswersFollowRecords`
(`AnswersMatchRecords`), `WaitersAreAnswered` (`ClosedIsAnswered`), `ApprovalsAreCarriedOut`
(`NothingIsStranded`) and `RuntimeKeepsDecisions` (the refinement `KeepsDecisions`). An answer is
decided in one critical section and given in a later one, so `AnswerInv` adds who has an answer to give and
that the record still agrees with it (`TellersAgree`), that only they have Futures of pruned records to
destroy (`DoomedAreHeld`), and that nobody waits for what was not proposed (`FreeIsUntold`). `ScheduleInv` says how far
gate, Future, task and callback have come for each state of the record (`Sound`), that one host schedules an
operation (`OneScheduler`) and what that host may rely on (`SchedulerSees`). Every step is first shown to be of
one of eight kinds (`Kind`), from which the answers and the step of `Decisions` follow; the
schedule is kept operation by operation, since a step works on one and leaves the others `Aside`.

Its last section is about AuthorityModes, which it extends as well (so that module calls its
specification `ModesSpec`), for every set of callers and operations: `ModesTyping` (`ModesTypeOK`) and `OneUse`
(`SingleUse`). Their invariant says without counting that two operations with a use are one; the
cardinality follows.

**GraphRunsProofs**, for every graph, budget and set of executors: `Typing`, `Sequences`
(`OnlyResumesRepeat`) and `StepsOnce` (`StepsRunOnce`). Both safety properties are about
runs that one execution at a time works on, and neither is inductive, since an execution
works on a snapshot it took at the start. `IInv` adds that a checkpoint at which the run is paused and
the snapshot of the execution under way count every call of a node made so far and know every
event but failed resumptions (`PausedOK`, `RunningOK`), that a resumption which is not saved yet is
where the checkpoint is (`ResumedOK`), and which shapes what an execution has left to do
can take (`ControlOK`): it is why no call is made before the write that counts it.

**CancellationTokensProofs**, for every set of threads, clients, tokens and tasks: `Typing`,
`Registered` (`RegistrationsEnd`) and `CancelsReach` (`CancelFindsItsRuns`). The last assumes that
completions with one token do not nest on a thread and that plan graphs do not share one; the run
`cancel_completion` shows what happens when completions nest. `IInv` adds that a task is at one worker at a time
(`JobsOK`), that only shared tokens have two tasks (`TokensOK`), that a stack has one token (`FramesOK`), and
what each way of keeping registrations keeps: a count is the depth of the stack,
the one thread of a plan graph executes it (`CountsOK`), and an execution whose registration nobody else can
take away is registered (`FoundOK`).

**TreeSitterLifetimeProofs**, for every set of threads and handles: `Typing` (`TypeOK`),
`CountersAreExact` (`CountsAreExact`), `LibrariesOutliveTheirUsers` (`OutlivesItsUsers`) and
`NothingIsFreedInUse` (`NothingDangles`). `Inv` adds that pointers belong to their kinds of handle and are
cleared with the resource (`PointersOK`), what a thread in a call may rely on, having no release to make (`CallsOK`),
what a counter of zero permits (`LivesOK`), and that the users counted are finitely many, although the
sets of handles and threads need not be (`UsersOK`). Counting goes by `Balance`: a step changes the
pointers of one handle, the call of one thread and what this thread owes (`OnlyBy`), so a counter has to
change by these three differences only; an owed release takes over from the pointer or call that is
cleared.

**AgentRuntimeProofs**, for every set of drivers, number of agents and calls, mailbox size and forest of
supervisors: `Typing` (`TypeOK`), `WorkersAreRecorded` (`WorkerFactsAreLive`), `CallsAreAccounted`
(`PendingIsAccounted`) and `CancellationsReachTrees` (`CancelReachesTree`). None is inductive alone, and TLC
checked their invariant `Inv` on an instance before it was proved. A call goes from hand to hand: a request in a mailbox, the
driver that delivers it, its worker, the result in a mailbox, a driver again. `HandsOK` and `MailOK` say that
at any time one driver or one message has it, that a request precedes the worker and the worker its
result, and that a worker which is about to be recorded has not been started: that is why a worker fact is
never asserted after its worker has ended (`WorkersOK`). `AccountsOK` is `PendingIsAccounted` with
what makes it inductive: who has a call in flight is waited for, and who is signalled belongs to an agent that
is not active or is going to be told (`Doomed`), which the order of a visit's two steps guarantees (`PlansOK`).
It is kept call by call: most steps change nothing about a call (`Calm`), and the others move it from one
hand to the next. `ScopesOK` says that an agent of the tree a cancellation began with
is not active any more, was disturbed, or is below a visit still ahead; since the tree of an agent only
grows until the runtime is destroyed (`TreesGrow`) and a visit puts all recorded children ahead (`Trees`, `BelowIs`), no agent
slips through while others spawn. `RegistryOK` keeps recorded what calls, drivers and plans name.

The assumptions are those the modules name: workers and clients of the pool, hosts and executors,
hosts and the threads of operations are different threads, runtimes and migrations different processes, modes are retry or resample, bounds are naturals, there is a token and a task, a handle is of one kind, and the
collector is none of the program's threads, and the threads of agents that may be interrupted are drivers.

Only model-checked: all liveness properties (tlapm proves nothing under
fairness), `EverythingIsReclaimed` of Tree-sitter among them, and how signals reach executions.

## 5. Disagreements with the documentation

`cancel_completion` is a run that TLC finds violated by what the code does:

- A typed-plan model step runs on the completion's thread with its
  token, and its cleanup removes the thread's only registration; a cancellation
  in a later step marks the token but interrupts nothing. Graphs count
  registrations for this reason.

The modules state some further properties of the documentation that the code
does not have either. No run lists them; each is refuted by adding the property
to the configuration named.

- `CancellationIsRethrown` (`EffectRaces.cfg`): a cancellation raised inside a ledger
  call is turned into `internal_error` by the ledger's catch-all (rlm_effect.pl:1040)
  and returned as an outcome; rlm_effect_executor.pl:33 says it is re-thrown.
- `OwnerCancellationIsComplete` (`ApprovalSafety.cfg`): an owner cancellation decides by
  its snapshot; an operation found pending and approved meanwhile is only denied,
  which no longer applies, and is carried out after the cancellation has returned
  (docs/authority-runtime.md:204).
- `PrunedIsAnswered` (`ApprovalSafety.cfg`): pruning may destroy the Future of a terminal
  operation between its transition and its resolution, and its waiter is told it was
  destroyed (docs/authority-runtime.md:138).
- `PrunedIsDestroyed` (`ApprovalSafety.cfg`): an approved operation for which the pool has no room
  loses its gate to the callback of the rejected Future (rlm_authority.pl:629). The start signal
  fails, and so does the cancel signal of `approval_schedule_failed/7` (line 700), a goal of its own:
  `rlm_approve/2` fails instead of reporting `resume_schedule_failed`, and the Futures pruned
  with that failure are never destroyed (docs/authority-runtime.md:142). The operation itself is
  resolved and its waiters are told. `Abandon` (lines 565 and 575) fails alike on a gate that a
  cancellation or a teardown destroyed; the execution then ends by itself.
- `OutcomeIsTheOwners` (`AuthorityOnce.cfg`): when the host grants allow_once again while
  the first use is under way, the end of the first completes the second, and its outcome
  is replayed for it (docs/authority-runtime.md:156).
- `CursorsReadOpenTrees` (`TreeSitterReclaim.cfg`): a cursor goes on reading a tree that
  was closed (docs/tree-sitter-ffi.md:143).
- `InterruptsItsOwnRun` (`CancelTokens.cfg`): signals go out after the lookup and are not
  checked on arrival; the one for a run that has ended interrupts the run its thread is
  at by then. `rlm_async.pl` checks `raise_cancel_if_current/1` for this reason.
- `CompletionsUnregister` (`CancelTokens.cfg`): a completion started with a cancelled token
  throws inside Setup after registering, and the registration is never removed.
- `OnlyPausedIsResumed` (`GraphRuns.cfg`): graph_resume/6 looks at the status when it
  reads the checkpoint; a second one that read it too resumes a run that is running
  or completed by then, and carries out the same steps (docs/graph-runtime.md:268).
- `TasksSettle` (`CancelTokens.cfg` with `WorkingSpec`): a token's signal outside the
  task's catch makes the worker forget its task; the Future stays running and its awaiter
  waits for ever.

- `CancelledIsFinal` (`AgentRuntime.cfg`): a request that was sent or admitted before the
  cancellation and is delivered after it makes the cancelled agent `failed` (rlm_agent.pl:1028,
  docs/agent-runtime.md:50).
- `CancelReachesWorkers` (`AgentRuntime.cfg`): a worker that was created and is not recorded yet is not
  signalled, and works on (docs/agent-runtime.md:49).
- `DestroyedIsEmpty` (`AgentRuntime.cfg`): a spawn that read the runtime's record before its
  destruction records its agent after it, and nobody destroys that one (docs/agent-runtime.md:54).

## 6. What is not modelled, and the plan

Within the modelled components: fingerprints and sanitizing, event logs except for the
recoverability of an attempt's lifecycle, attempts migrated from old journals, an approver
that is itself interrupted, a host that resolves the Future of a task (`Resolve` is taken on deferred
Futures that are still unsettled; on a settled one the code ignores it), contents of syntax trees and matches, counters
at UINT_MAX, the `$aborted` signal, compilation and reducers of graphs. Of agents: capabilities
and authority contexts (AuthorityModes has the modes of parent and child), checkpoints and the
trace, call ids that are used again, and result messages that hosts make up. Of stores: a migration called from
a thread of a runtime, and the checks of a snapshot's contents. `with_mutex/2` sections are taken as uninterrupted
except in the effect journal. Two plan graphs that share one token are excluded from
`cancel_tokens`: the second's registration drops the first's, as the hazard
list says.

Not at all, by reason: sequential transformation of data (typed plans, prompts, skills,
specifications, verification, evolution), formats of providers and of MCP, front ends.

Next, in this order, since each rests on the ones before:

1. `GraphRuns`, continued: a refinement of "a run's history is one growing sequence", and
   the closing of a backend under a run.
2. `ProjectGenerations`: admissions and currentness along source, syntax, query and
   semantic registries; abstract specification: what is current was derived from
   the latest admitted content.
3. `PlanGraph`: the ready-set scheduler with retries and budgets; completion budgets
   and recursion fingerprints as operators.
4. Context mounts, conversations with automatic warm summaries, artifact versions.
