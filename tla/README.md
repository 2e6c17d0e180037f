# A TLA+ model of Waywarden

Waywarden is an asyncio harness (FastAPI, SQLAlchemy on PostgreSQL) that drives
*runs* of agent work. The durable truth about a run is its RT-002 event log
(`docs/specs/runtime/run-event-protocol.md`); every service appends to it and
clients follow it. These modules model the code that writes and reads the log
and the state that must agree with it. Paths below are relative to
`src/src/waywarden/` unless they begin with `docs/` or `tests/`.

## 1. Inventory

| Component | State it keeps | Operations | Talks to | What makes it correct |
| --- | --- | --- | --- | --- |
| run event log (`infra/db/repositories/run_event_repo.py`) | rows of `run_events` | `append`, `list`, `latest_seq` | PostgreSQL | seq is 1, 2, ... per run whatever interleaves; append-only; a polling reader misses nothing |
| run rows (`run_repo.py`) | `runs.state` | `create`, `get`, `update_state` | PostgreSQL | terminal states stay; the state agrees with the log |
| run lifecycle (`services/run_lifecycle.py`) | none | `start`, `resume`, `cancel` | run rows, log | one creation per run; nothing after the end |
| orchestration (`services/orchestration/service.py`) | the `Run` it was handed | `run`: intake, plan, execute, review, handoff | run rows, log, approvals | phases in order; one orchestrator per run; completed is recorded before it is a state |
| recovery (`services/resume.py`) | `pending-runs.yaml` | `rehydrate_all` | lifecycle, manifests, log | unfinished runs are resumed once; blocked only for a reason |
| operator views (`services/visibility.py`, `api/routes/run_view.py`) | the request in hand | `snapshot` | run rows, log | the state shown is explained by the events shown |
| approval engine (`services/approval_engine.py`) | rows of `approvals` | `request`, `resolve` | log | record and events agree; a decision is final |
| EA tasks (`services/ea_task_service.py`) | rows of `tasks` | `create_task`, `transition_task`, `request_approval`, `resolve_approval` | approval engine, log | the task agrees with the log and with its approval |
| EA routines (`scheduler.py`, `triage.py`, `briefing.py`, `routine.py`) | counters of a pass | schedule, triage, brief | EA tasks, log | what is reported happened; nothing is granted unasked; a pass ends |
| SSE stream (`api/routers/run_events.py`, `api/streaming/sse.py`) | one generator per connection, the subscriber lists | replay, tail, reconnect | log | no hole, no lost wake-up, an end |
| approval hooks (`services/approval_hooks.py`, `policy/`, `tools/`) | a merged policy | load and merge a preset, decide on a tool call, ask for an approval | approval engine | an override touches its own tool only |
| till-done loop (`services/orchestration/tilldone.py`, `plan_revision.py`) | loop counters, event stream | `run_till_done` | milestone catalog | ends; escalates at its limits; events in catalog |
| pipeline (`services/orchestration/pipeline.py`, `domain/pipeline.py`) | nodes visited by one execution | `Pipeline(...)`, `execute` | its caller, who supplies the outcomes | ends within the step limit; its verdict is that of its last node |
| adversarial review (`adversarial_review.py`) | none | `review` | approval engine, log, pipeline outcomes | a blocking finding fails its checkpoint and is behind an approval request |
| teams (`domain/team.py`, `domain/subagent.py`) | the registries, a travelling work item | register, `route_handoff`, progress events | assets | an item does not go round in circles |
| delegation (`domain/delegation/`, `coding_handoff.py`, `dispatcher_workflow.py`) | manifests, envelopes, records of handbacks | delegate, narrow, package, hand back | log | a child is never granted more than the run at the top of its chain; a handback is not lost |
| token usage (`token_usage_repo.py`, `adapters/model/router.py`) | rows of `token_usage` | `complete`, `append`, `summarize` | providers, PostgreSQL | seq as in the log; what is billed is what was returned |
| profiles and assets (`assets/`, `profiles/`, `domain/profile.py`) | an asset registry | load, validate, filter, hydrate | files, extensions | a profile shows what its filters select, of sound files only |
| registries (`extensions/registry.py`, `domain/channel_binding.py`) | names in process memory | `register`, `load_declared` | | what a profile was checked against stays registered |
| configuration (`config/`) | the cached settings | `get_app_config`, `load_instances` | files, environment | layers in order; references resolve |
| other repositories, manifest, chat, provider adapters, context builder, tracing, wiring | rows or values | storage, validation, external calls | | listed in `PROJECT.json` with the reason each is left out |

The services share state only through the database: the log, `runs.state`,
`approvals`, `tasks` and `token_usage`. No service commits; the caller of a service
owns the transaction, at PostgreSQL's default level READ COMMITTED, which
`infra/db/engine.py` does not change. Everything is asynchronous, so any two
calls interleave at every `await`. The registries, the policy and the settings
live in the memory of one process and are filled at its start, in an order that
nothing fixes, from files that somebody may edit.

The behaviours that are hard, and why a test hardly reaches them:

- `append` reads a state, reads a maximum and inserts: three snapshots. The
  repository's own test of concurrent appends runs them one after another.
  `TokenUsageRepositoryImpl.append` does the same.
- The terminal guard looks at `runs.state`, events are written without it, and
  `cancel` and the approval decisions never write it.
- Event ids are fixed per run or approval, so the primary key fences off
  repetition that no guard looks for: a second orchestrator, a second resume, a
  second approval request. Whether that suffices depends on the order of writes.
  The ids of handbacks are not even fixed per run.
- Every `save` and `update_state` overwrites a row by id from a snapshot.
- The SSE generator reads, then subscribes, then replaces the event it awaits.
- A routine makes up to seven calls per item, each a transaction, while operators
  decide the same approvals; two of these calls take their locks in opposite order.
- A delegation is checked against its parent only, a team's fallback route is not
  in the graph that is checked, an extension is checked once and used later:
  each check is local, and what it is for is not.

`PROJECT.json` lists each hazard at its line with the properties that cover it.

## 2. Modules

### RunLog: what the log promises

One variable, `log[r]`, a sequence of event ids per run. The only step,
`Extend`, keeps every log as a prefix of its successor and lets no id occur
twice. It is the abstract specification of `EventLog`.

### EventLog: the repository over concurrent transactions

A session has at most one transaction. Each of the statements of `append` is an
action that sees the committed rows and its own: `GetRunState` (the guard),
`ComputeNextSeq` (the snapshot of `SELECT ... FOR UPDATE` and its maximum),
`LockRows` (the same statement when it gets the row locks; its maximum is the
one of the old snapshot, and a run without rows has nothing to lock) and
`InsertOk` or `InsertFails` (the primary key and `UNIQUE(run_id, seq)`; an
INSERT waits for the transaction that holds an uncommitted duplicate).
`CreateRun` and `UpdateState` write the row of the run, `Commit` and `Rollback`
end a transaction at any point where PostgreSQL would, and `List` is a reader
polling `list(since_seq)`. Waiting is a guard; a deadlock between transactions
is a `Rollback` of one of them.

`run_events`/`runs` are the tables, `pending`/`updates` what a session has not
committed, `req`/`base` the locals of `append`, `locks` the runs whose rows are
locked. Payload, actor, causation and timestamps are left out.

`req` and `updates` go back to None at the end of a transaction. The seq that
`append` receives is overridden, so it does not appear.

### RunControl: the verbs of a run, interleaved at their awaits

A coroutine `c` executes a verb: `call[c]` holds the verb, the run, the await it
is suspended at and its locals. `Start`, `Check` and `LatestSeq` are start, resume
and cancel up to their event; `Orchestrate` and `SetStep` walk `Script`, which is the
body of `run()` with its five phases, in order; `Rehydrate`, `RehydrateEntry` and
`RehydrateCheck` are the recovery pass, which calls resume. All of them append
through the same three actions, the statements of `append`: `Guard` (the state of the
run), `ComputeNextSeq` (the maximum of seq) and `Insert`, which succeeds if `IsFree`:
the seq is still the next one and the event id is new. Other coroutines run between
any two of them. `Refused` is what a verb does when one of them raises: start, resume,
cancel and `run()` end, the recovery pass goes on to `run.progress` of a blocked resume.
`Die` ends a coroutine at any await.

A statement takes effect at once and for all: this is a caller that commits after
every statement, as the in-memory repositories of the tests behave. Transactions that
hold their rows longer, and wait for each other, are in `EventLog`; what they add here
is that a writer may wait between its maximum and its INSERT, and it can be overtaken
there without waiting too. An event is its name, because every event of these verbs
has a fixed id per run; latest_seq only matters to the assertion in `start`. The last
progress guard of the orchestrator looks at the `Run` that its own `update_state`
returned, which is not terminal before the script ends.

### EATasks: tasks, approvals and their log, in transactions

A call of `EATaskService` is a transaction. Its first read decides the
statements that are left (`CreateSteps`, `TransitionSteps`, `RequestSteps`,
`ResolveSteps`), which the actions `SaveTask`, `SaveApproval`, `CheckPending` and
`AppendEvent` execute one at a time: a save waits for the row, an append for the
run (this is `OneWriterPerRun`, proved of `EventLog`), so that the three statements of
`append` are one step. `Commit` makes them
visible together. Everything that raises, and every race inside a save (a row
that appeared between its SELECT and its INSERT), is `Rollback`, which is always
possible. `ApprovalEngine.request` and `.resolve` appear as the part of these
calls that they are; the double read of the approval in `resolve_approval` and
`resolve` is one step, `CheckPending`, the last one. `CloseRun` stands for any
other service that ends the run.

### SseStream: connections that follow the log

`conn[c]` is the generator `_build_stream` of client `c`: `Replay`, `Send`,
`Await`, `Wake`, `Requery`. `Publish` is `_publish`, which sets the event of every
registered subscriber. `Disconnect` can happen anywhere and `Connect` comes back
with the id of the last frame. `received` and `lastId` belong to the client. The
JSON framing, and the fallback of `_latest_seq_safe` to 0, are left out.

### CodingPipeline: reviews that decide the route of a pipeline

`Construct` is `Pipeline(...)`, which refuses graphs that are not `Valid`. `Review`
is `AdversarialReviewRoutine.review` in the caller's transaction: the detectors
report a set of finding classes (`Detected` are the classes that handbacks give
cause for), policy and `Gate` turn them into continue, branch or abort, findings
ask for an approval (whose event id is the same for every review of a run, which
is `MayAppend`), every finding is an event, and the outcome goes into the mapping
that the caller hands to the engine. A review that raises is rolled back and
takes no step. `Supply` is the caller's own outcome for the other nodes.
`Execute`, `Visit`, `Miss` and `Stop` are `PipelineExecutionEngine.execute`, whose
loop has no await: no review happens while it runs. A review is one step here;
the statements of `ApprovalEngine.request` and of `append` are in `EATasks` and
`EventLog`. The engine's progress events, one for each visited node, are returned
and not appended; `engine.visited` stands for them.

### TillDone: the plan, act, check loop

`run_till_done` calls `iteration_result_fn` and then emits without an await, so an
iteration is one step: `Iterate`, or `LastIteration`, which escalates before it
looks at the result. `Exhausted` is the end of a loop that was never entered.
`stream` is `_EventStream`, `failures` the counter that nothing reads. The loop and the
pipeline share no state; `MCCodingPipeline` checks both, one at a time.

### RunViews: what an operator sees of a moving run

`RunViews` extends `RunControl` with one request for `GET /runs/{run_id}/view`. The
route looks the run up (`GetRunView`); `snapshot` reads its row and its events in
two statements (`ReadRow`, `ReadEvents`), in `ReadOrder`, while the verbs go on; the
answer is sent or the request dies (`Close`). The statements for pending approvals
and for the manifest are of the same kind and left out. The verbs are checked with
this request beside them.

### EARoutines: routines that drive tasks

`EARoutines` extends `EATasks`. One caller, `Routine`, executes a request: `Execute`
finds the asset and its handler, `Steps` is the sequence of service calls that the
scheduler or the triage makes for an item, and each is a transaction of `EATasks`:
`BeginCreate` or `BeginCall`, its statements, `CallCommits`, `CallRaises`;
`CallRefused` is a call that finds the task in a state it cannot leave that way.
`EmitBriefing` is the briefing, whose events have fresh ids. The other callers are
operators, who each make one call whenever they like. `ro` is the execution with
what it will report. `Blocked` and `MustRaise` say which statements the database
raises in the end; they appear only in the fairness.

### Delegation: manifests that get narrower, handbacks that come back

A run has a `manifest` or none yet. `MakeEnvelope` and `MakeEnvelopeManual` (the EA
helper), `CreateEnvelope` (the coding routine), `Package` (the dispatcher) and
`AcceptChild` (`validate_narrowing` of a manifest that the caller constructed) give a
run its manifest; `root[r]` remembers the run at the top of r's chain, for the
properties only. An EA helper that was not given its parent's manifest hands out a
`Placeholder`, which is a child of its parent run like any other. A handback is a call
in `calls` between its record in memory and its row in `log`: the EA helper takes the
number before the await (`RecordHandbackAsync`), the coding routine after it
(`NumberCheckpoint`); then `ComputeNextSeq` and `AppendHandback` are the statements of
`append`, which refuses an id that any run has and a seq that the parent run has.
`Restart` empties the memory of a helper and drops its calls. Rules inside a tool
policy, the fields that narrowing does not compare, the ids of envelopes, and the
correlation and artifact event of a package, which the packager hands back to its
caller and stores nowhere, are left out. `AppendRaises` is any other reason for which
an append fails, an event that is no handback and takes its seq included.

### Assets, Profiles, Teams, Startup: one process and its files

`Assets` has the validation of an asset file kind by kind, the registry that
`load_from_dir` fills and the filters; `Profiles` what the loaders accept of
profiles, instances, settings and policy presets; both are pure operators. A text
is its word and its spelling (plain, padded, in upper case, blank, not a string),
so that stripping, lower-casing and the duplicates they create are real. `Teams`
has its own state: the registries of agents and teams and one work item on its way
(`Accept`, `HandOff`). `Startup` composes them into a process: `CreateApp` with the
cache of `get_app_config`, `LoadInstances`, `RegisterExtension`, `LoadDeclared`,
`HydrateShared` and `HydrateOwn` (both profiles, with the registry of the caller or
with their own), `LoadPolicy`, `Invoke`, and `Edit`, somebody who changes the files.
A call that raises changes nothing, except where an action says so: errors stay in
an asset registry, and a file that does not decode ends the load by an exception and
leaves the assets before it (`LoadNext`, `LoadRaises`).
Because these parts do not touch each other except through
extensions and channels, a behaviour makes the calls of one kind of session
(`session`); TLC would otherwise multiply what is independent.

### TokenUsage: completions and their rows

`Complete`, `Answer` and `ProviderRaises` are `ModelRouter.complete`; `ComputeNextSeq`,
`LockRows`, `Insert` and `InsertRefused` the statements of `append`, under the same
model of READ COMMITTED as `EventLog`; `Commit` and `Rollback` are the owner of the
session. `replied` collects the completions that callers got in transactions that
were committed, and `Summarize` is what they are billed. A sum of tokens is the number
of its units (`Total`), which is what the loop of `summarize` adds up and can be
reasoned about without an induction.

### The rest

The `MC` modules add the values and the symmetry for TLC. `EventLogProofs`,
`RunControlProofs` (with `RunViews`), `EATasksProofs` (with `EARoutines`),
`SseStreamProofs`, `CodingPipelineProofs` (with `TillDone`), `DelegationProofs`,
`TokenUsageProofs` and `StartupProofs` (with `Profiles`, `Assets` and `Teams`) hold the
proofs.
Because one module proves about both, the definitions of `TillDone` that every
specification has are named for it: `LoopInit`, `LoopNext`, `LoopSpec`.
Operators under a comment that begins with *Mutant* are plausible bugs: put in the
place of the definition they stand before, each makes a property fail, which shows
what the property is about. Where a module states a `TypeOK`, it is a theorem and in
no run.

## 3. Runs

| Run | What it shows | Bounds, and why they are enough |
| --- | --- | --- |
| `MCEventLog_appends` | `SeqContiguous`, `OneWriterPerRun`, `ReaderMissesNothing`, `ImplementsRunLog` | one run, three sessions, three ids: the first row (no locks), a second in the same transaction, and two waiters behind a third; a state that becomes terminal; one reader. Runs do not share seqs or locks, only ids, and ids collide within one run too |
| `MCRunControl_verbs` | `ScriptInOrder`, `SoleOrchestrator`, `RefusedOnlyByVerbs`, `CompletedIsRecorded`, `StateIsExplained`, `CompletedIsFinal` | one run, two coroutines that die and are followed by others without bound, every verb, a file with and without an entry that aborts the pass; one request of an operator at a time: a snapshot has two statements, so every state that can pass between them does. Two bounds of the instance: a recovery that is under way or was blocked does not meet a cancel or another resume (`RecoveryApart`; two resumes, and a resume and a cancel, do meet), and an operator views a run that is only started and orchestrated (`ViewsApart`): the events of the other verbs change no state, and what a snapshot shows rests on those of the script |
| `MCEATasks_race` | `WaitingMatchesRecord`, `LastDecisionRules`, `TaskStateIsLogged`, `DecidedStaysDecided` | one task, two transactions, `MaxEvents` = 8: enough for two contradictory decisions and for a second request after a decision |
| `MCEARoutines_operator` | `OutcomesAreLogged`, `NothingGrantedUnasked`, `RoutineEnds` | up to two items, so that a title can be the position of another; a decision by title, by position, missing, one of each kind; a blank subject; the briefing; assets that are not routines or have no handler; an operator who makes any one call at any time. `MaxEvents` = 30 is never reached |
| `MCSseStream_follow` | `FramesConsecutive`, `NoHoleAfterReconnect`, `WokenCatchesUp` | four events and any number of reconnects; connections do not affect each other |
| `MCCodingPipeline_gates` | `OutcomeMatchesLog`, `BlockedBehindApproval`, `FinishedRouteIsSimple`, `CompletedEndsInSuccess`, `EngineEnds`; `VerdictHasCause`, `RevisionsAreShown` | two checkpoints with a node between them, the successes in a chain and every set of failure routes: forward, back, to itself, to the end, none, or two for one node, which is refused; a preset's policy and one with rules; `MaxSteps` 1 or left out; `MaxEvents` = 3 is where no further review begins, so a review begins behind one with a finding, which takes two events, or behind two without. For the loop, every result of every iteration for `max_iterations` from 0 to 4; no iteration depends on more than the ones before it and the limits. The two parts share nothing, so one moves at a time (`LoopIdle`, `PipelineIdle`) |
| `MCDelegation_chain` | `GrantsBounded`, `AllowlistsKeepHosts`, `RefusalsExplained` | three runs in a chain, so that what the second drops the third may ask for; five manifests, one for each way to be wider or narrower on a field, two of them allowlists, one without hosts; one helper of each kind that makes `MaxRecords` = 2 records and is restarted once (`MaxLives` = 2), so its calls overlap, collide with the other's and with their own of an earlier life; `MaxWork` = 4 bounds runs and handbacks together |
| `MCStartup_process` | `ViewIsFiltered`, `ProvidersStay`, `OverridesAreLocal`, `RevisitOnlyThroughFallback` | five kinds of session; files that are right, or wrong in one respect each, with edits between them; one error in a registry (`MaxErrors`), two tool calls (`MaxInvokes`), one progress event (`MaxReports`); five hops (`MaxHops`) of an item in a team of three, which is once around and further |
| `MCTokenUsage_router` | `UsageDense`, `SummaryBillsReplies` | one run, two sessions that ask for two completions each (`MaxCalls`), in one transaction or in two, of three providers of two models |
| `MCStartup_hydrates_again` | the code does not keep `RefusedForCause` | two hydrations of the EA profile in one process |
| `MCSseStream_missed` | the code does not keep `EveryEventArrives` | the client of `MCSseStream_follow` and two events |
| `MCEATasks_abandoned` | the code does not keep `AbandonedTasksEnd` | one task, one caller, one decision |

Deadlock is checked in `MCEventLog_appends`, `MCSseStream_follow` and
`MCCodingPipeline_gates`. Elsewhere the
model stops where the system has nothing left to do or a bound is reached: every
fixed id of the run is used, the log has reached `MaxEvents`, the loop, the pipeline
or the routine has returned, `MaxWork` or `MaxCalls` is spent.

What the passing properties say:

- `SeqContiguous`: neither rollbacks nor the stale maximum of a waiter leave a
  gap or a duplicate. The row locks alone would not achieve it (the first append
  has nothing to lock); the unique constraint does the rest. `UsageDense` says the
  same of `token_usage`.
- `OneWriterPerRun` is why `ReaderMissesNothing` holds: seq is assigned before it
  is visible, and still nothing becomes visible behind a reader's cursor.
- `ScriptInOrder`, `SoleOrchestrator`: `run()` checks only the object it is given,
  and the fixed id of its first event is what keeps a second caller out. A run
  whose orchestrator died cannot be orchestrated to the end by another one.
- `RefusedOnlyByVerbs`: an orchestration that got past its first event, of a run that
  nobody cancelled, ends early for one reason besides being killed: a start, a resume
  or a recovery put its event between the maximum and the INSERT of one of its own
  and took the seq. It is never refused for the state, which it writes itself, nor for
  an id, nor because of another orchestration. What cancel may do to an orchestration
  is left open: RT-002 wants no progress after it, and the code goes on.
- `CompletedIsRecorded`, `CompletedIsFinal`: event before state, and nobody is
  left who could overwrite the state.
- `StateIsExplained`: because the row is read before the events, and events are
  written before the states that they lead to, a snapshot is never ahead of its
  own evidence. With the statements in the other order it would be.
- `LastDecisionRules`, `DecidedStaysDecided`: two resolvers may both decide, and
  even then the record is the ruling of the last decision in the log and a
  decided approval never becomes pending again.
- `TaskStateIsLogged`: overwriting saves never make the task disagree with the
  last word of the log, where that is a transition or an approval request. Of a task
  whose last word is a timeout it says nothing, and of an abandoned one
  `AbandonedTasksEnd` says what should be and is not.
- `WokenCatchesUp`: an event that sets nothing the stream awaits is not lost for good:
  the next time the stream is woken it sends all that had been published, whatever
  the log does meanwhile. That every event arrives, `EveryEventArrives`, is false.
- `OutcomesAreLogged`: the counters of a
  pass are backed by the log even if an operator interferes, because a call that
  fails ends the pass. `NothingGrantedUnasked` is the no-auto-grant guard of the
  scheduler's docstring, with what its lookup really accepts as a decision: the
  title or the position. `RoutineEnds`: two calls do lock a task and a run in
  opposite order, and the routine ends only because the database kills one.
- `OutcomeMatchesLog`, `BlockedBehindApproval`: repeated reviews and reviews that
  raise leave the pipeline with the verdict of the last review recorded. The
  second property also says what the fixed approval id costs: a run has at most
  one review with findings, and the next one raises.
- `FinishedRouteIsSimple`: because outcomes are fixed for an execution, a loop
  edge once taken is taken until the step limit, so the twofold default limit
  never lets a pipeline with a loop finish that would not finish without it.
- `CompletedEndsInSuccess`: the verdict on the whole pipeline is that of its last
  node and of no node before it.
- `VerdictHasCause`: the loop completes on an iteration that was done and on no other,
  goes round only behind ones that were not, escalates only at a limit that it has
  reached, and says so once, at the end of its stream. `RevisionsAreShown`: a revision
  that another iteration follows has its events, once and in order. Both are silent
  on the last iteration allowed, where the code departs from its documents (section 5).
- `GrantsBounded`: no chain of delegations, by whatever route and however often
  something is dropped and asked for again, ends with a path, a secret or a tool
  preset that neither its top nor a placeholder on the way has. A placeholder has the
  temporary path, no secret and preset yolo, which may be wider than the top: that is
  `GrantsNeverGrow` of section 5, and nothing else is.
- `AllowlistsKeepHosts`: hosts are compared only when the parent's mode is allowlist;
  where every run of a chain is in that mode, nobody in it has a host that its top
  lacks. What `HostsNeverGrow` of section 5 loses, it loses through another mode.
- `RefusalsExplained` bounds the damage of ids that do not name the run, and of a seq
  that is computed before it is inserted: a handback is refused because an
  overlapping append of its run took the seq, or because another helper or an earlier
  life used the id. The handbacks of one EA helper object never share an id, however
  many are in flight; those of a coding routine, numbered after an await, may.
- `ViewIsFiltered`: a hydrated profile shows exactly what all its filters select,
  of a registry that recorded no error. `ProvidersStay`: what it was checked
  against is not replaced under it. `OverridesAreLocal`: merging does not touch
  the rules of another tool. `RevisitOnlyThroughFallback`: a work item comes back
  to a member only by way of the dispatcher's fallback.
- `SummaryBillsReplies`: a completion whose row is refused or rolled back is not
  billed, and one that its caller got is billed once.

Fairness. `RoutineSpec` assumes that coroutines are scheduled and that the database raises
what cannot succeed: a taken id, a terminal run, an approval already decided and,
between two transactions that wait for each other, a deadlock, which PostgreSQL
detects. `FairSpec` of `SseStream` assumes only that the generators run. Of `_publish`,
which no code of the repository calls, nothing is assumed: both liveness properties are
about events that were published. `CodingSpec` assumes only that the engine, which
waits for nothing, runs. Of `RunControl` and `TillDone` no liveness is checked: a verb
may die at any await, and `run_till_done` counts to its limit and waits for nothing.

## 4. Proofs

Each theorem holds for every value of the constants that satisfies the
assumptions named here: any number of runs, sessions, coroutines, clients, tasks.
Each rests on an inductive invariant that the next-state relation keeps, with a
lemma per action.

| Theorem | States | Module it is about |
| --- | --- | --- |
| `SeqIsContiguous`, `AppendsAreSerialised`, `ReadersMissNothing` | `SeqContiguous`, `OneWriterPerRun`, `ReaderMissesNothing` | `EventLog` |
| `EventLogImplementsRunLog` | `ImplementsRunLog` | `EventLog` |
| `SoleOrchestratorHolds`, `CompletedIsRecordedHolds`, `CompletedIsFinalHolds` | `SoleOrchestrator`, `CompletedIsRecorded`, `CompletedIsFinal` | `RunControl` |
| `ScriptInOrderHolds`, `RefusedOnlyByVerbsHolds` | `ScriptInOrder`, `RefusedOnlyByVerbs` | `RunControl` |
| `WaitingMatchesRecordHolds`, `LastDecisionRulesHolds`, `TaskStateIsLoggedHolds`, `DecidedStaysDecidedHolds` | the four properties of the same names | `EATasks` |
| `FramesAreConsecutive`, `ReconnectLeavesNoHole` | `FramesConsecutive`, `NoHoleAfterReconnect` | `SseStream` |
| `GrantsBoundedHolds`, `AllowlistsKeepHostsHolds`, `RefusalsExplainedHolds` | the three properties of the same names | `Delegation` |
| `UsageIsDense`, `SummaryBillsRepliesHolds` | `UsageDense`, `SummaryBillsReplies` | `TokenUsage` |
| `StateIsExplainedHolds` | `StateIsExplained` | `RunViews` |
| `OutcomesAreLoggedHolds`, `NothingGrantedUnaskedHolds` | `OutcomesAreLogged`, `NothingGrantedUnasked` | `EARoutines` |
| `OutcomeMatchesLogHolds`, `BlockedBehindApprovalHolds`, `CompletedEndsInSuccessHolds`, `FinishedRouteIsSimpleHolds` | the four properties of the same names | `CodingPipeline` |
| `VerdictHasCauseHolds`, `RevisionsAreShownHolds` | `VerdictHasCause`, `RevisionsAreShown` | `TillDone` |
| `ProvidersStayHolds`, `OverridesAreLocalHolds`, `RevisitOnlyThroughFallbackHolds` | `ProvidersStay`, `OverridesAreLocal`, `RevisitOnlyThroughFallback` | `Startup`, with `Profiles` and `Teams` |
| `ViewIsFilteredHolds` | `ViewIsFiltered` | `Startup`, with `Assets` |
| `TypeCorrect`; `TypeOKHolds`; `LoopTypeOKHolds` | `TypeOK`; `TypeOK`; `LoopTypeOK` | `EventLog`; `RunControl`, `EATasks`, `SseStream`, `Delegation`, `CodingPipeline`; `TillDone` |

*EventLog* (`StatesAssumption`: None is not a state). `SeqContiguous` is not
inductive: a session about to insert `base + 1` must be known to sit at the end of
a contiguous log. `IInv` says, next to `TypeOK`: committed rows together with those
of any one session are contiguous and free of duplicates (`VisibleContiguous`,
`PendingIsNew`); a session whose append is under way has a `base` that is 0 or the
seq of a row it sees (`BaseIsVisible`); two sessions hold no uncommitted rows of one
run (`OneWriterPerRun`); readers have everything up to their cursors
(`ReaderMissesNothing`), and no cursor is beyond the committed rows
(`CursorIsCommitted`). `InsertOkKeepsIInv` is the heart: the row inserted collides
with no row the session sees and with none another session holds, and contiguity
of what the session sees then forces it to be the next one. `CommitKeepsIInv` uses
that the rows added lie above everything a reader was given.

*EventLog implements RunLog.* `LInv` adds that the rows of a run, as any session
sees them, are numbered 1 to some n (`Counted`), that ids are unique there
(`Keyed`) and that uncommitted rows of two sessions share no id (`KeysApart`). The
rows of a run then are a sequence (`Places`), more rows a longer one with the old
as its prefix (`MoreRows`), so `Commit` is `Extend` and every other action a stutter.

*RunControl* (`NoneAssumption`, `VerbsAssumption`, `PendingFilesAssumption`). The
fixed id of the first event is the fence: `Marked` says that an orchestrator past
its first step has `intake.received` in the log, and one before its last write has
`run.completed` there, so a second one can never append its first. `NobodyLeft`,
that no orchestrator is in the middle of a completed run, is needed because
`update_state` overwrites whatever it finds. For `ScriptInOrder`, `LogInv` says that
an orchestrator at a step has all earlier events of the script behind it in the
log (`Passed`), that no run has an event twice (`Distinct`) and that the logs hold
known events (`Named`). `RefusedOnlyByVerbs` takes three more: `Ahead`, that what an
orchestrator has still to emit is not in the log (its later events are nobody else's to
emit, and as long as the first is missing so are all of them); `NotEnded`, that no verb
writes failed or cancelled, so nothing but the orchestrator's own last write closes the
run; and `Overtaken`, that behind the maximum which an orchestrator past its first event
has read there are only events of other verbs. The proof does not use the exception
for a cancelled run: what the property leaves open there, the code does anyway.

*RunViews* (nothing more). `WrittenBehind`: a run is in a state of the script only
with everything in its log that the script emits before that state, which is the
order of the writes in `run()`; no verb other than `run()` writes one of these states.
Logs only grow, so what explained a state when the row was read explains it when the
events are read, and `ViewPlaced` follows that through the two statements. The
theorem is about `ViewSpec`, whose next step is a verb or a step of the request; since
every step of the request leaves rows and logs alone, the invariants of `RunControl`
hold under `ViewSpec` too.

*EATasks* (`DecisionsAssumption`, `EATasksVerbsAssumption`, `EATasksNoneAssumption`).
`Placed` lists the places a transaction can be at: what it still has to do, together
with what it has written. `RecordExists`: past its check of the record, a call decides an
approval that exists. `EventsAreNew`: one transaction at a time holds events of the
run, and those with a fixed id are not in the log; that is what makes a second request fail
although its save would have put the record back to pending. The three invariants are the rest
of `IInv`; `DecidedStaysDecided` follows from it step by step.

*EARoutines* (`EARoutinesAssumption`). Each step of a routine, of an operator and of
the database is by its definition a step of `EATasks` or leaves its variables alone,
and so keeps `IInv`. `RoutineInv` says where the routine is: its
transaction, if it has one, is in the call that the script has next (`Calling`); past
its decision the decision is in the log, and as long as no operator has called, its
task waits for it (`OnCourse`); what is reported of an item was the decision looked up
for it, is in the log, and is completed there where the scheduler granted it
(`Reported`); the briefing has the events before its next one (`Briefed`). An operator
can only add to the log, and the invariant says nothing of task rows that an
operator may have changed: `NothingGrantedUnasked` is about the tasks no operator
called on.

*SseStream* (`MaxSeqAssumption`). `Follows` says of each connection that the client
has 1..m, that its frames end at the last id the client noted, and (`Sending`) that
what is being sent is p+1..k, right behind the last frame, never beyond what the
client has next and up to where it was when it connected. The last clause is what
survives a connection that starts over at 1.

*CodingPipeline* (`PipelineAssumption`). A review adds to the log an approval request,
if it has findings, and at least one finding event, in this order and all of its own
node (`ReviewedLog`); with that `OutcomeMatchesLog` and `BlockedBehindApproval` are
inductive. The engine keeps a chain: while it runs outcomes do not change, so a node
has had one outcome (`OneOutcome`), and each visit leads to the next and the last one
to where the engine is (`Linked`). `FinishedRouteIsSimple` is the argument that needs
an induction. Suppose a node comes twice in a finished execution. A node has one route
per outcome, so what follows its first visit follows its second too, and the pair
can be shifted towards the end, until the last visit, which leads nowhere, is
also one that was left. Take the pair nearest to the end (`LeastNumber`): its shift is
nearer. Induction over the naturals is had from the library's theorem that a
well-founded set has minimal elements, which takes no operator as a parameter.

*TillDone* (`ConfigsAssumption`, `NoOutcomeAssumption`). `WorkTells` says of the
milestones of an iteration, at whatever places, that those of a revision are there,
once and in order, just if the plan was revised, and a final one just if it was
done. `LoopInv` and `Limited`: a loop that goes on has said nothing final, has had no iteration
that was done and none beyond the limit (`Going`); the revision events stand in the
stream for the iterations that revised the plan, in their order (`Shown`), after the
event that catalogs them (`Catalogued`).

*Delegation* (`DelegationAssumption`). `Within`, the order on paths, secrets and tool
presets, is transitive, so that comparing a child with its parent alone suffices
for a whole chain; the comparison of hosts is not, and `HostsNeverGrow` fails.
`Rooted` says that each run with a manifest is within the grants of its top or of a
run of the same top whose manifest is a placeholder (`BoundedBy`): a child is within
what bounds its parent, and a new placeholder bounds itself. With it
`AllowlistsKeepHosts` is inductive: a new child is compared with a parent of the same
top, which is one of the runs that the property speaks of, or is a placeholder, which
has no hosts. For handbacks, `HandbackInv`: those of one life of a helper come from
different records (`Place`), stored or in flight, and the EA helper, unlike the coding
routine, takes the position of the record as its number; so an id it uses was used by
another object or by an earlier life.

*TokenUsage* (`TokenUsageAssumption`). As in `EventLog`, with the sets of sequence
numbers in the place of the rows: what is committed and what each session sees is
1..n (`CommittedDense`, `VisibleDense`), one session at a time holds rows of a run
(`OneWriter`), a maximum read is still the seq of a visible row (`BaseIsVisible`), and
no row is both committed and not (`PendingIsNew`). No lock is needed for it: a session that
sees only committed rows asks for the very seq that another holds uncommitted, and
has to wait.

`SummaryBillsReplies` needs, beside this, that the completion in hand answers the call
that is under way (`InHand`), that the calls of a session are counted and no row is of
a call to come (`CallsNumbered`), so that a call has at most one row (`OneRowPerCall`)
and the rows of a transaction are, one for one, its replies (`RowsAreReplies`). That
sums over rows and over replies agree, and that sums per model add up to the total,
is shown by counting their units: a bijection between the units of both sides
(`TotalsEqual`, `TotalByClass`).

*Startup* (`PoliciesAssumption`, `OverridesAssumption`: rules are lists;
`FilesAssumption`: so are the files of a directory and the filters of a profile). The
extension registry only grows and never replaces (`ExtensionsKept`), and a profile
that came out of hydration had its providers at that moment (`OutcomeNeeds`).
`MergedRules` describes the merge by what it does to a tool: its last override
if there is one, the rules of the preset otherwise; the first rule of a tool that fits
an action is then the same in the merged list and in the preset. A work item has
walked along the routes of its team, except where the fallback made the hop
(`TravelInv`); in a path that comes back to a member the routes alone would close a
circle, and a team with one is not accepted.

For `ViewIsFiltered` the loops of `Assets` are recursive functions, because the
provers expand no fold and no `SelectSeq`. That such a function satisfies its own
equation at every index has to be shown first: there is a function that does up to
n, by the least n for which there is none (`LoadingRuns`, `EvaluatingRuns`,
`FilteringRuns`). Then, whatever the files are and wherever a load stopped, a registry
holds well-formed assets under distinct keys (`LoadFromDirKeeps`), a load that an
undecodable file ended included. What a filter
leaves are assets it got, in the order it got them (`LeftOf`), which is transitive, so it holds of
all filters in a row; and it leaves just those that satisfy it, as long as none
raises (`KeptSoFar`, `FiltersLeave`). The registry that a hydration is
given is such a one (`AssetsInv`), so what it shows is what qualifies.

Only model-checked is liveness, which is out of the prover's reach: `EngineEnds`,
`RoutineEnds` and `WokenCatchesUp`. Every invariant and every action property that a
passing run checks is a theorem.

## 5. Where the code departs from the documents

Shown by a run each:

- `RefusedForCause`: `asyncio_run_once` keys its cache by `id(coro)`, an address that a
  later coroutine may get, and then does not run it, so that a second hydration of
  the EA profile is refused although the files resolve (`profiles/ea/hydrate.py:176`
  against 107-108).
- `EveryEventArrives`: the stream subscribes behind its replay, and awaits a new event
  behind each batch; what is published in between wakes nobody
  (`api/routers/run_events.py:109`, 124, against 52, "tail new events until terminal").
- `AbandonedTasksEnd`: a denied (abandon) approval leaves its task in waiting_approval,
  because `terminal_transitions` has the key `denied` (`services/ea_task_service.py:319`
  against `docs/usage/ea-operator-guide.md:35`, "task transitions to cancelled").

Stated in a module, as what a document or a test says, and false there: TLC refutes
each with the constants of the module's configuration in a fraction of a second.

| Statement | Module | The code, and what it contradicts |
| --- | --- | --- |
| `TerminalRunsFrozen` | `EventLog` | a session that read executing inserts after another committed completed (`run_event_repo.py:107` against 9-10) |
| `NothingAfterTerminalEvent` | `RunControl` | `cancel` leaves `runs.state`, so `run.resumed` follows `run.cancelled` (`run_lifecycle.py:264` against RT-002 line 490) |
| `DecidedOnce` | `EATasks` | two resolvers that both read pending both decide (`approval_engine.py:209` against `tests/services/test_approval_engine.py:303`) |
| `FailuresEscalate` | `TillDone` | consecutive failures are counted and never compared with their limit (`tilldone.py:291` against 78, 211-212 and `tests/services/orchestration/test_tilldone.py:133`) |
| `EveryRevisionShown` | `TillDone` | the last iteration allowed escalates before it looks at its result (`tilldone.py:248` against 206-208 and `tests/services/orchestration/test_plan_revision.py:6`) |
| `PassCompletes` | `TillDone` | so a pass in it, or in the only one, is lost (`tilldone.py:248` against 63-66) |
| `GrantsNeverGrow` | `Delegation` | an EA helper without the parent's manifest delegates a placeholder with preset yolo and the temporary path, compared with nothing (`handoff.py:275` against `docs/specs/runtime/workspace-manifest.md:303-310`) |
| `HostsNeverGrow` | `Delegation` | hosts are compared only under an allowlist, so a child of a parent in mode deny may have any (`narrowing.py:87` against `docs/specs/runtime/workspace-manifest.md:303-304`) |

Seen while modelling, and built into the models as the code has it:

- *Runs.* A second recovery emits the milestone `execute.resume_blocked`, which the
  catalog does not have (`resume.py:207`); `resume` and `cancel` return an event
  with a seq that another append may have taken (`run_lifecycle.py:206`, `265`); a
  recovered run is never executed (`resume.py:132`). A snapshot never has a
  `latest_checkpoint_ref` (`visibility.py:250`).
- *Tasks.* The timeout of an approval fails its task whatever state it has reached
  (`ea_task_service.py:323`).
- *Routines.* A title that reads like a position takes the decision meant for
  another task (`scheduler.py:146-148`). A task without a decision is not counted as
  denied, as the docstrings say it is (`scheduler.py:78-82`, 99-104); a timeout is
  counted nowhere. A task that the triage was told to grant stays where the grant
  put it, and the scheduler's goes on. The briefing skips its plan review milestone,
  which is not in the catalog. Running a routine again creates new tasks.
- *Stream.* It never closes, because types are compared with names of states
  (`run_events.py:105`); a reconnect that finds nothing new resends the whole log on
  the next event (`run_events.py:114`).
- *Till-done loop.* It discards the result of its last iteration
  (`tilldone.py:248`), never emits `check_failed` and ends a revised iteration
  without `iteration_complete` (`tilldone.py:207-209` against 267-288).
- *Delegation.* The id of an envelope names the parent and not the child, so every
  delegation of a run has the same one (`envelope.py:59` against 33, "Unique delegation
  identifier"; left out of the model). The ids of handback
  events name no run, so handbacks of different runs refuse each other
  (`coding_handoff.py:128`, `handoff.py:371`).
- *Teams and assets.* An `asset.yaml` that is not UTF-8 raises `UnicodeDecodeError` out
  of `load_from_dir` (`assets/loader.py:242`), which catches only `OSError` and
  `YAMLError`: the assets before it stay, and no error says that the rest is missing.
  `TeamMetadata` accepts routes in a circle that `Team` refuses;
  the fallback is outside the cycle check (`team.py:165`). The `team_ref` and
  `pipeline_ref` of a workflow are looked up nowhere, and `validate_cross_asset`
  (`assets/loader.py:272`) is called nowhere. A bare `exclude`, or one with an unknown
  key, removes every asset.
- *Hydration.* A malformed filter escapes as `FilterError`, and providers that are
  not there as a bare `ValueError`; keys that a descriptor does not have pass
  hydration and fail `load_profiles`; the coding profile cannot be hydrated under a
  running event loop at all (`profiles/coding/hydrate.py:162-172`).
- *Configuration.* The active instance is looked up in
  `config/instances/instances.yaml` (`config/settings.py:57`, 167) while
  `load_instances` reads `config/instances.yaml` (`config/instances.py:41`). Settings
  that were cached stay when the files change. Any channel name is accepted until the
  first provider registers one. `load_declared` leaves what it registered before an
  error; `register` ignores other capabilities under the same version.
- *Policy.* An override replaces every rule of its tool, those for other actions
  and those that forbid included; its default decision is taken unchecked
  (`policy/loader.py:165-177`), and an unknown one asks for an approval
  (`approval_hooks.py:60-64`). A forbidden tool raises a bare `RuntimeError` where
  the docstring says `ApprovalGateError` (`approval_hooks.py:57`, 79). A second
  request for one tool in a run collides on its event id.
- *Token usage.* A missing run id raises after the provider was called and answered
  (`router.py:57`, 74), and a refused row loses the completion. The usage summary is
  emitted before `run.completed` (`docs/specs/runtime/run-event-protocol.md:356` says
  once the run is terminal).

## 6. What is left

Modelled and checked: every part of the inventory up to configuration; pending
approvals and the manifest in a snapshot, the ids of envelopes and the artifact event of
a package, and what a tool does when it is invoked, are left out of components that are
modelled. Proved: every safety
property of a passing run. What is left to prove is liveness, and that needs a prover
that knows ENABLED.

Not modelled, and why:

- the other repositories (sessions, messages, checkpoints, manifests): an insert
  and a select per table, nothing read before it is written;
- the workspace manifest: validation and hashing of a value; the fields that
  narrowing compares are in `Delegation`, the hash of recovery in `RunControl`;
- chat: request handling around the verbs of `RunControl`, without state of its own;
- `plan_revision.py`: rendering of values that the loop does not use;
- provider adapters: calls of external services; the context builder: assembly of a
  prompt; tracing and logging: nothing depends on them;
- wiring: what it decides, the isolation level and `create_app`, is in `EventLog` and
  `Startup`.
