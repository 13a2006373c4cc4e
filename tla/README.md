# SecondSight in TLA+

SecondSight watches coding agents. Hooks report an agent's events to a local server, which stores
them; when a session ends, the session is analysed by an LLM (through an agent CLI or an SDK),
behaviour flags and a report are stored, and the project's flags are aggregated into *directives*
that are injected into later sessions. This directory models the parts of it where order,
concurrency and failure matter. Paths below are relative to `src/src/secondsight/`.

## 1. Inventory

| Component | State it keeps | Operations | What is hard | What makes it correct |
|---|---|---|---|---|
| **Analysis dispatch** `sdk/trigger.py`, `analysis/runtime.py`, sweep coordinator in `api/server.py` | per process: `LockRegistry._active_sessions`, `_in_memory_dispatched`; the sweep's candidate list | `Trigger.dispatch` from the ingest callback, the sweeper and the CLI | three callers, two processes, checks against memory and database, an analysis that awaits an agent for minutes | one analysis of a session at a time in a process; an analysed session is not analysed again; every session is analysed in the end |
| **Analysis pipeline** `analysis/orchestrator.py` | `analysis_runs` row, report, JSON backup, flags, output | `analyze_session`, `aggregate_project`, the completion callback | a crash or an error between any two writes | rows are always completed; reports, outputs and backup agree with the audit table |
| **analyze command** `cli/analyze.py` | exit code | `--session`, `--force`, `--retry-failed` | races the server on the same database | the exit code tells the truth |
| **Ingestion** `scripts/hooks/` (outside the package), `api/hooks.py`, `observation/`, `storage/{raw_trace_store,events_repository,sync_log}.py` | raw trace files, `events`, `sync.log`, per-session segment index and sub-agent stack, the fallback file and the scripts' sequence counters | hook script, hook handler, `SessionTracker.bind`, `ObservationPipeline.ingest` | answer before durability, out-of-order tasks, replays, restarts | an event with a raw trace reaches the database; segment indices never collide or go back |
| **Backfill and sync** `storage/filesystem_backfill.py`, `cli/sync.py` | rewrites `sync.log`, replaces the database with `--rebuild` | replay, walk, archive | runs beside a live server | nothing that was recorded is lost |
| **Lazy cache, registry** `_common/lazy_cache.py`, `api/registry.py` | values, per-key locks, closed flag; a database engine per value | `get`, `invalidate`, `aclose` | close and invalidate racing a construction in a thread | callers share one value per key; every engine is disposed of |
| **Directive lifecycle** `analysis/aggregator.py`, `feedback/`, `storage/directives_repository.py`, `api/directives.py`, `cli/directive.py` | directives: status, text, weight, miss streak, revision count; the revision ledger; the ETag a client keeps | aggregation (merge, policy, revision, ceiling), the user's PATCH, the polled listing, `directive --disable/--enable` | reads and writes in separate transactions, two aggregations, a user in between, late answers | only legal transitions; the ledger tells every revision; the ceiling and the cap hold; a command is carried out once |
| **Retention** `storage/retention.py`, `storage/analysis_retention.py`, `cli/cleanup.py`, `analysis/post_analysis_cleanup.py` | deletes raw traces, events, flags, reports | enumerate, purge (two stages each), purge after an analysis | recording and analysis in between, a failure or a kill between two deletions | nothing unread is deleted, nothing is orphaned |
| **LLM router** `sdk/router.py`, `sdk/model_selection.py`, `sdk/provider_factory.py` | attempts, providers that refused a key, the chain's budget | selection, construction, a call with fallbacks | timeouts against the budget, error classes, retries around fallbacks | a chain keeps its budget; an invalid answer is not paid for twice |
| **Agent backends** `analysis/cli_dispatcher.py`, `analysis/cli_agent.py`, `analysis/sdk_dispatcher.py`, `sdk/agent.py`, `analysis/output_recovery.py` | subprocess, temporary directory, attempts | run the program, collect, classify, repair | a timeout racing an answer, processes that outlive signals, malformed output | nothing is left behind; only answers are repaired; every run ends |
| **Daemon** `daemon.py`, `cli/serve.py` | pid file | start, stop, status | pid reuse, two starts, stop racing start | stop never signals a stranger; a running daemon can be found |
| **Configuration** `config/{loader,schema,precheck}.py`, `cli/config_cmd.py`, `analysis/runtime.py` | the global and the project's file; what a running server keeps of them | load, show, validate, check before serving, build and use a project's runtime | several readers with rules of their own; edits under a running server | what is shown is what is loaded; a server that passed its check can analyse |
| Adapters, injection/observation API, installer | none that outlives a call | | | not modelled, see below |

How they meet: the hook handler asks the *registry* for the project's resources, *binds* the event
and starts an *ingest* task; ingest fires `Trigger._pipeline_callback`, which on `session_end`
calls `Trigger.dispatch`; so do the *sweep coordinator* (for sessions whose `session_end` never
came) and, from another process, `secondsight analyze`. `Trigger.dispatch` awaits
`ModeAwareDispatch.dispatch`, which runs the *orchestrator*; the orchestrator calls the *agent
backend*, writes through the repositories, calls the post-analysis *retention* hook, and
aggregates into *directives*. All processes share the project's SQLite file and directory.

## 2. Modules

| Module | What it models |
|---|---|
| `RunLedger` | what `analysis_runs` promises its readers: rows are appended `pending`, walk the stages in order and end `summary_written` or `failed`, never to be written again |
| `AnalysisDispatch` | dispatch, pipeline, sweeper, CLI, crashes and clocks; refines `RunLedger` |
| `AnalysisDispatch_proofs` | the theorems about it |
| `EventStore` | what ingestion promises of an event the server accepted: it reaches the database by way of its raw trace, and once it has a trace it is never lost |
| `Ingest` | hook script, handler, tracker, pipeline, shutdown and restart, `secondsight sync`; refines `EventStore` |
| `IngestMC` | its instances: what the hook invocations of each run are about |
| `Ingest_proofs` | its inductive invariant and the theorems |
| `DirectiveLifecycle` | the aggregations of one project, in any number of processes, and the users who edit the same rows |
| `DirectiveMC` | its instances: the patterns, their similarity, the directives stored before |
| `DirectiveRequests` | the polled listing with its ETag, and the command that changes a directive with or without a server |
| `OutputRecovery` | the taxonomy of failed answers and who may try again; `LLMRouter` and `CLIAgent` extend it |
| `LLMRouter` | selection of a model, construction of the chain, the chain, and its two users: the dispatcher of a session and the agent that asks prompt after prompt |
| `CLIAgent` | an agent's program as a subprocess: spawn, collect, timeout, signals, repairs, and the same two users |
| `Retention` | the cleanup command and the purge after an analysis, against recording and analysis |
| `LazyCache` | one key of the cache, with the engine the registry opens and disposes of |
| `Daemon` | `serve`, `serve --daemon`, `serve --stop` and the system's process ids |
| `Configuration` | one setting through both files, loader, show, label and validate; mode, agent, model and keys through the start check and the runtime, while the files are edited |
| `RouterPromises`, `AgentPromises`, `RetentionPromises`, `CachePromises`, `DaemonPromises` | what those components promise: the properties that are proved, over the variables they speak of; extended by the component and by `ComponentsMC` |
| `ComponentsMC` | the components from `DirectiveRequests` to `Configuration` that share no state, instantiated side by side |
| `DirectiveLifecycle_proofs`, `LazyCache_proofs`, `Retention_proofs`, `CLIAgent_proofs`, `LLMRouter_proofs` | inductive invariants and theorems of those components |
| `Components_proofs` | the same for `Daemon`, `Configuration` and `DirectiveRequests`, and for the composition `ComponentsMC` |

`AnalysisDispatch` and `Ingest` refine their abstract specifications independently. They meet in
one step: what `Ingest` takes apart, from the post of an event to its row, is `Observe` in
`AnalysisDispatch`, which lets rows appear at any time and so assumes nothing of their order. The
stages that `AnalysisDispatch` runs through in one step each are taken apart elsewhere: the agent's
answer (`SessionIncomplete` to the segments) in `LLMRouter` and `CLIAgent`, whose users return what
the stage succeeds or fails with; `Aggregate` in `DirectiveLifecycle`; the post-analysis cleanup in
`Retention`. Conversely these modules let an analysis, an aggregation or a recording begin at any
time, which is all `AnalysisDispatch` promises of it.

### AnalysisDispatch and the code

An *actor* is a coroutine that can be inside `Trigger.dispatch`: a post-ingest callback task
(`EventTasks`), the sweep coordinator (`Sweeper`), a CLI process (`Clis`). `pc[a]` is the place
where it last yielded to another process: every transaction on the database, and every await, is a
step of its own, so a crash or the other process can come between any two of them. Coroutines of
the server share an event loop: from an await to the next one an actor holds `loop`, and no other
coroutine of the server moves. The sweep keeps the loop from one candidate to the next unless a
dispatch suspends it.

| Variable | Code |
|---|---|
| `runs` | `analysis_runs` in `started_at` order: session, stage, and whether `updated_at` is younger than `trigger_lock_seconds` |
| `report`, `backup`, `output` | `session_reports` and `session_report.json` (the run each came from), `analysis_outputs.status` |
| `hasEvents`, `quiet` | rows in `events`; last event older than the sweeper's timeout |
| `up`, `materialised`, `scan` | the server, `ProjectRegistry.materialized_project_ids`, the candidates left in the sweep |
| `active`, `inMemory` | `LockRegistry._active_sessions`, `_in_memory_dispatched` |
| `job`, `force`, `run`, `attempted`, `status` | locals of `dispatch` and what it awaits |
| `cli` | `--retry-failed`, sessions still to do, whether one failed, exit code |

`RefuseLockHeld`, `RefuseInFlight`, `RefuseAnalyzed` and `Accept` are the returns of
`Trigger.dispatch`, and `LookupFails` its raise when the latest run cannot be read; `SessionIncomplete` to `Aggregate` are `analyze_and_aggregate` statement by
statement; `PipelineRaises`, `RecordFailure`, `RecordFailureFails` its except clause;
`PersistOutput` the end of `ModeAwareDispatch.dispatch` and the release of both locks. A crash
(`ServerCrash`, `CliKilled`) leaves the database as it is and takes everything in memory; it also
stands for a shutdown, whose `CancelledError` passes the pipeline's `except Exception`.

`ModeAwareDispatch`'s own per-session lock is not a variable: `Exclusion` shows that its "already
running" branch cannot be reached through `Trigger`. Time is abstract: freshness and quietness are
bits that a clock step (`AgeRun`, `ForgetDispatch`, `GoQuiet`) clears at any moment, with the one
constraint that an in-memory entry is older than the row of its own run. `--session` of the CLI is
the in-process path; the server path posts to a route that does not exist and fails first.

### Ingest and the code

One project. Each hook invocation is an element of `Events`; `Hooks[e]` is what it is about.

| Variable | Code |
|---|---|
| `hook` | the hook script: not run, waiting for curl, answered 2xx, or recorded in the fallback file |
| `phase` | how far the server is with the event: in the handler (`lookup`, `reading` under the materialisation lock, `warm` with the query's result), in its pipeline task (`ingress`, `trace`, `insert`: what it writes next), `done`, or `dead` |
| `serving` | uvicorn: up, shutting down, down |
| `known`, `segment`, `stack` | `SessionTracker`'s cache, with `segment_index` and the sub-agent stack of each `SessionState` |
| `bound`, `index` | the events `bind()` numbered, and `Event.segment_index`; until then `index` holds what the warm start read |
| `traces`, `rows`, `syncLog` | `raw_traces/`, the `events` table, `sync.log` |
| `fallback`, `archive` | `fallback_events.jsonl`, and what sync renamed it to |
| `syncPc`, `todo`, `left`, `dirs`, `initial`, `missed` | locals of `FilesystemBackfill.run`; `initial` and `missed` record for the properties what it found and which failures it reported |

`Post`, `ConnectionRefused`, `CurlTimesOut` are the hook script; `Hit`, `Miss`, `WarmStart`,
`WarmStartFails`, `Install` the handler with `LazyCacheWithLocking.get` and `bind()`;
`WriteIngress` to `RecordFails` `ObservationPipeline.ingest` statement by statement; `Stop`,
`Drained`, `DrainTimesOut` the lifespan's shutdown; `Begin` to `SyncDies` the sync command. Tasks of
different events interleave at every await, in any order, and sync interleaves with all of it. A
cancelled task does not stop the thread that writes its trace, so `DrainTimesOut` saves any subset
of the traces being written. A crash may come anywhere; what was written stays.

What is assumed of the surroundings: an event is delivered once, with an id and a (session,
sequence number) of its own; uvicorn answers the requests in progress before the lifespan's
shutdown runs; the operator stops the server before `sync --rebuild`; one sync runs at a time; a
file write either happens or raises. Events in the fallback file are not replayed by anything in
the code: sync only archives them, and `Ingest` does the same.

### DirectiveLifecycle and the code

A row's columns are functions on `Ids` (`status`, `text`, `flag`, `source`, `weight`, `miss`,
`revisions`); `rows` tells which ids exist, `ledger` is `directive_revisions`. The locals of
`aggregate_project_flags` are functions on `Analyzers`: `scope` and `conventions` the copies it
listed, `described` the descriptors of this run, `queue` the patterns still to merge, `todo` the
copies the policy loop has still to do, `surplus` what the ceiling has still to retire. A step is
the code up to and including one transaction; between any two a user (`AskFor`, `Patch`: the row is
read outside the write's transaction) or another aggregation may write. Nothing guards those
writes, so the history variable `touched` records, for each aggregation, the rows others wrote since
it began, and the properties say what it may do to the others. The agent's answer is any set of
patterns; how close two texts are is the constant `Similarity`.

### The other components and the code

* `LLMRouter`: `Construct` is the building of the router by either user, `AttemptFails`,
  `AttemptTimesOut`, `AttemptSucceeds` and `FactoryFails` the loop of `LLMRouter.run` with
  `_classify_error` (`Classify`) and the look at the clock before each attempt; `Raise` is what the
  user does with the error. A request takes any number of seconds up to what the chain leaves it.
* `CLIAgent`: `Spawn` to `Collect` are one run of the program; `TimesOut`, `GraceEnds`,
  `CollectLate` the SIGTERM, SIGKILL and second `communicate()`; `Judge` the classification by
  exit status and answer. The program, and a `helper` it may leave behind holding its pipes, are
  external and end when they like.
* `Retention`: old and new are an event's two ages; `PurgeTraces`, `PurgeRows`, `PurgeFlags`,
  `PurgeReport` are the deletions one by one, each of which may raise; `CommandEnds` also a kill.
* `LazyCache`: `Get` is the code up to the first await; `BuildEnds` and `BuildFails` the thread's
  result; `Wake` the next waiter of the key's lock; a value is named for the caller that built it.
* `Daemon`: `Start` the look at the pid file, `Fork` and `WritePid` the child, `Bind` the port;
  `StopChecks`, `SendTerm`, `Gone`, `SendKill` the stages of `stop_daemon`, and `StopDies` what ends
  it at any of them. Ids are reused by `Stranger` as soon as they are free. Every look at a process
  chooses one of its `Readings`: its command line, or none, since reading it may fail. The test for
  two words (`CmdlineMatch`) is passed by the server and by a `namesake`, any other program with both
  words in its command line.
* `Configuration`: `Load`, `Show`, `Label`, `Validates` are the four readers of one setting;
  `Serve` is the check at the start, `BuildRuntime` the runtime made at a project's first event,
  `AskProgram` and `AskModel` an analysis, the latter with the files read once more until the SDK's
  agent could be built (`Buildable`: a well-formed `read_project_file`, fallbacks whose names tell a
  provider, a key for the selected model). A server starts from the files of a user who has set only
  the mode and what it needs (`Fresh`), and `Edit` changes one thing on disk.
* `DirectiveRequests`: `Tag` is the ETag; a poll is two reads, of the tag and of the list; the
  command is the HTTP request, what the server does with it and when, and the in-process path.

## 3. Runs

| Run | Instance | Shows |
|---|---|---|
| `dispatch_server` | 2 sessions, 1 callback task, the sweeper, 2 events, 1 fault, cleanup on | `ExclusiveDispatch`, `ReportGrounded`, `AuditComplete`, `BackupFollowsReport`, `NoRerunOfAnalyzed`, `ReportNeverRegresses` |
| `dispatch_live` | 1 session, 1 callback task, the sweeper, 2 events, 1 fault | `SessionsSettle`, under fairness |
| `dispatch_cli` | 1 session, the sweeper, 1 CLI call, 1 event, 1 fault | `TypeOK`, `IInv`, `AnalyzeExitHonest`, `LedgerSpec` |
| `dispatch_retry` (violation) | a failed session and `--retry-failed` | the batch exits 0 although the retry failed |
| `dispatch_sweep` (violation) | 2 sessions, 3 events | a session with a recent event is swept |
| `ingest_restart` | 1 session, 2 prompts, a sub-agent's start and end, 1 restart, 1 fault, no sync | `TypeOK`; `NothingVanishes`: which steps, of all from any state, lose an event; `SegmentsAdvance` |
| `ingest_sync` | 2 sessions with a prompt each, 1 restart, 2 syncs, 2 faults | `TraceFirst`, `SyncRestoresAll`, `StoreSpec` |
| `ingest_segments` (violation) | 1 session, 2 prompts, 1 fault and a restart | a restart gives a prompt a segment already taken |
| `ingest_log` (violation) | 1 session, 2 prompts, 1 sync, 2 failed inserts | the rewrite of `sync.log` drops an entry that was not restored |
| `directives` | 2 aggregations, 1 user, 2 ids, one directive stored with 0 to 2 revisions, 1 fault | `TypeOK`, `LedgerMatches`, `AnalyzerDefers`, `CeilingMet`, `CapNearlyHolds` |
| `directives_firm` (violation) | 1 aggregation, 1 user | an aggregation re-activates, or retires, a directive a user disabled meanwhile |
| `components` | seven components, one at a time | the 18 properties of `DirectiveRequests`, `LLMRouter`, `CLIAgent`, `Retention`, `LazyCache`, `Daemon`, `Configuration` below |

The run `components` shows: `WithinBudget`, `NoCostLeak`, `RepairsOnlyAnswers` (a chain of models
keeps its budget, does not fall back because an answer was invalid, and is repaired only then),
`NothingLeft`, `OnlyAnswersRepaired`, `AnalysisEnds` (an agent's program leaves nothing behind, is
repaired only for its answer, and its user returns), `FilesStayFindable`, `FlagsStayFindable`,
`UnreadOnlyIfLate` (a purge cut off anywhere is completed by the next, and deletes unread only what
came while it had the session in hand), `OneValue`, `LittleLeftOpen` (the cache), `StrangersSafe`,
`DaemonFindable` (the daemon), `ShownIsLoaded`, `CheckedServerAnalyzes` (the configuration),
`NotModified`, `HandledOnce` (requests about directives). These components share no variable, so a
behaviour picks a `part` and steps only that component; every behaviour of every component is
there, and the state space is the sum of theirs and not the product.

*Bounds.* `MaxIngests` bounds events (two: a `session_end` and whatever comes after it, or one per
session), `MaxCalls` CLI invocations, `MaxFaults` crashes and database or disk errors together.
Runs are unbounded in number as such: each needs an event, a call or a sweep of a session whose
last run did not complete, so these bounds bound them. Two sessions are enough for the sweep to have a candidate waiting
behind another, one callback task and the sweeper for two coroutines of a server to race, and one
CLI process against the sweeper for two processes to race. Every step that can fail does so in some run.
Deadlock is checked in the dispatch runs: the server never stops for good, since an idle one can
always sweep and a crashed one restarts.

For `Ingest`, `MaxStarts` bounds restarts, `MaxSyncs` runs of sync, `MaxFaults` crashes, cut-off
drains, I/O errors and rebuilds together. Two prompts of one session race for its warm start, and
one before and one after a restart show what the tracker forgets; start and end of a sub-agent, in
either order and on either side of a restart, meet every branch of `bind()`. Two sessions are
enough for sync to be between two directories while an event arrives in either; two faults for an
insert and the sync log to fail together, or for a rebuild to be followed by an error. The
prompts are interchangeable where the cfg declares symmetry. Hooks, restarts and syncs are used up in
the end, so these runs may stop and do not check deadlock.

For `DirectiveLifecycle`, `MaxRuns` bounds aggregations, `MaxEdits` requests of users, `MaxFaults`
failed writes and deaths, `TopN` (a constant of the code) patterns considered. Two aggregations
race in every step and two in a row see each other's results; two ids, of two flag types whose
texts are similar but not equal, are enough for a pattern to match, double, supersede and be new;
the stored directive begins with 0 to `RevisionCap` revisions, so the cap is met within one run;
the ceiling of 1 is exceeded as soon as both are active; `DecayDelta` exceeds `InitWeight`, so the
floor of the weight is met. The policy's numbers are scaled down, their order is the code's.

For `components`: `Timeout` 2 makes a budget of 3, less than two full requests; two fallbacks and
two providers make a chain in which a provider that refused its key comes again; one repair and
two prompts take each loop through a repetition and its end. Three callers of the cache are a
builder, a waiter, and one that comes after the close. Three process ids are two daemons and a
stranger; `MaxStarts` 2 lets two starts overlap. `MaxEdits` 3 turns both sides of a setting and
something the server has read. One session is enough for `Retention`, whose sessions meet only in
the order of deletion; two ids for a directive to change while another keeps its stamp; `MaxClock` 4
for a write of a client, one of an aggregation with an older stamp and one after it. Except for the
scalings these bounds are no longer needed where section 4 proves the property for all values.

*Fairness* (`LiveSpec`). The event loop is first-in first-out, so a coroutine that is ready again
and again is run; it is strong because the loop is taken in between. The agent answers or times
out (`analysis/cli_dispatcher.py` and `sdk/router.py` bound every call), and a session has
finitely many segments. The sweep ticks for ever. Restarting the server and using the project
again are the operator's doing and are assumed: the sweeper looks only at projects something asked
for since the server started.

In `components` only `CLI!Dispatches` is fair, weakly: the dispatcher's own steps, that is the event
loop and its timers. Nothing is assumed of the program. `AnalysisEnds` needs of its processes only
what the property says: that no helper holds the pipes for ever.

## 4. Proofs

`AnalysisDispatch_proofs` proves, for every value of the constants allowed by
`ConstantsAssumption` (roles are disjoint, bounds are naturals),

| Theorem | Statement |
|---|---|
| `Invariance` | `Spec => []IInv` |
| `TypeCorrect`, `Exclusion`, `Grounding`, `Auditing` | `TypeOK`, `ExclusiveDispatch`, `ReportGrounded`, `AuditComplete` are invariants |
| `Implements` | `Spec => LedgerSpec`: the dispatcher refines `RunLedger` |
| `HonestExit` | `Spec => AnalyzeExitHonest` |
| `CopiesKeptApart`, `ReportsAdvanceApart` | `Spec /\ []NoOverlap` implies `BackupFollowsReport` and `ReportNeverRegresses` |
| `NoRerunApart` | `Spec /\ []NoOverlap /\ []Unforced => NoRerunOfAnalyzed` |
| `CopiesKept`, `ReportsAdvance`, `NoRerun` | `Clis = {}`: the three properties, of `Spec` alone |

None of the properties is inductive alone. Exclusion needs that a dispatching coroutine's session
is in its process's registry (`Registered`); that no other session is (`NoStaleLock`) is part of the
exit code's honesty, because a refusal then tells of a dispatch that is under way. Grounding and auditing need to know which coroutine
owns a run and at which stage it left it (`Owned`: run ids are not shared, and `StageAt` ties the
stage to the program counter), that a run past the upsert has a report (`Reported`), and that an
output about to be persisted has a status (`Settled`). `IInv` is their conjunction. Each part has one lemma,
with one step per action; frame lemmas (`PipelineStays`, `WorldStarts`, `WorldKeepsRuns`,
`GroundedFrame`, `GroundedStage`) gather the actions that cannot disturb it. The refinement follows
from `Owned`: the stage a coroutine writes is the successor of the one it left.

The last two groups say that a session's analyses come one after the other. The code has no guard
against a CLI process that analyses what the server analyses: each has a registry of its own. So
`NoOverlap`, that no two dispatches work on one session at once, and `Unforced`, that nobody passes
`--force`, are hypotheses, and `ServerAlone` shows when they hold: always, if there is no CLI
process, since `IInv` keeps the dispatches of one process apart. Where dispatches do not overlap, a
session is touched by its dispatcher only (`Foreign`, `Kept`), and `Serial` is invariant: a session
with runs has a latest (`HasLatest`), a coroutine's run is its session's latest (`Newest`), report
and backup are that run's when it is about to be declared complete (`Copied`), and a dispatch that
was let in still finds its session unanalysed when it inserts its run (`Unanalysed`).

`Ingest_proofs` proves, for all sessions, hooks and bounds,

| Theorem | Statement |
|---|---|
| `Invariance` | `Spec => []IInv` |
| `TypeCorrect`, `TracesComeFirst` | `TypeOK`, `TraceFirst` are invariants |
| `NoLoss` | `Spec => NothingVanishes` |
| `SyncComplete` | `Spec => SyncRestoresAll` |
| `SegmentsInOrder` | `Spec => SegmentsAdvance` |
| `TracedSegmentsInOrder` | `Spec /\ ResumesInFull => TracedSegmentsAdvance` |
| `LogKeptStopped`, `LogKeptApart` | `LogDropsOnlyRestored`, if the server is down while sync replays the log, or if at least nothing is added to the log then |
| `Refinement` | `Spec => StoreSpec`: handler, pipeline, shutdown and sync refine `EventStore` |

Its `IInv` says which writes an event has behind it at each phase (`Paths`), that what a hook
spooled is spooled or set aside (`Accounted`), that whatever sync holds in its hands has a trace
(`Backed`), that a trace it found is stored, reported or still ahead (`Covered`), that one handler
at a time warm-starts a session, and none while the session is cached (`Locked`), and, as long as
there was no fault, that the index the next event starts from, be it in the cache, in a handler's
hands or in the database, is the highest given out (`Numbered`). The last is why the drain matters: when
it completes, every numbered event is a row, so what the warm start reads is that highest index.
A run that cuts the drain off counts a fault, and `ingest_segments` shows what follows.

`TracedSegmentsInOrder` and the two theorems on the log are the other side of the counterexamples of
`ingest_segments` and `ingest_log`: they name a condition without which there is none, and faults
and crashes are no part of it. `ResumesInFull` says that a warm start finds every trace of its
session among the rows, as it does if `secondsight sync` has run to its end before the server is
started. Then what an event starts from, in the cache or in a handler's hands, is never below the
index of a trace that is on disk or being written (`Traced`). For the log, all it holds during a
replay is restored, still to be restored or to be kept (`LogKept`), and a server that is down has no
task that could add to it (`Stopped`).

`DirectiveLifecycle_proofs` proves, for any sets of aggregations, users, ids and patterns, and any
values of the policy's numbers (`PolicyAssumption`, `DataAssumption`, `ActorAssumption`),

| Theorem | Statement |
|---|---|
| `Invariance` | `Spec => []IInv` |
| `TypeCorrect`, `Ledger` | `TypeOK`, `LedgerMatches` are invariants |
| `Deference` | `Spec => AnalyzerDefers` |
| `FirmApart` | `Spec /\ []NoneDisabledMeanwhile => DisabledIsFirm` |
| `Ceiling` | `Spec => CeilingMet` |
| `Cap` | `Spec => CapNearlyHolds` |

The rows are written without guards, so nothing an aggregation has read need be true any more. Its
part of `IInv`, `Local(a)`, therefore speaks only of the rows that nobody else wrote since it began
(`d \notin touched[a]`): its copies are of rows that exist (`Known`) and say of them what the rows say
(`Fresh`), so do the rows at hand (`Hand`), the row it revises is below the cap (`Stock`), and what
the ceiling has still to retire is what exceeds it, the lightest (`Excess`); at each step it holds
only what that step needs (`Phase`). Steps of others are `Quiet(a)`:
they leave its locals alone and are recorded in `touched[a]`; one lemma per action shows that, and
one that a quiet step keeps `Local(a)`. The cap is a counting argument: `Pending(d)` are the
aggregations that have read `d` below the cap and may still revise it, and whenever `d` is at the
cap they are few enough (`Capped`). The ledger needs `Books`: each index occurs once, indices have
no gap, and an index that was drawn is the next or was (`Drawn`), which is what makes the append of
the second of two aggregations fail instead of overwriting the first.

`AnalyzerDefers` allows the moves of `VALID_TRANSITIONS` that neither disable nor enable, and the
policy's moves between `obsolete` and `stalled`. `DisabledIsFirm` is what it leaves open, with
`touched[a]` left out: by `FirmApart` the counterexample of `directives_firm` needs a directive that
is disabled while an aggregation is under way.

The smaller components, each under the one assumption named there:

| Module | Theorem | Property | Inductive invariant | Assumed |
|---|---|---|---|---|
| `LazyCache_proofs` | `Sharing`, `Disposal` | `OneValue`, `LittleLeftOpen` | builder and waiters are apart and have nothing yet (`Queue`); who has what (`Values`); an open engine is cached, dropped or broken (`Engines`); after a close only callers inside go on (`Closing`) | `Apart` |
| `Retention_proofs` | `Files`, `Flags`, `Unread` | `FilesStayFindable`, `FlagsStayFindable`, `UnreadOnlyIfLate` | between its two deletions a purge has emptied the store it went to first (`Halfway`); what is in hand is dispensable (`Hands`, `JobOK`) | `Apart` |
| `CLIAgent_proofs` | `Tidy`, `AnswersRepaired` | `NothingLeft`, `OnlyAnswersRepaired` | what is running in each phase (`Begun`, `Ended`); fairness is not used | `Bounds` |
| | `ExhaustedHonestly`, `NeverStuck`, `WorkIsBounded` | see below | the user waits as long as it is untold (`Waits`), a killed program is dead (`Killed`), a reason is true (`Honest`) | `Bounds` |
| `LLMRouter_proofs` | `ChainTime`, `AnswersEndChains`, `BoundedRepairs` | `WithinBudget`, `NoCostLeak`, `RepairsOnlyAnswers` | the clock is within the budget (`Counts`), and a call runs only for a user that has not been told (`Silent`) | `Bounds` |
| | `TypeCorrect` | `TypeOK` of `LLMRouter` | the model that is asked, and each that was, is in the chain, which `Construct` makes from the user's (`Typed`, `Chains`) | `Bounds`, `Prompts > 0` |
| | `ExhaustedHonestly`, `CallsAreBounded` | see below | a user that is not told is asking a model of its chain (`OnItsWay`) | `Bounds`, `Prompts > 0` |
| `Components_proofs` | `Strangers`, `Findable` | `StrangersSafe`, `DaemonFindable` | stop pursues another program only if the id was reused or its command line reads like the server's (`Pursued`); until a daemon can be lost (`raced`) there is one daemon or one start, and the file names it (`InFront`, `Alone`) | `StartsBounded` |
| | `CheckedAnalyzes` | `CheckedServerAnalyzes` | until the disk changes, a server that is up would pass its check again (`Checked`) and its runtime has what is on disk (`ReadThen`); one that is down remembers nothing (`Forgotten`) | `EditsBounded` |
| | `ShownAsLoaded` | `ShownIsLoaded` | of all files of the right type, not only those reached (lemma `Shown`) | `EditsBounded` |
| | `PollsNotModified` | `NotModified` | the clock is ahead of every stamp (`Times`); of a list read with its tag the client has every row not written since, and as many as the tag says (`Current`) | `DirectivesBounded` |
| | `CommandsHandledOnce` | `HandledOnce` | a request exists from when the command sends it until the server handles it, and the in-process path has none (`UnderWay`) | `DirectivesBounded` |
| | `TypesCorrect`, `PromisesKept` | `TypeOK` of `ComponentsMC`; its 16 other safety properties | the components' own | `ComponentsAssumption` |

`AnalysisEnds` is liveness and stays with TLC, but the two facts it rests on are proved. Until
its user has returned, the dispatcher has something to do (`NeverStuck`), unless a killed program
left a process that holds its pipes, which is the condition of `AnalysisEnds`. Each of its steps
returns, or leaves it fewer prompts, runs of the program or phases of this run, compared in that order,
and no step of the program gives it more (`WorkIsBounded`). What TLC adds is that fairness makes it
take the steps it has. `CallsAreBounded` says both of the router's users; there every step is one of
the dispatcher. `ExhaustedHonestly`: who says that its repairs ran out has made them all.

`NotModified` is proved by counting: an equal tag names equally many rows, none
stamped later than the tag, so by `Current` what the client has contains the list, and two finite
sets of one size, one within the other, are equal. The rows it excludes are those written with a
stamp older than the write (`updated[d] < written[d]`), which is what aggregations do (section 5),
and lists read after their tag.

`TypesCorrect` and `PromisesKept` are about the composition. For each component there is a lemma
(`RouterWithin`, `ProgramWithin`, `RetentionWithin`, `CacheWithin`, `DaemonWithin`,
`ConfigWithin`, `RequestsWithin`) that the composition implements its specification: a step of
`ComponentsMC` is one of the component or leaves its variables alone. `Assumed` derives each
component's hypotheses from `ComponentsAssumption`, so what was proved of each holds of all.

`Apart` says that a model value for "none" is no caller, session or outcome; `Bounds`,
`StartsBounded`, `EditsBounded` that the bounds are numbers, `DirectivesBounded` also that there
are finitely many directives and that the clock can tick. They are hypotheses of the theorems and
not assumptions of the modules, because `ComponentsMC` instantiates the modules; its
`ComponentsAssumption` states them for the instance that TLC checks, and TLC evaluates it. The
promise modules let a theorem and the run `components` speak of one and the same definition.

Every safety invariant and every action property of a passing run is the statement of a theorem.
Model-checked only are `SessionsSettle` and, but for its safety core, `AnalysisEnds`, which are liveness under fairness and
out of the prover's reach. `dispatch_server` checks `BackupFollowsReport`, `NoRerunOfAnalyzed` and
`ReportNeverRegresses` of a server without a CLI, which is the hypothesis of their theorems; in the
instance of `dispatch_cli`, which has one, TLC finds each of the three violated.

## 5. What the code does otherwise than it says

* `cli/analyze.py:274` counts a retry that ended `analysis-failed` as a success; the docstring
  promises exit code 1 when the pipeline failed (`dispatch_retry`).
* `api/server.py:281-294` dispatches candidates that were computed before the awaits of the same
  sweep; `sdk/trigger.py:35-36` promises that a session with recent events is not swept
  (`dispatch_sweep`).
* `observation/tracker.py:160` resumes a session from the highest index among its *rows*; with a
  trace on disk whose insert failed or was cut off, a prompt after a restart repeats an index.
  `changes/2026-05-04_phase1-api-server/tasks/task-2.md:15` promises that the index never goes
  back and that a prompt increments it by one (`ingest_segments`).
* `storage/filesystem_backfill.py:168` replaces `sync.log` by what failed of the entries read at
  the start, and so drops what the server appended meanwhile; lines 26-27 promise that a line goes
  only after its insert returned (`ingest_log`). The walk of the same run, or of a later one, still
  finds the event by its trace: `SyncRestoresAll` and `StoreSpec` hold.

* `storage/directives_repository.py:374` writes the status the policy decided on from a copy read at
  the start of the loop, without a condition; `feedback/lifecycle.py:12` says that nothing but an
  explicit user action leaves `disabled`. A user who disables a directive during an aggregation
  finds it active, or retired, afterwards (`directives_firm`).

Each of these has a run that fails. The following were met while modelling; the models do what the
code does, and no run is about the difference.

* **Dispatch.** `cli/analyze.py:119-122` promises exit code 0 for an analysis "already in progress";
  `_handle_dispatch_result` (524-529) exits 1 when the session is locked or in flight.
  `AnalyzeExitHonest` says when it does: some run of the session is unfinished.
* **Ingestion.** `api/server.py:17-19` and `58-60` call the cancellation of ingest tasks after the
  one second of the drain safe, because the "raw trace is already on disk (FS-first)", and
  `api/hooks.py:75-76` calls a cancelled task "a normal shutdown outcome, not a data-loss event". A
  task that is cancelled before its trace is written (it has yet to write its ingress entry, or the
  write of the trace has not begun) loses an event the hook was told is accepted. This is no I/O
  error and no crash, but `NothingVanishes` has to name it among the steps that lose an event.
* **Agent backends.** A helper that outlives the killed program and holds its pipes makes the second
  `communicate()` wait for ever (hence the condition of `AnalysisEnds`). An answer that arrives after
  the timeout is lost. `status` and `retry_mode` are taken from the model's own JSON, so the
  "retry loop exhausted, this is a bug" branch is reachable.
* **Router.** The docstring makes a second refused key terminal whatever the provider, the code only
  for the same provider; 429 is classed fatal; if the factory fails for a fallback the attempts
  before it are not reported; `RouterChainTimeoutError` cannot be raised with up to two models.
* **Retention.** Flags of an analysis that failed before its report are found by no purge, nor are
  those that a re-analysis inserts between the two deletions of a purge, which then deletes its report.
* **Directives.** The policy moves between `obsolete` and `stalled`, which `VALID_TRANSITIONS` does
  not list. PATCH can enable a superseded directive. A pattern whose directive is disabled gets a new
  lineage. `aggregator.py:299-300` says new directives join the identity scope of their run; lines
  436-441 do not add them. A directive re-activated at low weight can be retired again at once.
  `expires_at` is never set, so expiry finds nothing.
* **Requests about directives.** Revisions and inserts are stamped with the start of their
  aggregation, so a change can hide behind a tag that is younger; tag and list are two reads.
  Disabling twice keeps the first reason through the server and overwrites it without. A timeout of
  the HTTP client fails the command although the server may have carried it out.
* **Configuration.** `analysis_global.default_agent` and `analysis.cli.default_agent` do diverge;
  the comment at `config/loader.py:807-812` says that the flat `default_agent` is never consumed
  next to `[analysis.cli]`, where it is;
  `config show` reads a key the loader ignores; `config validate` accepts zero and negative
  durations and modes the loader rejects; the check before serving looks at
  `[analysis.sdk].primary_model` and any key, the pipeline at the model it selects. The check passes,
  and each analysis with the SDK is refused, if the selected model has no key or is of an unknown
  name, if a fallback is (`sdk/model_selection.py:190`, `329`), or if `[analysis.read_project_file]`
  is malformed, which only `AnalysisConfig.load` (`analysis/runtime.py:760`) looks at;
  `CheckedServerAnalyzes` says that nothing else refuses it. A runtime that
  failed to build stays failed until a restart.
* **Daemon.** "Daemon started." is printed whatever happened. `daemon.py:233-238` says that
  the check of the command line blocks a signal to "a COMPLETELY UNRELATED process". It looks for
  "secondsight" and "serve" anywhere in the line (139-160), so that of `tail -f
  ~/.secondsight/logs/server.log` passes, and an id that is reused between the check and SIGKILL is
  not looked at again. A command line that cannot be read, or a `ps` that takes too long (119-136),
  counts as another program's: `--stop` then refuses, and a second start takes the file from a daemon
  that runs. `cli/serve.py:20-23` says that any second `--daemon` does, without a guard; `_do_daemon`
  (203-219) does look for a daemon first, and `DaemonFindable` says what that leaves. A second daemon that cannot
  bind has overwritten the pid file before it dies. A foreground server writes none.
* **Cache.** A construction in flight at `aclose` leaves its engine open, as does one whose schema
  creation fails; a value built during `invalidate` comes back; waiters do not look at `closed`.

## 6. Plan

1. `AnalysisDispatch`, `RunLedger`, with proofs - done.
2. `Ingest`, `EventStore`, with proofs - done.
3. `DirectiveLifecycle`, `DirectiveRequests`, with proofs - done.
4. `LazyCache`, with proofs - done.
5. `Retention`, with proofs - done.
6. `LLMRouter`, `CLIAgent`, `OutputRecovery`, with proofs - done.
7. `Daemon`, `Configuration`, with proofs - done; the composition's theorems - done.
8. Left: the hook script's sequence counter, its lock directory, and a hook killed while it holds it
   (`scripts/hooks/_lib.sh`); `sync --rebuild` under a running server.

## 7. Not modelled

* **Adapters** normalise one payload at a time and keep nothing; what they decide (which event, of
  which session) is `Hooks` in `Ingest`.
* **Injection and observation API** read the stores. What of them depends on order, the polled
  listing and its tag, is in `DirectiveRequests`.
* **Installer** edits an agent's settings file once, on command.
* Simplified, with no effect on what is asked: the two lists of the cleanup command are one step, the
  second a part of what it would be then (results only get younger); a directory that was removed in
  part counts as not removed; a pattern without a word, which deduplication skips, is not reported; the class
  of a chain's attempts leaves out a clause the one before it makes unreachable.
* More than a hundred active conventions: the code's reads see the hundred most frequent only, so
  beyond that `CeilingMet` does not hold; a project gets there by a `capacity_ceiling` set that high,
  or by users who enable directives again.
* Of modelled components: `sync --rebuild` under a running server, and two syncs at once; the
  `Sweeper` class, which the server does not start; `SessionTracker.reset_session`, which nothing
  calls; the cancellation of an agent's run, and a spawn that fails otherwise than by a missing
  program; environment overlays and templates of the configuration; formats, prompts, metrics,
  redaction and the parsing of answers, which are data here.
