--------------------------- MODULE AnalysisDispatch ---------------------------
(***************************************************************************)
(* How one project's sessions get analysed: Trigger.dispatch, which        *)
(* decides; ModeAwareDispatch, which runs the Orchestrator and persists    *)
(* its output; Orchestrator.analyze_session, which moves a run through its *)
(* stages; the server's sweeper; and `secondsight analyze`, which does the *)
(* same work in a process of its own against the same database.            *)
(*                                                                         *)
(* Coroutines of the server share one event loop.  A step of one of them   *)
(* is the code up to the next database transaction or await: between two   *)
(* awaits it keeps the loop (variable loop), so only other processes and a *)
(* crash can come in between.  A CLI process runs a single coroutine.      *)
(*                                                                         *)
(* Time is abstract: a row, or an in-memory entry, is fresh until it is    *)
(* trigger_lock_seconds old; a session is quiet once its last event is     *)
(* older than the sweeper's session timeout.                               *)
(***************************************************************************)
EXTENDS Naturals, Sequences, FiniteSets

CONSTANTS
  Sessions,               \* the sessions of the project
  EventTasks,             \* post-ingest callback tasks of the server
  Sweeper,                \* the server's sweep coordinator task
  Clis,                   \* invocations of `secondsight analyze`
  Server, None,
  CleanupAfterAnalysis,   \* [retention].cleanup_after_analysis
  MaxIngests,             \* bound: events observed
  MaxCalls,               \* bound: CLI calls
  MaxFaults               \* bound: crashes, and database or disk errors

ServerTasks == EventTasks \cup {Sweeper}
Actors == ServerTasks \cup Clis
Processes == Clis \cup {Server}

ASSUME ConstantsAssumption ==
  /\ CleanupAfterAnalysis \in BOOLEAN
  /\ MaxIngests \in Nat /\ MaxCalls \in Nat /\ MaxFaults \in Nat
  /\ Sweeper \notin EventTasks
  /\ ServerTasks \cap Clis = {}
  /\ Server \notin Clis
  /\ None \notin Actors \cup Sessions \cup {0, 1, 2}

VARIABLES
  \* the project's database and disk
  runs,          \* analysis_runs, in started_at order
  report,        \* session_reports: the run whose report each session has, or 0
  backup,        \* session_report.json: likewise, on disk
  output,        \* analysis_outputs.status, or "none"
  hasEvents,     \* events: does the session have rows?
  \* time, and the server process
  quiet, up, materialised, loop, scan,
  \* Trigger: LockRegistry._active_sessions of each process, and the server's
  \* _in_memory_dispatched (the CLI builds a Trigger for each dispatch)
  active, inMemory,
  \* the coroutine that runs Trigger.dispatch, per actor
  pc, job, force, run, attempted, status,
  \* the CLI process around it
  cli,
  \* environment budgets
  ingests, calls, faults

dbVars == <<runs, report, backup, output, hasEvents>>
serverVars == <<up, materialised, scan>>
triggerVars == <<active, inMemory>>
taskVars == <<pc, job, force, run, attempted, status>>
budgetVars == <<ingests, calls, faults>>
vars == <<dbVars, quiet, serverVars, loop, triggerVars, taskVars, cli, budgetVars>>

-----------------------------------------------------------------------------
(* analysis_runs, and what its readers derive from it.                     *)

Stages == {"pending", "segmented", "behavior_done", "summary_written", "failed"}

TerminalStages == {"summary_written", "failed"}
BlockRedispatch == TerminalStages \ {"failed"}

RunIds == 1..Len(runs)

Run == [session : Sessions, stage : Stages, fresh : BOOLEAN]

RunsOf(s) == {i \in RunIds : runs[i].session = s}

\* get_latest_for_session: ORDER BY started_at DESC LIMIT 1.
Latest(s) == CHOOSE i \in RunsOf(s) : \A j \in RunsOf(s) : j <= i

LatestIn(s, stages) == RunsOf(s) # {} /\ runs[Latest(s)].stage \in stages

\* Freshness of a terminal row is never read: it is not kept.
SetStage(i, st) ==
  runs' = [runs EXCEPT ![i] = [@ EXCEPT !.stage = st, !.fresh = st \notin TerminalStages]]

-----------------------------------------------------------------------------
(* Coroutines, processes, the event loop.                                  *)

\* Program counters between acquiring and releasing the session in LockRegistry.
\* ModeAwareDispatch's own per-session lock is held over the same steps.
InDispatch == {"begin", "segment", "analyze", "behavior", "summarize", "backup",
               "summary", "record", "callback", "aggregate", "output"}

\* Those at which the coroutine owns a run it has still to finish.
InPipeline == {"segment", "analyze", "behavior", "summarize", "backup", "summary", "record"}

ProcessOf(a) == IF a \in Clis THEN a ELSE Server

At(a, where) == pc[a] = where /\ (a \in Clis \/ loop \in {None, a})

GoTo(a, where) ==
  /\ pc' = [pc EXCEPT ![a] = where]
  /\ loop' = IF a \in Clis THEN loop ELSE a

Await(a, where) ==
  /\ pc' = [pc EXCEPT ![a] = where]
  /\ loop' = IF a \in Clis THEN loop ELSE None

Fault == faults < MaxFaults /\ faults' = faults + 1

\* A coroutine that is not dispatching.
Reset(A) ==
  /\ pc' = [a \in Actors |-> IF a \in A THEN "idle" ELSE pc[a]]
  /\ job' = [a \in Actors |-> IF a \in A THEN None ELSE job[a]]
  /\ force' = [a \in Actors |-> a \notin A /\ force[a]]
  /\ run' = [a \in Actors |-> IF a \in A THEN 0 ELSE run[a]]
  /\ attempted' = [a \in Actors |-> a \notin A /\ attempted[a]]
  /\ status' = [a \in Actors |-> IF a \in A THEN "none" ELSE status[a]]

Call(a, s, f) ==
  /\ job' = [job EXCEPT ![a] = s]
  /\ force' = [force EXCEPT ![a] = f]
  /\ UNCHANGED <<run, attempted, status>>

-----------------------------------------------------------------------------
(* What `secondsight analyze` makes of a DispatchResult.                   *)

Dispatched == {"dispatched", "analysis-failed"}

\* Mutant: like the batch, a single call takes any dispatched result for a success.
ExitCodeOfDispatched(reason) ==
  CASE reason \in Dispatched -> 0
    [] reason = "already-analyzed" -> 2
    [] OTHER -> 1

\* _handle_dispatch_result
ExitCode(reason) ==
  CASE reason = "dispatched" -> 0
    [] reason = "already-analyzed" -> 2
    [] OTHER -> 1

\* _handle_retry_failed counts any result that was dispatched as a success.
BatchCode(failed) == IF failed THEN 1 ELSE 0

CliReturns(c, s, reason) ==
  LET failed == cli[c].failed \/ reason \notin Dispatched
      todo == cli[c].todo \ {s}
  IN cli' = [cli EXCEPT ![c] =
       [retry |-> cli[c].retry,
        todo |-> todo,
        failed |-> failed,
        exit |-> IF ~cli[c].retry THEN ExitCode(reason)
                 ELSE IF todo = {} THEN BatchCode(failed) ELSE @.exit]]

\* Trigger.dispatch returns; the sweep goes on with its next candidate at once.
Return(a, reason) ==
  /\ Reset({a})
  /\ IF a \in Clis
       THEN CliReturns(a, job[a], reason) /\ UNCHANGED loop
       ELSE /\ loop' = IF a = Sweeper /\ scan # {} THEN Sweeper ELSE None
            /\ UNCHANGED cli
  /\ UNCHANGED <<quiet, serverVars, inMemory, ingests, calls>>

-----------------------------------------------------------------------------
(* The world around the dispatcher.                                        *)

\* An event of the session is ingested: its row is in the database and the
\* project's resources exist.
Observe(s) ==
  /\ up /\ loop = None
  /\ ingests < MaxIngests
  /\ ingests' = ingests + 1
  /\ hasEvents' = [hasEvents EXCEPT ![s] = TRUE]
  /\ quiet' = [quiet EXCEPT ![s] = FALSE]
  /\ materialised' = TRUE

ObserveEvent(s) ==
  /\ Observe(s)
  /\ UNCHANGED <<runs, report, backup, output, up, loop, scan, triggerVars,
                 taskVars, cli, calls, faults>>

\* ... and a session_end also schedules Trigger._pipeline_callback.
ObserveSessionEnd(t, s) ==
  /\ pc[t] = "idle"
  /\ Observe(s)
  /\ pc' = [pc EXCEPT ![t] = "enter"]
  /\ Call(t, s, FALSE)
  /\ UNCHANGED <<runs, report, backup, output, up, loop, scan, triggerVars,
                 cli, calls, faults>>

\* The session_end row could not be inserted: the callbacks fire all the same.
ObserveSessionEndUnstored(t, s) ==
  /\ up /\ loop = None
  /\ pc[t] = "idle"
  /\ ingests < MaxIngests /\ ingests' = ingests + 1
  /\ Fault
  /\ materialised' = TRUE
  /\ pc' = [pc EXCEPT ![t] = "enter"]
  /\ Call(t, s, FALSE)
  /\ UNCHANGED <<dbVars, quiet, up, loop, scan, triggerVars, cli, calls>>

\* The operator runs `secondsight analyze --session`, in-process.
CliAnalyze(c, s, f) ==
  /\ pc[c] = "idle" /\ cli[c].todo = {}
  /\ calls < MaxCalls
  /\ calls' = calls + 1
  /\ cli' = [cli EXCEPT ![c] = [retry |-> FALSE, todo |-> {s}, failed |-> FALSE, exit |-> None]]
  /\ pc' = [pc EXCEPT ![c] = "enter"]
  /\ Call(c, s, f)
  /\ UNCHANGED <<dbVars, quiet, serverVars, loop, triggerVars, ingests, faults>>

\* `--retry-failed`: the sessions of every failed run still in the table.
CliRetryFailed(c) ==
  LET todo == {runs[i].session : i \in {j \in RunIds : runs[j].stage = "failed"}}
  IN /\ pc[c] = "idle" /\ cli[c].todo = {}
     /\ calls < MaxCalls
     /\ calls' = calls + 1
     /\ cli' = [cli EXCEPT ![c] =
          [retry |-> TRUE, todo |-> todo, failed |-> FALSE,
           exit |-> IF todo = {} THEN 0 ELSE None]]
     /\ UNCHANGED <<dbVars, quiet, serverVars, loop, triggerVars, taskVars, ingests, faults>>

CliRetryNext(c) ==
  /\ pc[c] = "idle" /\ cli[c].retry
  /\ \E s \in cli[c].todo :
       /\ pc' = [pc EXCEPT ![c] = "enter"]
       /\ Call(c, s, TRUE)
  /\ UNCHANGED <<dbVars, quiet, serverVars, loop, triggerVars, cli, budgetVars>>

-----------------------------------------------------------------------------
(* The sweep coordinator.                                                  *)

\* Between two awaits of Trigger.dispatch the sweep keeps the loop.
KeepSweeping == loop' = IF scan' = {} THEN None ELSE Sweeper

\* One tick: find_stale_session_candidates over the materialised project.
SweepTick ==
  /\ up /\ materialised /\ loop = None
  /\ pc[Sweeper] = "idle" /\ scan = {}
  /\ scan' = {s \in Sessions : hasEvents[s] /\ quiet[s]}
  /\ KeepSweeping
  /\ UNCHANGED <<dbVars, quiet, up, materialised, triggerVars, taskVars, cli, budgetVars>>

SweepSkipsStage == TerminalStages

\* A candidate whose latest run is terminal, or cannot be read, is dropped.
SweepSkip(s) ==
  /\ At(Sweeper, "idle") /\ s \in scan
  /\ \/ LatestIn(s, SweepSkipsStage) /\ UNCHANGED faults
     \/ Fault
  /\ scan' = scan \ {s}
  /\ KeepSweeping
  /\ UNCHANGED <<dbVars, quiet, up, materialised, triggerVars, taskVars, cli, ingests, calls>>

\* Any other is dispatched, and the sweep waits for the outcome.
SweepDispatch(s) ==
  /\ At(Sweeper, "idle") /\ s \in scan
  /\ ~LatestIn(s, SweepSkipsStage)
  /\ scan' = scan \ {s}
  /\ GoTo(Sweeper, "enter")
  /\ Call(Sweeper, s, FALSE)
  /\ UNCHANGED <<dbVars, quiet, up, materialised, triggerVars, cli, budgetVars>>

-----------------------------------------------------------------------------
(* Trigger.dispatch: the checks, and what a caller that passes them takes. *)

\* Mutant: the registry is not consulted.
LockAlwaysFree(a) == a \in Actors

LockFree(a) == job[a] \notin active[ProcessOf(a)]

RecentlyDispatched(a) == a \in ServerTasks /\ job[a] \in inMemory /\ ~force[a]

\* Mutant: only the stage that nothing ever sets counts as analysed.
AnalyzedIfAggregated(a) == LatestIn(job[a], {"aggregated"}) /\ ~force[a]

AlreadyAnalyzed(a) == LatestIn(job[a], BlockRedispatch) /\ ~force[a]

\* Mutant: a row in progress is in flight however old it is.
RunInFlightForever(a) == LatestIn(job[a], Stages \ TerminalStages)

RunInFlight(a) ==
  LatestIn(job[a], Stages \ TerminalStages) /\ runs[Latest(job[a])].fresh

Refuse(a, reason) ==
  /\ Return(a, reason)
  /\ UNCHANGED <<dbVars, active, faults>>

RefuseLockHeld(a) ==
  At(a, "enter") /\ ~LockFree(a) /\ Refuse(a, "lock-held")

RefuseInFlight(a) ==
  /\ At(a, "enter") /\ LockFree(a)
  /\ RecentlyDispatched(a) \/ RunInFlight(a)
  /\ Refuse(a, "another-run-in-flight")

RefuseAnalyzed(a) ==
  /\ At(a, "enter") /\ LockFree(a)
  /\ ~RecentlyDispatched(a) /\ AlreadyAnalyzed(a)
  /\ Refuse(a, "already-analyzed")

\* The latest run cannot be read: the exception leaves Trigger.dispatch, and is only logged by the
\* callbacks and the sweep; the CLI exits with 1.
LookupFails(a) ==
  /\ At(a, "enter") /\ LockFree(a) /\ ~RecentlyDispatched(a)
  /\ Fault
  /\ Return(a, "raised")
  /\ UNCHANGED <<dbVars, active>>

\* Mutant: the session is not entered in the registry.
AcceptUnregistered(a) ==
  /\ At(a, "enter") /\ LockFree(a)
  /\ ~RecentlyDispatched(a) /\ ~AlreadyAnalyzed(a) /\ ~RunInFlight(a)
  /\ inMemory' = IF a \in ServerTasks THEN inMemory \cup {job[a]} ELSE inMemory
  /\ GoTo(a, "begin")
  /\ UNCHANGED <<dbVars, active, quiet, serverVars, job, force, run, attempted, status, cli,
                 budgetVars>>

\* force is not passed on: ModeAwareDispatch always analyses with force=True.
Accept(a) ==
  /\ At(a, "enter") /\ LockFree(a)
  /\ ~RecentlyDispatched(a) /\ ~AlreadyAnalyzed(a) /\ ~RunInFlight(a)
  /\ active' = [active EXCEPT ![ProcessOf(a)] = @ \cup {job[a]}]
  /\ inMemory' = IF a \in ServerTasks THEN inMemory \cup {job[a]} ELSE inMemory
  /\ GoTo(a, "begin")
  /\ UNCHANGED <<dbVars, quiet, serverVars, job, force, run, attempted, status, cli, budgetVars>>

-----------------------------------------------------------------------------
(* Orchestrator.analyze_and_aggregate, up to ModeAwareDispatch's output.   *)

\* What a step of the pipeline leaves alone: all but the database, the
\* program counters, and the caller's own locals.
Quietly == UNCHANGED <<quiet, serverVars, triggerVars, job, force, cli, ingests, calls>>

Outcome(a, st) == status' = [status EXCEPT ![a] = st]

\* No event of the session is stored: SessionIncompleteError, and no run.
SessionIncomplete(a) ==
  /\ At(a, "begin") /\ ~hasEvents[job[a]]
  /\ Outcome(a, "failure")
  /\ GoTo(a, "output")
  /\ Quietly /\ UNCHANGED <<dbVars, run, attempted, faults>>

StartRun(a) ==
  /\ At(a, "begin") /\ hasEvents[job[a]]
  /\ runs' = Append(runs, [session |-> job[a], stage |-> "pending", fresh |-> TRUE])
  /\ run' = [run EXCEPT ![a] = Len(runs) + 1]
  /\ GoTo(a, "segment")
  /\ Quietly /\ UNCHANGED <<report, backup, output, hasEvents, attempted, status, faults>>

\* Mutant: the insert's failure is swallowed, the run id made up for it is used.
StartRunFailsSilently(a) ==
  /\ At(a, "begin") /\ hasEvents[job[a]]
  /\ Fault
  /\ run' = [run EXCEPT ![a] = Len(runs) + 1]
  /\ GoTo(a, "segment")
  /\ Quietly /\ UNCHANGED <<dbVars, attempted, status>>

\* start_run is outside the try block: its failure leaves no row to mark.
StartRunFails(a) ==
  /\ At(a, "begin") /\ hasEvents[job[a]]
  /\ Fault
  /\ Outcome(a, "failure")
  /\ GoTo(a, "output")
  /\ Quietly /\ UNCHANGED <<dbVars, run, attempted>>

\* Segment the session, then await the agent on the first segment.
Segment(a) ==
  /\ At(a, "segment")
  /\ SetStage(run[a], "segmented")
  /\ Await(a, "analyze")
  /\ Quietly /\ UNCHANGED <<report, backup, output, hasEvents, run, attempted, status, faults>>

\* The agent answered for one segment: its flags, if any, are inserted; the
\* next segment is awaited, or there is none.
AnalyzeSegment(a) ==
  /\ At(a, "analyze")
  /\ \E flags \in BOOLEAN : attempted' = [attempted EXCEPT ![a] = @ \/ flags]
  /\ Await(a, "analyze") \/ GoTo(a, "behavior")
  /\ Quietly /\ UNCHANGED <<runs, report, backup, output, hasEvents, run, status, faults>>

BehaviorDone(a) ==
  /\ At(a, "behavior")
  /\ SetStage(run[a], "behavior_done")
  /\ Await(a, "summarize")
  /\ Quietly /\ UNCHANGED <<report, backup, output, hasEvents, run, attempted, status, faults>>

\* Mutant: the report is not upserted.
SummarizeUnsaved(a) ==
  /\ At(a, "summarize")
  /\ GoTo(a, "backup")
  /\ Quietly /\ UNCHANGED <<dbVars, run, attempted, status, faults>>

\* Mutant: the report is not copied to disk.
SummarizeNoBackup(a) ==
  /\ At(a, "summarize")
  /\ report' = [report EXCEPT ![job[a]] = run[a]]
  /\ GoTo(a, "summary")
  /\ Quietly /\ UNCHANGED <<runs, backup, output, hasEvents, run, attempted, status, faults>>

\* The agent answered with the summary: the report is upserted, ...
Summarize(a) ==
  /\ At(a, "summarize")
  /\ report' = [report EXCEPT ![job[a]] = run[a]]
  /\ GoTo(a, "backup")
  /\ Quietly /\ UNCHANGED <<runs, backup, output, hasEvents, run, attempted, status, faults>>

\* ... copied to disk, ...
WriteBackup(a) ==
  /\ At(a, "backup")
  /\ backup' = [backup EXCEPT ![job[a]] = run[a]]
  /\ GoTo(a, "summary")
  /\ Quietly /\ UNCHANGED <<runs, report, output, hasEvents, run, attempted, status, faults>>

\* ... and the run is complete.
SummaryWritten(a) ==
  /\ At(a, "summary")
  /\ SetStage(run[a], "summary_written")
  /\ GoTo(a, "callback")
  /\ Quietly /\ UNCHANGED <<report, backup, output, hasEvents, run, attempted, status, faults>>

\* The post-analysis cleanup removes the session's directory, then its rows;
\* whatever goes wrong in it is swallowed.
Cleanup(s) ==
  \/ UNCHANGED <<backup, hasEvents, quiet>>
  \/ /\ CleanupAfterAnalysis
     /\ backup' = [backup EXCEPT ![s] = 0]
     /\ \/ UNCHANGED <<hasEvents, quiet>>
        \/ /\ hasEvents' = [hasEvents EXCEPT ![s] = FALSE]
           /\ quiet' = [quiet EXCEPT ![s] = FALSE]

\* Mutant: the callback's exception reaches the pipeline's except clause.
AnalysisCompleteRaises(a) ==
  /\ At(a, "callback")
  /\ GoTo(a, "record")
  /\ Quietly /\ UNCHANGED <<dbVars, run, attempted, status, faults>>

\* on_analysis_complete; with no flag attempted, aggregation is skipped.  The output is a
\* failure if report and flags cannot be read back.
AnalysisComplete(a) ==
  /\ At(a, "callback")
  /\ Cleanup(job[a])
  /\ \/ attempted[a] /\ Await(a, "aggregate") /\ UNCHANGED <<status, faults>>
     \/ ~attempted[a] /\ GoTo(a, "output") /\ Outcome(a, "success") /\ UNCHANGED faults
     \/ ~attempted[a] /\ GoTo(a, "output") /\ Outcome(a, "failure") /\ Fault
  /\ UNCHANGED <<runs, report, output, serverVars, triggerVars, job, force, run,
                 attempted, cli, ingests, calls>>

\* aggregate_project and the lifecycle automation.  The run's row is not
\* touched, whether aggregation, or reading back its output, succeeds or raises.
Aggregate(a) ==
  /\ At(a, "aggregate")
  /\ Outcome(a, "success") \/ Outcome(a, "failure")
  /\ GoTo(a, "output")
  /\ Quietly /\ UNCHANGED <<dbVars, run, attempted, faults>>

\* The agent may always fail; a database or disk error is a fault.
PipelineRaises(a) ==
  /\ \/ (At(a, "analyze") \/ At(a, "summarize")) /\ UNCHANGED faults
     \/ (\E w \in {"segment", "behavior", "backup", "summary"} : At(a, w)) /\ Fault
  /\ GoTo(a, "record")
  /\ Quietly /\ UNCHANGED <<dbVars, run, attempted, status>>

\* Mutant: the failure is only logged.
RecordFailureNowhere(a) ==
  /\ At(a, "record")
  /\ Outcome(a, "failure")
  /\ GoTo(a, "output")
  /\ Quietly /\ UNCHANGED <<dbVars, run, attempted, faults>>

RecordFailure(a) ==
  /\ At(a, "record")
  /\ SetStage(run[a], "failed")
  /\ Outcome(a, "failure")
  /\ GoTo(a, "output")
  /\ Quietly /\ UNCHANGED <<report, backup, output, hasEvents, run, attempted, faults>>

RecordFailureFails(a) ==
  /\ At(a, "record") /\ Fault
  /\ Outcome(a, "failure")
  /\ GoTo(a, "output")
  /\ Quietly /\ UNCHANGED <<dbVars, run, attempted>>

\* The output is upserted, or fails to be; both locks are released.
PersistOutput(a) ==
  /\ At(a, "output")
  /\ \/ output' = [output EXCEPT ![job[a]] = status[a]] /\ UNCHANGED faults
     \/ Fault /\ UNCHANGED output
  /\ active' = [active EXCEPT ![ProcessOf(a)] = @ \ {job[a]}]
  /\ Return(a, IF status[a] = "success" THEN "dispatched" ELSE "analysis-failed")
  /\ UNCHANGED <<runs, report, backup, hasEvents>>

-----------------------------------------------------------------------------
(* Crashes, restarts, and the passing of time.                             *)

\* A process dies, or is stopped: its coroutines end where they are, its
\* locks and its memory go with it.  No except clause of the pipeline sees it.
Dies(p, A) ==
  /\ Fault
  /\ Reset(A)
  /\ active' = [active EXCEPT ![p] = {}]
  /\ UNCHANGED <<dbVars, quiet, ingests, calls>>

ServerCrash ==
  /\ up /\ up' = FALSE
  /\ Dies(Server, ServerTasks)
  /\ inMemory' = {} /\ materialised' = FALSE /\ scan' = {} /\ loop' = None
  /\ UNCHANGED cli

CliKilled(c) ==
  /\ pc[c] # "idle"
  /\ Dies(c, {c})
  /\ cli' = [cli EXCEPT ![c].todo = {}]
  /\ UNCHANGED <<serverVars, inMemory, loop>>

Restart ==
  /\ ~up /\ up' = TRUE
  /\ UNCHANGED <<dbVars, quiet, materialised, scan, loop, triggerVars, taskVars, cli, budgetVars>>

\* Any request for the project makes the registry build its resources.
Materialise ==
  /\ up /\ ~materialised /\ materialised' = TRUE
  /\ UNCHANGED <<dbVars, quiet, up, scan, loop, triggerVars, taskVars, cli, budgetVars>>

\* session_timeout_minutes pass without an event.
GoQuiet(s) ==
  /\ hasEvents[s] /\ ~quiet[s]
  /\ quiet' = [quiet EXCEPT ![s] = TRUE]
  /\ UNCHANGED <<dbVars, serverVars, loop, triggerVars, taskVars, cli, budgetVars>>

\* trigger_lock_seconds pass: an in-memory entry is pruned ...
ForgetDispatch(s) ==
  /\ s \in inMemory
  /\ inMemory' = inMemory \ {s}
  /\ UNCHANGED <<dbVars, quiet, serverVars, loop, active, taskVars, cli, budgetVars>>

\* ... and a row becomes stale; the entry of its own dispatch is older.
AgeRun(i) ==
  /\ runs[i].fresh
  /\ \A a \in ServerTasks : run[a] = i => job[a] \notin inMemory
  /\ runs' = [runs EXCEPT ![i] = [@ EXCEPT !.fresh = FALSE]]
  /\ UNCHANGED <<report, backup, output, hasEvents, quiet, serverVars, loop,
                 triggerVars, taskVars, cli, budgetVars>>

-----------------------------------------------------------------------------
(* The system.                                                             *)

NoCall == [retry |-> FALSE, todo |-> {}, failed |-> FALSE, exit |-> None]

Init ==
  /\ runs = <<>>
  /\ report = [s \in Sessions |-> 0] /\ backup = [s \in Sessions |-> 0]
  /\ output = [s \in Sessions |-> "none"]
  /\ hasEvents = [s \in Sessions |-> FALSE] /\ quiet = [s \in Sessions |-> FALSE]
  /\ up = TRUE /\ materialised = FALSE /\ loop = None /\ scan = {}
  /\ active = [p \in Processes |-> {}] /\ inMemory = {}
  /\ pc = [a \in Actors |-> "idle"] /\ job = [a \in Actors |-> None]
  /\ force = [a \in Actors |-> FALSE] /\ run = [a \in Actors |-> 0]
  /\ attempted = [a \in Actors |-> FALSE] /\ status = [a \in Actors |-> "none"]
  /\ cli = [c \in Clis |-> NoCall]
  /\ ingests = 0 /\ calls = 0 /\ faults = 0

\* One step of Trigger.dispatch, or of what it awaits.
Dispatch(a) ==
  \/ RefuseLockHeld(a) \/ RefuseInFlight(a) \/ RefuseAnalyzed(a) \/ LookupFails(a)
  \/ Accept(a)
  \/ SessionIncomplete(a) \/ StartRun(a) \/ StartRunFails(a)
  \/ Segment(a) \/ AnalyzeSegment(a) \/ BehaviorDone(a)
  \/ Summarize(a) \/ WriteBackup(a) \/ SummaryWritten(a)
  \/ AnalysisComplete(a) \/ Aggregate(a)
  \/ PipelineRaises(a) \/ RecordFailure(a) \/ RecordFailureFails(a)
  \/ PersistOutput(a)

ServerStarts ==
  \/ \E s \in Sessions : ObserveEvent(s) \/ SweepSkip(s) \/ SweepDispatch(s)
  \/ \E t \in EventTasks, s \in Sessions :
       ObserveSessionEnd(t, s) \/ ObserveSessionEndUnstored(t, s)
  \/ SweepTick \/ Restart \/ Materialise

CliStarts(c) ==
  \/ \E s \in Sessions, f \in BOOLEAN : CliAnalyze(c, s, f)
  \/ CliRetryFailed(c) \/ CliRetryNext(c)

TimePasses ==
  \/ \E s \in Sessions : GoQuiet(s) \/ ForgetDispatch(s)
  \/ \E i \in RunIds : AgeRun(i)

Next ==
  \/ \E a \in Actors : Dispatch(a)
  \/ ServerStarts
  \/ \E c \in Clis : CliStarts(c)
  \/ TimePasses
  \/ ServerCrash
  \/ \E c \in Clis : CliKilled(c)

Spec == Init /\ [][Next]_vars

\* The event loop is FIFO: a coroutine that is ready over and over runs (the
\* loop is not always free, hence SF).  The agent answers or times out, and a
\* session has finitely many segments.  The operator restarts the server and
\* the project is used; clocks advance.
Fairness ==
  /\ \A a \in Actors : SF_vars(Dispatch(a))
  /\ \A a \in Actors : SF_vars(AnalyzeSegment(a) /\ pc'[a] = "behavior")
  /\ \A c \in Clis : WF_vars(CliRetryNext(c))
  /\ SF_vars(SweepTick)
  /\ \A s \in Sessions : SF_vars(SweepSkip(s) \/ SweepDispatch(s))
  /\ WF_vars(Restart) /\ WF_vars(Materialise)
  /\ WF_vars(TimePasses)

LiveSpec == Spec /\ Fairness

-----------------------------------------------------------------------------
(* What must hold.                                                         *)

ProgramCounters == {"idle", "enter"} \cup InDispatch

\* Types; moreover a run id held anywhere is one of the table's.
TypeOK ==
  /\ runs \in Seq(Run)
  /\ report \in [Sessions -> RunIds \cup {0}]
  /\ backup \in [Sessions -> RunIds \cup {0}]
  /\ output \in [Sessions -> {"none", "success", "failure"}]
  /\ hasEvents \in [Sessions -> BOOLEAN] /\ quiet \in [Sessions -> BOOLEAN]
  /\ up \in BOOLEAN /\ materialised \in BOOLEAN
  /\ loop \in ServerTasks \cup {None}
  /\ scan \in SUBSET Sessions
  /\ active \in [Processes -> SUBSET Sessions]
  /\ inMemory \in SUBSET Sessions
  /\ pc \in [Actors -> ProgramCounters]
  /\ job \in [Actors -> Sessions \cup {None}]
  /\ force \in [Actors -> BOOLEAN]
  /\ run \in [Actors -> RunIds \cup {0}]
  /\ attempted \in [Actors -> BOOLEAN]
  /\ status \in [Actors -> {"none", "success", "failure"}]
  /\ cli \in [Clis -> [retry : BOOLEAN, todo : SUBSET Sessions, failed : BOOLEAN,
                       exit : {None, 0, 1, 2}]]
  /\ ingests \in 0..MaxIngests /\ calls \in 0..MaxCalls /\ faults \in 0..MaxFaults

Dispatching(a) == pc[a] \in InDispatch

\* DC-4: the callbacks and the sweeper of one server never analyse the same
\* session at once, however long the agent keeps one of them waiting.
ExclusiveDispatch ==
  \A a, b \in Actors :
    Dispatching(a) /\ Dispatching(b) /\ ProcessOf(a) = ProcessOf(b) /\ job[a] = job[b]
      => a = b

\* What the dashboard shows is backed by the audit table: a session's report,
\* and its copy on disk, come from a run of that very session that got past
\* behaviour detection; a run recorded as complete, or an output recorded as a
\* success, left a report.
ReportGrounded ==
  \A s \in Sessions :
    /\ \A i \in {report[s], backup[s]} \ {0} :
         runs[i].session = s /\ runs[i].stage \in {"behavior_done", "summary_written", "failed"}
    /\ (\E i \in RunsOf(s) : runs[i].stage = "summary_written") => report[s] # 0
    /\ output[s] = "success" => report[s] # 0

\* "The audit row is always completed": unless a process died or the database
\* failed, a row that is not terminal is one some coroutine is working on.
AuditComplete ==
  faults = 0 =>
    \A i \in RunIds : runs[i].stage \notin TerminalStages =>
      \E a \in Actors : run[a] = i /\ pc[a] \in InPipeline

\* "The filesystem follows the DB": a run is declared complete only while the
\* session's report and session_report.json are both that run's.
BackupFollowsReport ==
  [][\A i \in RunIds :
       runs'[i].stage = "summary_written" /\ runs[i].stage # "summary_written" =>
         LET s == runs[i].session IN report[s] = i /\ backup[s] = i]_vars

\* The server, which never forces, does not analyse again what it analysed:
\* not after a duplicate session_end, a sweep, or a restart.
NoRerunOfAnalyzed ==
  [][Len(runs') > Len(runs) => ~LatestIn(runs'[Len(runs')].session, {"summary_written"})]_vars

\* A report is replaced only by that of a later run: a dispatch the agent kept
\* waiting past trigger_lock_seconds never overwrites a newer one.
ReportNeverRegresses == [][\A s \in Sessions : report'[s] >= report[s]]_vars

\* What an exit of `analyze --session` tells.  0: its own run is complete.  2: it has
\* started none, the session's latest run is complete, and --force was not given.  1 before
\* it has started any: some other run of the session is unfinished, or the database failed.
\* The docstring of analyze promises 0 also for an analysis "already in progress"; that is a 1.
AnalyzeExitHonest ==
  [][\A c \in Clis : cli'[c].exit # cli[c].exit /\ ~cli[c].retry /\ ~cli'[c].retry =>
       /\ cli'[c].exit = 0 => run[c] # 0 /\ runs[run[c]].stage = "summary_written"
       /\ cli'[c].exit = 2 => run[c] = 0 /\ ~force[c] /\ LatestIn(job[c], {"summary_written"})
       /\ cli'[c].exit = 1 /\ pc[c] = "enter" =>
            LatestIn(job[c], Stages \ TerminalStages) \/ faults' > faults]_vars

\* The same of --retry-failed ("Exit codes: 1 - analysis pipeline failed",
\* cli/analyze.py): the batch exits 0 only if the run it last made is complete.
RetryExitHonest ==
  [][\A c \in Clis : cli[c].retry /\ pc[c] = "output" /\ cli'[c].exit = 0 =>
       status[c] = "success"]_vars

\* "A session with recent events is not swept" (sdk/trigger.py, DC-6).
SweepsOnlyQuietSessions ==
  [][\A s \in Sessions : pc[Sweeper] = "idle" /\ pc'[Sweeper] = "enter" /\ job'[Sweeper] = s
       => quiet[s]]_vars

\* A session with events is analysed in the end, successfully or not, or its
\* events are gone: a lost session_end, a crash at any step, or a row left
\* behind by either is made up for by the sweeper.
SessionsSettle ==
  \A s \in Sessions : hasEvents[s] ~> (LatestIn(s, TerminalStages) \/ ~hasEvents[s])

\* The pipeline, its crashes and its competing processes write analysis_runs
\* only as RunLedger allows.
Book == [i \in RunIds |-> [session |-> runs[i].session, stage |-> runs[i].stage]]

Ledger == INSTANCE RunLedger WITH ledger <- Book

LedgerSpec == Ledger!Spec

-----------------------------------------------------------------------------
(* Why it holds: the inductive invariant of AnalysisDispatch_proofs.       *)

\* Where a run stands while its owner is at a program counter of the pipeline.
StageAt == [segment |-> {"pending"}, analyze |-> {"segmented"}, behavior |-> {"segmented"},
            summarize |-> {"behavior_done"}, backup |-> {"behavior_done"},
            summary |-> {"behavior_done"}, record |-> Stages \ TerminalStages]

\* A dispatching coroutine is entered in its process's registry, alone.
Registered ==
  /\ \A a \in Actors : pc[a] # "idle" => job[a] \in Sessions
  /\ \A a \in Actors : Dispatching(a) => job[a] \in active[ProcessOf(a)]
  /\ ExclusiveDispatch

\* A run is some coroutine's own, is of the session it dispatches, and stands
\* where the pipeline left it.
Owned ==
  /\ \A a \in Actors : pc[a] \in {"idle", "enter", "begin"} => run[a] = 0
  /\ \A a, b \in Actors : run[a] = run[b] /\ run[a] # 0 => a = b
  /\ \A a \in Actors : pc[a] \in InPipeline =>
       /\ run[a] # 0
       /\ runs[run[a]].session = job[a]
       /\ runs[run[a]].stage \in StageAt[pc[a]]
  /\ \A a \in Actors : pc[a] \in {"callback", "aggregate"} \/ status[a] = "success" =>
       run[a] # 0 /\ runs[run[a]].session = job[a] /\ runs[run[a]].stage = "summary_written"

\* From the upsert on, the session of a run has a report.
Reported ==
  \A a \in Actors : pc[a] \in {"backup", "summary"} => report[job[a]] # 0

\* An output about to be persisted has a status.
Settled == \A a \in Actors : pc[a] = "output" => status[a] # "none"

\* A session is in a registry only while it is dispatched: every exit takes it out.
NoStaleLock ==
  \A p \in Processes : \A s \in active[p] :
    \E a \in Actors : Dispatching(a) /\ ProcessOf(a) = p /\ job[a] = s

IInv ==
  /\ TypeOK /\ Registered /\ NoStaleLock /\ Owned /\ Reported /\ Settled
  /\ ReportGrounded /\ AuditComplete

=============================================================================
