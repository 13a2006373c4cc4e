------------------------ MODULE AnalysisDispatch_proofs ------------------------
(***************************************************************************)
(* Proofs about AnalysisDispatch, for any number of sessions, callback     *)
(* tasks, CLI processes, ingests, calls and faults.                        *)
(***************************************************************************)
EXTENDS AnalysisDispatch, SequenceTheorems, TLAPS

-----------------------------------------------------------------------------
(* The table.                                                              *)

\* Advancing a run, or failing it, touches its stage and nothing else of the
\* table (AnalysisRunsRepository.advance_stage, record_failure).
LEMMA SetStageLemma ==
  ASSUME runs \in Seq(Run), NEW i \in RunIds, NEW st \in Stages, SetStage(i, st)
  PROVE  /\ runs' \in Seq(Run)
         /\ Len(runs') = Len(runs)
         /\ RunIds' = RunIds
         /\ \A j \in RunIds : /\ runs'[j].session = runs[j].session
                              /\ runs'[j].stage = IF j = i THEN st ELSE runs[j].stage
<1> DEFINE r == [runs[i] EXCEPT !.stage = st, !.fresh = st \notin TerminalStages]
<1>1. runs[i] \in Run /\ i \in 1..Len(runs)
  BY DEF RunIds
<1>2. r \in Run /\ r.session = runs[i].session /\ r.stage = st
  BY <1>1 DEF Run
<1>3. runs' = [runs EXCEPT ![i] = r]
  BY DEF SetStage
<1> HIDE DEF r
<1>4. runs' \in Seq(Run) /\ Len(runs') = Len(runs)
  BY <1>1, <1>2, <1>3
<1>5. RunIds' = RunIds
  BY <1>4 DEF RunIds
<1>6. \A j \in RunIds : runs'[j] = IF j = i THEN r ELSE runs[j]
  BY <1>3 DEF RunIds
<1> QED
  BY <1>2, <1>4, <1>5, <1>6

\* Starting a run appends its row (AnalysisRunsRepository.start_run).
LEMMA StartRunLemma ==
  ASSUME TypeOK, NEW a \in Actors, StartRun(a), job[a] \in Sessions
  PROVE  /\ runs' \in Seq(Run)
         /\ Len(runs') = Len(runs) + 1
         /\ RunIds' = RunIds \cup {Len(runs) + 1}
         /\ Len(runs) + 1 \notin RunIds
         /\ \A j \in RunIds : runs'[j] = runs[j]
         /\ runs'[Len(runs) + 1].session = job[a]
         /\ runs'[Len(runs) + 1].stage = "pending"
<1> DEFINE r == [session |-> job[a], stage |-> "pending", fresh |-> TRUE]
<1>1. r \in Run
  BY DEF Run, Stages
<1>2. runs' = Append(runs, r) /\ runs \in Seq(Run)
  BY DEF StartRun, TypeOK
<1> QED
  BY <1>1, <1>2 DEF RunIds

\* The clock touches no stage.
LEMMA AgeRunLemma ==
  ASSUME runs \in Seq(Run), NEW i \in RunIds, AgeRun(i)
  PROVE  /\ runs' \in Seq(Run)
         /\ RunIds' = RunIds
         /\ \A j \in RunIds : /\ runs'[j].session = runs[j].session
                              /\ runs'[j].stage = runs[j].stage
<1> DEFINE r == [runs[i] EXCEPT !.fresh = FALSE]
<1>1. runs[i] \in Run /\ i \in 1..Len(runs)
  BY DEF RunIds
<1>2. r \in Run /\ r.session = runs[i].session /\ r.stage = runs[i].stage
  BY <1>1 DEF Run
<1>3. runs' = [runs EXCEPT ![i] = r]
  BY DEF AgeRun
<1> HIDE DEF r
<1>4. runs' \in Seq(Run) /\ RunIds' = RunIds
  BY <1>1, <1>2, <1>3 DEF RunIds
<1>5. \A j \in RunIds : runs'[j] = IF j = i THEN r ELSE runs[j]
  BY <1>3 DEF RunIds
<1> QED
  BY <1>2, <1>4, <1>5
-----------------------------------------------------------------------------
(* Types.                                                                  *)

TaskTypes ==
  /\ pc \in [Actors -> ProgramCounters]
  /\ job \in [Actors -> Sessions \cup {None}]
  /\ force \in [Actors -> BOOLEAN]
  /\ run \in [Actors -> RunIds \cup {0}]
  /\ attempted \in [Actors -> BOOLEAN]
  /\ status \in [Actors -> {"none", "success", "failure"}]

\* A coroutine that ends, or starts afresh, has the state of an idle one.
LEMMA ResetTypes ==
  ASSUME TypeOK, NEW A \in SUBSET Actors, Reset(A), RunIds \subseteq RunIds'
  PROVE  TaskTypes'
<1>1. pc' \in [Actors -> ProgramCounters] /\ job' \in [Actors -> Sessions \cup {None}]
  BY DEF Reset, TypeOK, ProgramCounters
<1>2. force' \in [Actors -> BOOLEAN]
  BY DEF Reset, TypeOK
<1>3. attempted' \in [Actors -> BOOLEAN]
  BY DEF Reset, TypeOK
<1>4. run' \in [Actors -> RunIds' \cup {0}]
  BY DEF Reset, TypeOK
<1>5. status' \in [Actors -> {"none", "success", "failure"}]
  BY DEF Reset, TypeOK
<1> QED
  BY <1>1, <1>2, <1>3, <1>4, <1>5 DEF TaskTypes

CliType == [retry : BOOLEAN, todo : SUBSET Sessions, failed : BOOLEAN, exit : {None, 0, 1, 2}]

\* `secondsight analyze` exits 0, 1 or 2, or goes on with its batch.
LEMMA CliReturnsType ==
  ASSUME TypeOK, NEW c \in Clis, NEW s, NEW reason,
         CliReturns(c, s, reason)
  PROVE  cli' \in [Clis -> CliType]
<1> DEFINE failed == cli[c].failed \/ reason \notin Dispatched
           todo == cli[c].todo \ {s}
           exit == IF ~cli[c].retry THEN ExitCode(reason)
                 ELSE IF todo = {} THEN BatchCode(failed) ELSE cli[c].exit
           r == [retry |-> cli[c].retry, todo |-> todo, failed |-> failed, exit |-> exit]
<1>1. cli \in [Clis -> CliType] /\ cli[c] \in CliType
  BY DEF TypeOK, CliType
<1>2. failed \in BOOLEAN /\ todo \in SUBSET Sessions /\ cli[c].retry \in BOOLEAN
  BY <1>1 DEF CliType
<1>3. ExitCode(reason) \in {0, 1, 2} /\ BatchCode(failed) \in {0, 1, 2}
  BY <1>2 DEF ExitCode, BatchCode
<1>4. exit \in {None, 0, 1, 2}
  BY <1>1, <1>3 DEF CliType
<1>5. r \in CliType
  BY <1>2, <1>4 DEF CliType
<1>6. cli' = [cli EXCEPT ![c] = r]
  BY DEF CliReturns
<1> QED
  BY <1>1, <1>5, <1>6

\* Whatever Trigger.dispatch returns, its caller's state keeps its type.
LEMMA ReturnTypes ==
  ASSUME TypeOK, NEW a \in Actors, NEW reason, Return(a, reason),
         runs' \in Seq(Run), RunIds' = RunIds, UNCHANGED <<report, backup, hasEvents>>,
         output' \in [Sessions -> {"none", "success", "failure"}],
         active' \in [Processes -> SUBSET Sessions], faults' \in 0..MaxFaults
  PROVE  TypeOK'
<1>1. TaskTypes'
  BY ResetTypes DEF Return
<1>2. cli' \in [Clis -> CliType]
  <2>1. CASE a \in Clis
    BY <2>1, CliReturnsType DEF Return
  <2>2. CASE a \notin Clis
    BY <2>2 DEF Return, TypeOK, CliType
  <2> QED
    BY <2>1, <2>2
<1>3. loop' \in ServerTasks \cup {None}
  BY DEF Return, TypeOK, ServerTasks
<1>4. UNCHANGED <<quiet, up, materialised, scan, inMemory, ingests, calls>>
  BY DEF Return, serverVars
<1> QED
  BY <1>1, <1>2, <1>3, <1>4 DEF TypeOK, TaskTypes, CliType

\* The checks of Trigger.dispatch, and accepting a session.
LEMMA DecidingTypes ==
  ASSUME IInv, NEW a \in Actors,
         RefuseLockHeld(a) \/ RefuseInFlight(a) \/ RefuseAnalyzed(a) \/ LookupFails(a) \/ Accept(a)
  PROVE  TypeOK'
<1>1. ASSUME NEW reason, Refuse(a, reason) PROVE TypeOK'
  <2>1. UNCHANGED <<runs, report, backup, output, hasEvents, active, faults>>
    BY <1>1 DEF Refuse, dbVars
  <2>2. RunIds' = RunIds
    BY <2>1 DEF RunIds
  <2> QED
    BY <1>1, <2>1, <2>2, ReturnTypes DEF IInv, TypeOK, Refuse
<1>2. CASE Accept(a)
  BY <1>2 DEF IInv, TypeOK, Accept, At, GoTo, ProcessOf, Actors, Processes, ServerTasks,
              ProgramCounters, InDispatch, Registered, RunIds, dbVars, serverVars, budgetVars
<1>3. CASE RefuseLockHeld(a)
  BY <1>1, <1>3 DEF RefuseLockHeld
<1>4. CASE RefuseInFlight(a)
  BY <1>1, <1>4 DEF RefuseInFlight
<1>5. CASE RefuseAnalyzed(a)
  BY <1>1, <1>5 DEF RefuseAnalyzed
<1>6. CASE LookupFails(a)
  <2>1. UNCHANGED <<runs, report, backup, output, hasEvents, active>>
    BY <1>6 DEF LookupFails, dbVars
  <2>2. RunIds' = RunIds
    BY <2>1 DEF RunIds
  <2>3. faults' \in 0..MaxFaults
    BY <1>6, ConstantsAssumption DEF IInv, TypeOK, LookupFails, Fault
  <2> QED
    BY <1>6, <2>1, <2>2, <2>3, ReturnTypes DEF IInv, TypeOK, LookupFails
<1> QED
  BY <1>2, <1>3, <1>4, <1>5, <1>6

\* The steps that write the stage of the run a coroutine owns.
LEMMA StageTypes ==
  ASSUME IInv, NEW a \in Actors,
         Segment(a) \/ BehaviorDone(a) \/ SummaryWritten(a) \/ RecordFailure(a)
  PROVE  TypeOK'
<1>1. run[a] \in RunIds
  BY DEF IInv, TypeOK, Owned, InPipeline, Segment, BehaviorDone, SummaryWritten, RecordFailure, At
<1>2. runs' \in Seq(Run) /\ RunIds' = RunIds
  BY <1>1, SetStageLemma
  DEF IInv, TypeOK, Stages, Segment, BehaviorDone, SummaryWritten, RecordFailure
<1>3. UNCHANGED <<report, backup, output, hasEvents, quiet, up, materialised, scan, active,
                  inMemory, job, force, run, attempted, cli, ingests, calls, faults>>
  BY DEF Segment, BehaviorDone, SummaryWritten, RecordFailure, Quietly, serverVars, triggerVars
<1>4. /\ pc' \in [Actors -> ProgramCounters] /\ loop' \in ServerTasks \cup {None}
      /\ status' \in [Actors -> {"none", "success", "failure"}]
  BY DEF IInv, TypeOK, Actors, ProgramCounters, InDispatch, Segment, BehaviorDone,
         SummaryWritten, RecordFailure, GoTo, Await, Outcome
<1> QED
  BY <1>2, <1>3, <1>4 DEF IInv, TypeOK

\* Inserting a run, whose id is from then on its owner's.
LEMMA StartRunTypes ==
  ASSUME IInv, NEW a \in Actors, StartRun(a)
  PROVE  TypeOK'
<1>1. runs' \in Seq(Run) /\ RunIds' = RunIds \cup {Len(runs) + 1}
  BY StartRunLemma DEF IInv, Registered, StartRun, At
<1>2. UNCHANGED <<report, backup, output, hasEvents, quiet, up, materialised, scan, active,
                  inMemory, job, force, attempted, status, cli, ingests, calls, faults>>
  BY DEF StartRun, Quietly, serverVars, triggerVars
<1>3. /\ pc' \in [Actors -> ProgramCounters] /\ loop' \in ServerTasks \cup {None}
      /\ run' \in [Actors -> RunIds' \cup {0}]
  BY <1>1 DEF IInv, TypeOK, Actors, ProgramCounters, InDispatch, StartRun, GoTo
<1> QED
  BY <1>1, <1>2, <1>3 DEF IInv, TypeOK

\* The other steps of the pipeline: no row of analysis_runs is written.
LEMMA PipelineTypes ==
  ASSUME IInv, NEW a \in Actors,
         \/ SessionIncomplete(a) \/ StartRunFails(a) \/ AnalyzeSegment(a)
         \/ Summarize(a) \/ WriteBackup(a) \/ AnalysisComplete(a) \/ Aggregate(a)
         \/ PipelineRaises(a) \/ RecordFailureFails(a)
  PROVE  TypeOK'
<1>1. UNCHANGED <<runs, output, up, materialised, scan, active, inMemory, job, force, run,
                  cli, ingests, calls>>
  BY DEF SessionIncomplete, StartRunFails, AnalyzeSegment, Summarize, WriteBackup,
         AnalysisComplete, Aggregate, PipelineRaises, RecordFailureFails,
         Quietly, dbVars, serverVars, triggerVars, budgetVars, Fault
<1>2. RunIds' = RunIds
  BY <1>1 DEF RunIds
<1>3. pc' \in [Actors -> ProgramCounters] /\ loop' \in ServerTasks \cup {None}
  BY DEF IInv, TypeOK, Actors, ProgramCounters, InDispatch, SessionIncomplete, StartRunFails,
         AnalyzeSegment, Summarize, WriteBackup, AnalysisComplete, Aggregate, PipelineRaises,
         RecordFailureFails, GoTo, Await
<1>4. status' \in [Actors -> {"none", "success", "failure"}] /\ attempted' \in [Actors -> BOOLEAN]
  BY DEF IInv, TypeOK, SessionIncomplete, StartRunFails, AnalyzeSegment, Summarize, WriteBackup,
         AnalysisComplete, Aggregate, PipelineRaises, RecordFailureFails, Outcome
<1>5. faults' \in 0..MaxFaults
  BY ConstantsAssumption
  DEF IInv, TypeOK, SessionIncomplete, StartRunFails, AnalyzeSegment, Summarize, WriteBackup,
      AnalysisComplete, Aggregate, PipelineRaises, RecordFailureFails, Fault, budgetVars
<1>6. hasEvents' \in [Sessions -> BOOLEAN] /\ quiet' \in [Sessions -> BOOLEAN]
  BY DEF IInv, TypeOK, SessionIncomplete, StartRunFails, AnalyzeSegment, Summarize, WriteBackup,
         AnalysisComplete, Cleanup, Aggregate, PipelineRaises, RecordFailureFails, Quietly, dbVars
<1>7. report' \in [Sessions -> RunIds \cup {0}] /\ backup' \in [Sessions -> RunIds \cup {0}]
  BY DEF IInv, TypeOK, SessionIncomplete, StartRunFails, AnalyzeSegment, Summarize, WriteBackup,
         AnalysisComplete, Cleanup, Aggregate, PipelineRaises, RecordFailureFails, dbVars
<1> QED
  BY <1>1, <1>2, <1>3, <1>4, <1>5, <1>6, <1>7 DEF IInv, TypeOK

\* Persisting the output, and releasing both locks.
LEMMA PersistOutputTypes ==
  ASSUME IInv, NEW a \in Actors, PersistOutput(a)
  PROVE  TypeOK'
<1>1. UNCHANGED <<runs, report, backup, hasEvents>> /\ RunIds' = RunIds
  BY DEF PersistOutput, RunIds
<1>2. status[a] \in {"success", "failure"}
  BY DEF IInv, TypeOK, Settled, PersistOutput, At
<1>3. output' \in [Sessions -> {"none", "success", "failure"}]
  BY <1>2 DEF IInv, TypeOK, PersistOutput
<1>4. active' \in [Processes -> SUBSET Sessions]
  BY DEF IInv, TypeOK, PersistOutput
<1>5. faults' \in 0..MaxFaults
  BY ConstantsAssumption DEF IInv, TypeOK, PersistOutput, Fault
<1>6. PICK reason : Return(a, reason)
  BY DEF PersistOutput
<1> QED
  BY <1>1, <1>3, <1>4, <1>5, <1>6, ReturnTypes DEF IInv, TypeOK

\* Ingest, the sweeper's scan, the CLI's calls, restarts and the clocks.
LEMMA WorldTypes ==
  ASSUME IInv,
         \/ ServerStarts \/ TimePasses
         \/ \E c \in Clis : CliStarts(c)
  PROVE  TypeOK'
<1>1. ASSUME NEW s \in Sessions, ObserveEvent(s) PROVE TypeOK'
  BY <1>1, ConstantsAssumption DEF IInv, TypeOK, ObserveEvent, Observe, triggerVars, taskVars, RunIds
<1>2. ASSUME NEW t \in EventTasks, NEW s \in Sessions,
             ObserveSessionEnd(t, s) \/ ObserveSessionEndUnstored(t, s)
      PROVE  TypeOK'
  <2>1. UNCHANGED <<runs, report, backup, output, up, loop, scan, active, inMemory, run,
                    attempted, status, cli, calls>>
    BY <1>2 DEF ObserveSessionEnd, ObserveSessionEndUnstored, Observe, Call, dbVars, triggerVars
  <2>2. /\ hasEvents' \in [Sessions -> BOOLEAN] /\ quiet' \in [Sessions -> BOOLEAN]
        /\ materialised' = TRUE
    BY <1>2 DEF IInv, TypeOK, ObserveSessionEnd, ObserveSessionEndUnstored, Observe, dbVars
  <2>3. ingests' \in 0..MaxIngests /\ faults' \in 0..MaxFaults
    <3>1. CASE ObserveSessionEnd(t, s)
      BY <3>1, ConstantsAssumption DEF IInv, TypeOK, ObserveSessionEnd, Observe
    <3>2. CASE ObserveSessionEndUnstored(t, s)
      BY <3>2, ConstantsAssumption DEF IInv, TypeOK, ObserveSessionEndUnstored, Fault
    <3> QED
      BY <1>2, <3>1, <3>2
  <2>4. /\ pc' \in [Actors -> ProgramCounters] /\ job' \in [Actors -> Sessions \cup {None}]
        /\ force' \in [Actors -> BOOLEAN]
    <3>1. t \in Actors
      BY DEF Actors, ServerTasks
    <3>2. pc' = [pc EXCEPT ![t] = "enter"] /\ Call(t, s, FALSE)
      BY <1>2 DEF ObserveSessionEnd, ObserveSessionEndUnstored
    <3> QED
      BY <3>1, <3>2 DEF IInv, TypeOK, ProgramCounters, Call
  <2> QED
    BY <2>1, <2>2, <2>3, <2>4 DEF IInv, TypeOK, RunIds
<1>3. ASSUME NEW s \in Sessions, SweepSkip(s) PROVE TypeOK'
  BY <1>3, ConstantsAssumption
  DEF IInv, TypeOK, SweepSkip, KeepSweeping, Fault, ServerTasks, RunIds,
      dbVars, triggerVars, taskVars
<1>4. ASSUME NEW s \in Sessions, SweepDispatch(s) PROVE TypeOK'
  BY <1>4 DEF IInv, TypeOK, SweepDispatch, GoTo, Call, Actors, ServerTasks, ProgramCounters,
              RunIds, dbVars, triggerVars, budgetVars
<1>5. CASE SweepTick \/ Restart \/ Materialise
  BY <1>5 DEF IInv, TypeOK, SweepTick, KeepSweeping, Restart, Materialise, ServerTasks, RunIds,
              dbVars, serverVars, triggerVars, taskVars, budgetVars
<1>6. ASSUME NEW c \in Clis, NEW s \in Sessions, NEW f \in BOOLEAN, CliAnalyze(c, s, f) PROVE TypeOK'
  BY <1>6, ConstantsAssumption
  DEF IInv, TypeOK, CliAnalyze, Call, Actors, ProgramCounters, RunIds,
      dbVars, serverVars, triggerVars
<1>7. ASSUME NEW c \in Clis, CliRetryFailed(c) PROVE TypeOK'
  <2> DEFINE todo == {runs[i].session : i \in {j \in RunIds : runs[j].stage = "failed"}}
  <2>1. todo \in SUBSET Sessions
    <3>1. \A i \in RunIds : runs[i] \in Run
      BY DEF IInv, TypeOK, RunIds
    <3> QED
      BY <3>1 DEF Run
  <2> HIDE DEF todo
  <2>2. cli' \in [Clis -> CliType]
    BY <1>7, <2>1 DEF IInv, TypeOK, CliType, CliRetryFailed, todo
  <2> QED
    BY <1>7, <2>2, ConstantsAssumption
    DEF IInv, TypeOK, CliType, CliRetryFailed, RunIds, dbVars, serverVars, triggerVars, taskVars
<1>8. ASSUME NEW c \in Clis, CliRetryNext(c) PROVE TypeOK'
  <2>1. PICK s \in cli[c].todo :
               pc' = [pc EXCEPT ![c] = "enter"] /\ Call(c, s, TRUE)
    BY <1>8 DEF CliRetryNext
  <2>2. s \in Sessions
    BY DEF IInv, TypeOK
  <2> QED
    BY <1>8, <2>1, <2>2 DEF IInv, TypeOK, CliRetryNext, Call, Actors, ProgramCounters, RunIds,
                            dbVars, serverVars, triggerVars, budgetVars
<1>9. ASSUME NEW i \in RunIds, AgeRun(i) PROVE TypeOK'
  <2>1. runs' \in Seq(Run) /\ RunIds' = RunIds
    BY <1>9, AgeRunLemma DEF IInv, TypeOK
  <2> QED
    BY <1>9, <2>1 DEF IInv, TypeOK, AgeRun, serverVars, triggerVars, taskVars, budgetVars
<1>10. ASSUME NEW s \in Sessions, GoQuiet(s) \/ ForgetDispatch(s) PROVE TypeOK'
  BY <1>10 DEF IInv, TypeOK, GoQuiet, ForgetDispatch, RunIds,
               dbVars, serverVars, triggerVars, taskVars, budgetVars
<1> QED
  BY <1>1, <1>2, <1>3, <1>4, <1>5, <1>6, <1>7, <1>8, <1>9, <1>10
  DEF ServerStarts, TimePasses, CliStarts

\* The death of a process.
LEMMA DeathTypes ==
  ASSUME IInv, ServerCrash \/ \E c \in Clis : CliKilled(c)
  PROVE  TypeOK'
<1>1. ASSUME NEW p \in Processes, NEW A \in SUBSET Actors, Dies(p, A) PROVE
        TaskTypes' /\ faults' \in 0..MaxFaults /\ active' \in [Processes -> SUBSET Sessions]
  <2>1. RunIds' = RunIds
    BY <1>1 DEF Dies, dbVars, RunIds
  <2>2. TaskTypes'
    BY <1>1, <2>1, ResetTypes DEF Dies, IInv
  <2> QED
    BY <1>1, <2>2, ConstantsAssumption DEF IInv, TypeOK, Dies, Fault
<1>2. CASE ServerCrash
  <2>1. Dies(Server, ServerTasks) /\ Server \in Processes /\ ServerTasks \subseteq Actors
    BY <1>2 DEF ServerCrash, Processes, Actors
  <2> QED
    BY <1>1, <1>2, <2>1 DEF IInv, TypeOK, TaskTypes, ServerCrash, Dies, dbVars, RunIds
<1>3. ASSUME NEW c \in Clis, CliKilled(c) PROVE TypeOK'
  <2>1. Dies(c, {c}) /\ c \in Processes /\ c \in Actors
    BY <1>3 DEF CliKilled, Processes, Actors
  <2>2. cli' \in [Clis -> CliType]
    <3> DEFINE r == [cli[c] EXCEPT !.todo = {}]
    <3>1. cli \in [Clis -> CliType]
      BY DEF IInv, TypeOK, CliType
    <3>2. r \in CliType
      BY <3>1 DEF CliType
    <3>3. cli' = [cli EXCEPT ![c] = r]
      BY <1>3 DEF CliKilled
    <3> HIDE DEF r
    <3> QED
      BY <3>1, <3>2, <3>3
  <2> QED
    BY <1>1, <1>3, <2>1, <2>2
    DEF IInv, TypeOK, TaskTypes, CliType, CliKilled, Dies, dbVars, serverVars, RunIds
<1> QED
  BY <1>2, <1>3

\* Every step keeps the types; the invariant's other parts say that a run id is set.
LEMMA TypePreserved == IInv /\ [Next]_vars => TypeOK'
<1> SUFFICES ASSUME IInv, [Next]_vars PROVE TypeOK'
  OBVIOUS
<1>1. ASSUME NEW a \in Actors, Dispatch(a) PROVE TypeOK'
  BY <1>1, DecidingTypes, StageTypes, StartRunTypes, PipelineTypes, PersistOutputTypes
  DEF Dispatch
<1>2. CASE UNCHANGED vars
  BY <1>2 DEF IInv, TypeOK, RunIds, vars, dbVars, serverVars, triggerVars, taskVars, budgetVars
<1> QED
  BY <1>1, <1>2, WorldTypes, DeathTypes DEF Next

-----------------------------------------------------------------------------
(* The registry.                                                           *)

\* A step of Orchestrator.analyze_and_aggregate or of its caller's handlers.
Pipeline(a) ==
  \/ SessionIncomplete(a) \/ StartRun(a) \/ StartRunFails(a)
  \/ Segment(a) \/ AnalyzeSegment(a) \/ BehaviorDone(a)
  \/ Summarize(a) \/ WriteBackup(a) \/ SummaryWritten(a)
  \/ AnalysisComplete(a) \/ Aggregate(a)
  \/ PipelineRaises(a) \/ RecordFailure(a) \/ RecordFailureFails(a)

\* It stays within the dispatch it is part of.
LEMMA PipelineStays ==
  ASSUME NEW a \in Actors, Pipeline(a)
  PROVE  /\ pc[a] \in InDispatch
         /\ \E w \in InDispatch : pc' = [pc EXCEPT ![a] = w]
         /\ UNCHANGED <<job, active>>
  BY DEF Pipeline, SessionIncomplete, StartRun, StartRunFails, Segment, AnalyzeSegment,
         BehaviorDone, Summarize, WriteBackup, SummaryWritten, AnalysisComplete, Aggregate,
         PipelineRaises, RecordFailure, RecordFailureFails, At, GoTo, Await, InDispatch,
         Quietly, triggerVars

\* What starts a coroutine on a session: a callback, the sweep, the CLI.
Starts(a, s, f) ==
  /\ pc[a] = "idle"
  /\ pc' = [pc EXCEPT ![a] = "enter"]
  /\ Call(a, s, f)

\* Every other step of the system leaves the coroutines as they are, or starts
\* one; it changes neither the registry nor the stage of a run.
LEMMA WorldStarts ==
  ASSUME IInv, ServerStarts \/ TimePasses \/ \E c \in Clis : CliStarts(c)
  PROVE  /\ \/ UNCHANGED taskVars
            \/ \E a \in Actors, s \in Sessions, f \in BOOLEAN : Starts(a, s, f)
         /\ UNCHANGED active
<1>1. ASSUME NEW s \in Sessions, ObserveEvent(s) \/ SweepSkip(s) \/ GoQuiet(s) \/ ForgetDispatch(s)
      PROVE  UNCHANGED taskVars /\ UNCHANGED active
  BY <1>1 DEF ObserveEvent, SweepSkip, GoQuiet, ForgetDispatch, triggerVars
<1>2. ASSUME NEW t \in EventTasks, NEW s \in Sessions,
             ObserveSessionEnd(t, s) \/ ObserveSessionEndUnstored(t, s)
      PROVE  t \in Actors /\ Starts(t, s, FALSE) /\ UNCHANGED active
  BY <1>2 DEF ObserveSessionEnd, ObserveSessionEndUnstored, Starts, Actors, ServerTasks, triggerVars
<1>3. ASSUME NEW s \in Sessions, SweepDispatch(s)
      PROVE  Sweeper \in Actors /\ Starts(Sweeper, s, FALSE) /\ UNCHANGED active
  BY <1>3 DEF SweepDispatch, GoTo, At, Starts, Actors, ServerTasks, triggerVars
<1>4. CASE SweepTick \/ Restart \/ Materialise
  BY <1>4 DEF SweepTick, Restart, Materialise, triggerVars
<1>5. ASSUME NEW c \in Clis, NEW s \in Sessions, NEW f \in BOOLEAN, CliAnalyze(c, s, f)
      PROVE  c \in Actors /\ Starts(c, s, f) /\ UNCHANGED active
  BY <1>5 DEF CliAnalyze, Starts, Actors, triggerVars
<1>6. ASSUME NEW c \in Clis, CliRetryFailed(c)
      PROVE  UNCHANGED taskVars /\ UNCHANGED active
  BY <1>6 DEF CliRetryFailed, triggerVars
<1>7. ASSUME NEW c \in Clis, CliRetryNext(c)
      PROVE  c \in Actors /\ (\E s \in Sessions : Starts(c, s, TRUE)) /\ UNCHANGED active
  <2>1. PICK s \in cli[c].todo : pc' = [pc EXCEPT ![c] = "enter"] /\ Call(c, s, TRUE)
    BY <1>7 DEF CliRetryNext
  <2>2. s \in Sessions
    BY DEF IInv, TypeOK
  <2> QED
    BY <1>7, <2>1, <2>2 DEF CliRetryNext, Starts, Actors, triggerVars
<1>8. ASSUME NEW i \in RunIds, AgeRun(i)
      PROVE  UNCHANGED taskVars /\ UNCHANGED active
  BY <1>8 DEF AgeRun, triggerVars
<1> QED
  BY <1>1, <1>2, <1>3, <1>4, <1>5, <1>6, <1>7, <1>8 DEF ServerStarts, TimePasses, CliStarts

\* Outside the pipeline nobody writes a row's session or stage, a report or an output.
LEMMA WorldKeepsRuns ==
  ASSUME IInv, ServerStarts \/ TimePasses \/ \E c \in Clis : CliStarts(c)
  PROVE  /\ RunIds' = RunIds
         /\ \A j \in RunIds : /\ runs'[j].session = runs[j].session
                              /\ runs'[j].stage = runs[j].stage
         /\ UNCHANGED <<report, backup, output>>
         /\ faults' = 0 => faults = 0
<1>1. CASE ServerStarts \/ \E c \in Clis : CliStarts(c)
  <2>1. UNCHANGED <<runs, report, backup, output>>
    BY <1>1 DEF ServerStarts, CliStarts, ObserveEvent, SweepSkip, SweepDispatch, ObserveSessionEnd,
                ObserveSessionEndUnstored, SweepTick, Restart, Materialise, CliAnalyze,
                CliRetryFailed, CliRetryNext, dbVars
  <2>2. UNCHANGED faults \/ Fault
    BY <1>1 DEF ServerStarts, CliStarts, ObserveEvent, SweepSkip, SweepDispatch, ObserveSessionEnd,
                ObserveSessionEndUnstored, SweepTick, Restart, Materialise, CliAnalyze,
                CliRetryFailed, CliRetryNext, budgetVars
  <2> QED
    BY <2>1, <2>2 DEF Fault, RunIds, IInv, TypeOK
<1>2. ASSUME NEW s \in Sessions, GoQuiet(s) \/ ForgetDispatch(s)
      PROVE  UNCHANGED <<runs, report, backup, output, faults>>
  BY <1>2 DEF GoQuiet, ForgetDispatch, dbVars, budgetVars
<1>3. ASSUME NEW i \in RunIds, AgeRun(i)
      PROVE  /\ RunIds' = RunIds
             /\ \A j \in RunIds : /\ runs'[j].session = runs[j].session
                                  /\ runs'[j].stage = runs[j].stage
             /\ UNCHANGED <<report, backup, output, faults>>
  BY <1>3, AgeRunLemma DEF IInv, TypeOK, AgeRun, budgetVars
<1> QED
  BY <1>1, <1>2, <1>3 DEF TimePasses, RunIds

\* A coroutine enters the registry before it dispatches and leaves it on its return:
\* two of one process never dispatch the same session.
LEMMA RegisteredPreserved == IInv /\ [Next]_vars => Registered'
<1> SUFFICES ASSUME IInv, [Next]_vars PROVE Registered'
  OBVIOUS
<1> USE DEF Registered, Dispatching, ExclusiveDispatch
<1>1. ASSUME NEW a \in Actors, Pipeline(a) PROVE Registered'
  BY <1>1, PipelineStays DEF IInv, TypeOK, InDispatch
<1>2. ASSUME NEW a \in Actors,
             RefuseLockHeld(a) \/ RefuseInFlight(a) \/ RefuseAnalyzed(a) \/ LookupFails(a)
      PROVE  Registered'
  <2>1. Reset({a}) /\ UNCHANGED active
    BY <1>2 DEF RefuseLockHeld, RefuseInFlight, RefuseAnalyzed, LookupFails, Refuse, Return
  <2> QED
    BY <2>1 DEF IInv, TypeOK, Reset, InDispatch
<1>3. ASSUME NEW a \in Actors, Accept(a) PROVE Registered'
  <2>1. /\ pc[a] = "enter" /\ job[a] \in Sessions /\ job[a] \notin active[ProcessOf(a)]
        /\ pc' = [pc EXCEPT ![a] = "begin"] /\ UNCHANGED job
        /\ active' = [active EXCEPT ![ProcessOf(a)] = @ \cup {job[a]}]
    BY <1>3 DEF IInv, Accept, At, LockFree, GoTo
  <2>2. \A b \in Actors : ProcessOf(b) \in Processes
    BY DEF ProcessOf, Processes
  <2> QED
    BY <2>1, <2>2 DEF IInv, TypeOK, InDispatch
<1>4. ASSUME NEW a \in Actors, PersistOutput(a) PROVE Registered'
  <2>1. /\ pc[a] = "output" /\ Reset({a})
        /\ active' = [active EXCEPT ![ProcessOf(a)] = @ \ {job[a]}]
    BY <1>4 DEF PersistOutput, Return, At
  <2>2. \A b \in Actors : ProcessOf(b) \in Processes
    BY DEF ProcessOf, Processes
  <2> QED
    BY <2>1, <2>2 DEF IInv, TypeOK, Reset, InDispatch
<1>5. CASE ServerStarts \/ TimePasses \/ \E c \in Clis : CliStarts(c)
  <2>1. CASE UNCHANGED taskVars /\ UNCHANGED active
    BY <2>1 DEF IInv, taskVars
  <2>2. ASSUME NEW a \in Actors, NEW t \in Sessions, NEW f \in BOOLEAN,
               Starts(a, t, f), UNCHANGED active
        PROVE  Registered'
    BY <2>2 DEF IInv, TypeOK, Starts, Call, InDispatch
  <2> QED
    BY <1>5, <2>1, <2>2, WorldStarts
<1>6. CASE ServerCrash
  <2>1. Reset(ServerTasks) /\ active' = [active EXCEPT ![Server] = {}]
    BY <1>6 DEF ServerCrash, Dies
  <2>2. \A b \in Actors \ ServerTasks : ProcessOf(b) # Server
    BY ConstantsAssumption DEF ProcessOf, Actors
  <2> QED
    BY <2>1, <2>2 DEF IInv, TypeOK, Reset, InDispatch
<1>7. ASSUME NEW c \in Clis, CliKilled(c) PROVE Registered'
  <2>1. Reset({c}) /\ active' = [active EXCEPT ![c] = {}]
    BY <1>7 DEF CliKilled, Dies
  <2>2. \A b \in Actors \ {c} : ProcessOf(b) # c
    BY ConstantsAssumption DEF ProcessOf
  <2> QED
    BY <2>1, <2>2 DEF IInv, TypeOK, Reset, InDispatch
<1>8. CASE UNCHANGED vars
  BY <1>8 DEF IInv, vars, taskVars, triggerVars
<1> QED
  BY <1>1, <1>2, <1>3, <1>4, <1>5, <1>6, <1>7, <1>8
  DEF Next, Dispatch, Pipeline

\* A dispatch that ends, or dies with its process, takes its session out of the registry.
LEMMA NoStaleLockPreserved == IInv /\ [Next]_vars => NoStaleLock'
<1> SUFFICES ASSUME IInv, [Next]_vars PROVE NoStaleLock'
  OBVIOUS
<1> USE DEF NoStaleLock, Dispatching
\* Who dispatched still does.
<1>1. ASSUME UNCHANGED active,
             \A b \in Actors : pc[b] \in InDispatch => pc'[b] \in InDispatch /\ job'[b] = job[b]
      PROVE  NoStaleLock'
  BY <1>1 DEF IInv
<1>2. ASSUME NEW a \in Actors, Pipeline(a) PROVE NoStaleLock'
  BY <1>1, <1>2, PipelineStays DEF IInv, TypeOK
<1>3. ASSUME NEW a \in Actors,
             RefuseLockHeld(a) \/ RefuseInFlight(a) \/ RefuseAnalyzed(a) \/ LookupFails(a)
      PROVE  NoStaleLock'
  <2>1. Reset({a}) /\ UNCHANGED active /\ pc[a] \notin InDispatch
    BY <1>3 DEF RefuseLockHeld, RefuseInFlight, RefuseAnalyzed, LookupFails, Refuse, Return, At,
                InDispatch
  <2> QED
    BY <1>1, <2>1 DEF Reset
<1>4. ASSUME NEW a \in Actors, Accept(a) PROVE NoStaleLock'
  <2>1. /\ pc' = [pc EXCEPT ![a] = "begin"] /\ UNCHANGED job /\ "begin" \in InDispatch
        /\ active' = [active EXCEPT ![ProcessOf(a)] = @ \cup {job[a]}]
    BY <1>4 DEF Accept, GoTo, InDispatch
  <2>2. \A b \in Actors : pc'[b] = IF b = a THEN "begin" ELSE pc[b]
    BY <2>1 DEF IInv, TypeOK
  <2> QED
    BY <2>1, <2>2 DEF IInv, TypeOK
<1>5. ASSUME NEW a \in Actors, PersistOutput(a) PROVE NoStaleLock'
  <2>1. /\ Reset({a})
        /\ active' = [active EXCEPT ![ProcessOf(a)] = @ \ {job[a]}]
    BY <1>5 DEF PersistOutput, Return
  <2>2. \A b \in Actors \ {a} : pc'[b] = pc[b] /\ job'[b] = job[b]
    BY <2>1 DEF Reset
  <2>3. ASSUME NEW p \in Processes, NEW s \in active'[p]
        PROVE  \E b \in Actors \ {a} : pc[b] \in InDispatch /\ ProcessOf(b) = p /\ job[b] = s
    <3>1. s \in active[p] /\ (p = ProcessOf(a) => s # job[a])
      BY <2>1, <2>3 DEF IInv, TypeOK
    <3>2. PICK b \in Actors : pc[b] \in InDispatch /\ ProcessOf(b) = p /\ job[b] = s
      BY <3>1 DEF IInv
    <3> QED
      BY <3>1, <3>2
  <2> QED
    BY <2>2, <2>3
<1>6. CASE ServerStarts \/ TimePasses \/ \E c \in Clis : CliStarts(c)
  <2>1. CASE UNCHANGED taskVars /\ UNCHANGED active
    BY <1>1, <2>1 DEF taskVars
  <2>2. ASSUME NEW a \in Actors, NEW t \in Sessions, NEW f \in BOOLEAN,
               Starts(a, t, f), UNCHANGED active
        PROVE  NoStaleLock'
    BY <1>1, <2>2 DEF IInv, TypeOK, Starts, Call, InDispatch
  <2> QED
    BY <1>6, <2>1, <2>2, WorldStarts
\* A process dies with its registry.
<1>7. ASSUME NEW q \in Processes, NEW A \in SUBSET Actors, Reset(A),
             \A b \in A : ProcessOf(b) = q, active' = [active EXCEPT ![q] = {}]
      PROVE  NoStaleLock'
  <2>1. \A b \in Actors \ A : pc'[b] = pc[b] /\ job'[b] = job[b]
    BY <1>7 DEF Reset
  <2>2. ASSUME NEW p \in Processes, NEW s \in active'[p]
        PROVE  \E b \in Actors \ A : pc[b] \in InDispatch /\ ProcessOf(b) = p /\ job[b] = s
    <3>1. s \in active[p] /\ p # q
      BY <1>7, <2>2 DEF IInv, TypeOK
    <3> QED
      BY <1>7, <3>1 DEF IInv
  <2> QED
    BY <2>1, <2>2
<1>8. CASE ServerCrash
  <2>1. /\ Reset(ServerTasks) /\ active' = [active EXCEPT ![Server] = {}]
        /\ ServerTasks \subseteq Actors /\ Server \in Processes
    BY <1>8 DEF ServerCrash, Dies, Actors, Processes
  <2>2. \A b \in ServerTasks : ProcessOf(b) = Server
    BY ConstantsAssumption DEF ProcessOf
  <2> QED
    BY <1>7, <2>1, <2>2
<1>9. ASSUME NEW c \in Clis, CliKilled(c) PROVE NoStaleLock'
  <2>1. /\ Reset({c}) /\ active' = [active EXCEPT ![c] = {}]
        /\ {c} \subseteq Actors /\ c \in Processes
    BY <1>9 DEF CliKilled, Dies, Actors, Processes
  <2>2. ProcessOf(c) = c
    BY ConstantsAssumption DEF ProcessOf
  <2> QED
    BY <1>7, <2>1, <2>2
<1>10. CASE UNCHANGED vars
  BY <1>1, <1>10 DEF vars, taskVars, triggerVars
<1> QED
  BY <1>2, <1>3, <1>4, <1>5, <1>6, <1>8, <1>9, <1>10 DEF Next, Dispatch, Pipeline

-----------------------------------------------------------------------------
(* The runs and their owners.                                              *)

\* A run is advanced by the coroutine that started it, and by no other.
LEMMA OwnedPreserved == IInv /\ [Next]_vars => Owned'
<1> SUFFICES ASSUME IInv, [Next]_vars PROVE Owned'
  OBVIOUS
<1> USE DEF Owned
<1>1. ASSUME NEW a \in Actors, SessionIncomplete(a) PROVE Owned'
  BY <1>1 DEF IInv, TypeOK, SessionIncomplete, At, GoTo, Outcome, Quietly, InPipeline, dbVars
<1>2. ASSUME NEW a \in Actors, StartRunFails(a) PROVE Owned'
  BY <1>2 DEF IInv, TypeOK, StartRunFails, At, GoTo, Outcome, Quietly, InPipeline, dbVars
<1>3. ASSUME NEW a \in Actors, StartRun(a) PROVE Owned'
  <2>1. /\ Len(runs) + 1 \notin RunIds /\ Len(runs) + 1 # 0
        /\ \A j \in RunIds : runs'[j] = runs[j]
        /\ runs'[Len(runs) + 1].session = job[a] /\ runs'[Len(runs) + 1].stage = "pending"
    BY <1>3, StartRunLemma DEF IInv, TypeOK, Registered, StartRun, At, RunIds
  <2>2. /\ pc[a] = "begin" /\ pc' = [pc EXCEPT ![a] = "segment"]
        /\ run' = [run EXCEPT ![a] = Len(runs) + 1] /\ UNCHANGED <<job, status>>
    BY <1>3 DEF StartRun, At, GoTo, Quietly
  <2>3. \A b \in Actors : /\ pc'[b] = IF b = a THEN "segment" ELSE pc[b]
                          /\ run'[b] = IF b = a THEN Len(runs) + 1 ELSE run[b]
                          /\ run[b] \in RunIds \cup {0}
                          /\ job'[b] = job[b] /\ status'[b] = status[b]
    BY <2>2 DEF IInv, TypeOK
  <2>4. \A b \in Actors : pc'[b] \in InPipeline =>
          /\ run'[b] # 0
          /\ runs'[run'[b]].session = job'[b]
          /\ runs'[run'[b]].stage \in StageAt[pc'[b]]
    <3>1. StageAt["segment"] = {"pending"}
      BY DEF StageAt
    <3> QED
      BY <2>1, <2>3, <3>1 DEF IInv
  <2>5. status[a] # "success"
    BY <2>2 DEF IInv
  <2> QED
    BY <2>1, <2>3, <2>4, <2>5 DEF IInv
<1>4. ASSUME NEW a \in Actors, NEW st \in Stages, NEW w,
             SetStage(run[a], st), pc[a] \in InPipeline,
             pc' = [pc EXCEPT ![a] = w], UNCHANGED <<job, run>>,
             \/ /\ UNCHANGED status
                /\ \/ w \in InPipeline /\ st \in StageAt[w]
                   \/ w = "callback" /\ st = "summary_written"
             \/ w = "output" /\ status' = [status EXCEPT ![a] = "failure"]
      PROVE  Owned'
  <2>1. run[a] \in RunIds
    BY <1>4 DEF IInv, TypeOK
  <2>2. \A j \in RunIds : /\ runs'[j].session = runs[j].session
                          /\ runs'[j].stage = IF j = run[a] THEN st ELSE runs[j].stage
    BY <1>4, <2>1, SetStageLemma DEF IInv, TypeOK
  <2>3. runs[run[a]].stage # "summary_written" 
    BY <1>4 DEF IInv, InPipeline, StageAt, Stages, TerminalStages
  <2>4. \A b \in Actors : /\ pc'[b] = IF b = a THEN w ELSE pc[b]
                          /\ run[b] \in RunIds \cup {0} /\ run'[b] = run[b] /\ job'[b] = job[b]
                          /\ run[b] = run[a] => b = a
                          /\ status'[b] # status[b] => b = a /\ w = "output" /\ status'[b] = "failure"
    BY <1>4, <2>1 DEF IInv, TypeOK, RunIds
  <2>5. \A b \in Actors : pc'[b] \in {"idle", "enter", "begin"} => run'[b] = 0
    BY <1>4, <2>4 DEF IInv, InPipeline
  <2>6. \A b \in Actors : pc'[b] \in InPipeline =>
          /\ run'[b] # 0
          /\ runs'[run'[b]].session = job'[b]
          /\ runs'[run'[b]].stage \in StageAt[pc'[b]]
    BY <1>4, <2>1, <2>2, <2>4 DEF IInv, InPipeline
  <2>7. ASSUME NEW b \in Actors, pc'[b] \in {"callback", "aggregate"} \/ status'[b] = "success"
        PROVE  run'[b] # 0 /\ runs'[run'[b]].session = job'[b] /\ runs'[run'[b]].stage = "summary_written"
    <3>1. CASE b = a
      BY <1>4, <2>1, <2>2, <2>3, <2>4, <2>7, <3>1 DEF IInv, InPipeline
    <3>2. CASE b # a
      BY <1>4, <2>2, <2>4, <2>7, <3>2 DEF IInv
    <3> QED
      BY <3>1, <3>2
  <2> QED
    BY <2>4, <2>5, <2>6, <2>7 DEF IInv
<1>5. ASSUME NEW a \in Actors, Segment(a) PROVE Owned'
  <2>1. "segmented" \in StageAt["analyze"] /\ "segmented" \in Stages
    BY DEF StageAt, Stages
  <2> QED
    BY <1>4, <1>5, <2>1 DEF Segment, At, Await, Quietly, InPipeline
<1>6. ASSUME NEW a \in Actors, BehaviorDone(a) PROVE Owned'
  <2>1. "behavior_done" \in StageAt["summarize"] /\ "behavior_done" \in Stages
    BY DEF StageAt, Stages
  <2> QED
    BY <1>4, <1>6, <2>1 DEF BehaviorDone, At, Await, Quietly, InPipeline
<1>7. ASSUME NEW a \in Actors, SummaryWritten(a) PROVE Owned'
  BY <1>4, <1>7 DEF SummaryWritten, At, GoTo, Quietly, InPipeline, Stages
<1>8. ASSUME NEW a \in Actors, RecordFailure(a) PROVE Owned'
  BY <1>4, <1>8 DEF RecordFailure, At, GoTo, Outcome, Quietly, InPipeline, Stages
\* A step of the pipeline that leaves the run where it is.
<1>9. ASSUME NEW a \in Actors, NEW w,
             pc[a] \in InPipeline, pc' = [pc EXCEPT ![a] = w], UNCHANGED <<runs, job, run>>,
             \/ w \in InPipeline /\ StageAt[pc[a]] \subseteq StageAt[w] /\ UNCHANGED status
             \/ w = "output" /\ status' = [status EXCEPT ![a] = "failure"]
      PROVE  Owned'
  <2>1. \A b \in Actors : /\ pc'[b] = IF b = a THEN w ELSE pc[b]
                          /\ status'[b] # status[b] => b = a /\ status'[b] = "failure"
    BY <1>9 DEF IInv, TypeOK
  <2> QED
    BY <1>9, <2>1 DEF IInv, InPipeline
<1>10. ASSUME NEW a \in Actors,
              AnalyzeSegment(a) \/ Summarize(a) \/ WriteBackup(a)
       PROVE  Owned'
  <2>1. /\ StageAt["analyze"] = {"segmented"} /\ StageAt["behavior"] = {"segmented"}
        /\ StageAt["summarize"] = {"behavior_done"} /\ StageAt["backup"] = {"behavior_done"}
        /\ StageAt["summary"] = {"behavior_done"}
    BY DEF StageAt
  <2>2. CASE AnalyzeSegment(a)
    BY <1>9, <2>1, <2>2 DEF AnalyzeSegment, At, GoTo, Await, Quietly, InPipeline
  <2>3. CASE Summarize(a)
    BY <1>9, <2>1, <2>3 DEF Summarize, At, GoTo, Quietly, InPipeline
  <2>4. CASE WriteBackup(a)
    BY <1>9, <2>1, <2>4 DEF WriteBackup, At, GoTo, Quietly, InPipeline
  <2> QED
    BY <1>10, <2>2, <2>3, <2>4
<1>11. ASSUME NEW a \in Actors, PipelineRaises(a) PROVE Owned'
  <2>1. pc[a] \in {"segment", "analyze", "behavior", "summarize", "backup", "summary"}
    BY <1>11 DEF PipelineRaises, At
  <2>2. StageAt[pc[a]] \subseteq StageAt["record"]
    BY <2>1 DEF StageAt, Stages, TerminalStages
  <2> QED
    BY <1>9, <1>11, <2>1, <2>2 DEF PipelineRaises, GoTo, Quietly, InPipeline, dbVars
<1>12. ASSUME NEW a \in Actors, RecordFailureFails(a) PROVE Owned'
  <2>1. /\ pc[a] = "record" /\ pc' = [pc EXCEPT ![a] = "output"]
        /\ UNCHANGED <<runs, job, run>> /\ status' = [status EXCEPT ![a] = "failure"]
    BY <1>12 DEF RecordFailureFails, At, GoTo, Outcome, Quietly, dbVars
  <2>2. pc[a] \in InPipeline
    BY <2>1 DEF InPipeline
  <2> HIDE DEF Owned
  <2> QED
    BY <1>9, <2>1, <2>2
\* From "callback" on the run is complete.
<1>13. ASSUME NEW a \in Actors, AnalysisComplete(a) \/ Aggregate(a) PROVE Owned'
  <2>1. /\ pc[a] \in {"callback", "aggregate"}
        /\ UNCHANGED <<runs, run, job>>
        /\ \E w \in {"aggregate", "output"} : pc' = [pc EXCEPT ![a] = w]
        /\ \E st : status' = [status EXCEPT ![a] = st]
    BY <1>13 DEF IInv, TypeOK, AnalysisComplete, Aggregate, At, Await, GoTo, Outcome, Quietly, dbVars
  <2>2. \A b \in Actors \ {a} : pc'[b] = pc[b] /\ status'[b] = status[b]
    BY <2>1 DEF IInv, TypeOK
  <2>3. pc'[a] \in {"aggregate", "output"}
    BY <2>1 DEF IInv, TypeOK
  <2> QED
    BY <2>1, <2>2, <2>3 DEF IInv, InPipeline
\* Coroutines that end, are killed, or start.
<1>14. ASSUME NEW A \in SUBSET Actors, Reset(A), UNCHANGED runs PROVE Owned'
  <2>1. \A b \in A : pc'[b] = "idle" /\ run'[b] = 0 /\ status'[b] = "none"
    BY <1>14 DEF Reset
  <2>2. \A b \in Actors \ A :
          pc'[b] = pc[b] /\ run'[b] = run[b] /\ status'[b] = status[b] /\ job'[b] = job[b]
    BY <1>14 DEF Reset
  <2> QED
    BY <1>14, <2>1, <2>2 DEF IInv, InPipeline
<1>15. ASSUME NEW a \in Actors,
              RefuseLockHeld(a) \/ RefuseInFlight(a) \/ RefuseAnalyzed(a) \/ LookupFails(a)
       PROVE  Owned'
  <2>1. Reset({a}) /\ UNCHANGED runs
    BY <1>15 DEF RefuseLockHeld, RefuseInFlight, RefuseAnalyzed, LookupFails, Refuse, Return, dbVars
  <2> QED
    BY <1>14, <2>1
<1>16. ASSUME NEW a \in Actors, PersistOutput(a) PROVE Owned'
  BY <1>14, <1>16 DEF PersistOutput, Return
<1>17. CASE ServerCrash \/ \E c \in Clis : CliKilled(c)
  <2>1. \E A \in SUBSET Actors : Reset(A) /\ UNCHANGED runs
    BY <1>17 DEF ServerCrash, CliKilled, Dies, Actors, dbVars
  <2> QED
    BY <1>14, <2>1
<1>18. ASSUME NEW a \in Actors, Accept(a) PROVE Owned'
  BY <1>18 DEF IInv, TypeOK, Accept, At, GoTo, InPipeline, dbVars
<1>19. ASSUME NEW a \in Actors, NEW s \in Sessions, NEW f \in BOOLEAN, Starts(a, s, f),
              \A j \in RunIds : /\ runs'[j].session = runs[j].session
                                /\ runs'[j].stage = runs[j].stage
       PROVE  Owned'
  <2>1. /\ pc[a] = "idle" /\ UNCHANGED <<run, status>>
        /\ \A b \in Actors : pc'[b] = IF b = a THEN "enter" ELSE pc[b]
        /\ \A b \in Actors \ {a} : job'[b] = job[b]
    BY <1>19 DEF IInv, TypeOK, Starts, Call
  <2>2. run[a] = 0
    BY <2>1 DEF IInv
  <2>3. \A b \in Actors : run[b] # 0 => run[b] \in RunIds
    BY DEF IInv, TypeOK
  <2> QED
    BY <1>19, <2>1, <2>2, <2>3 DEF IInv, InPipeline
<1>20. CASE ServerStarts \/ TimePasses \/ \E c \in Clis : CliStarts(c)
  <2>1. \A j \in RunIds : /\ runs'[j].session = runs[j].session
                          /\ runs'[j].stage = runs[j].stage
    BY <1>20, WorldKeepsRuns
  <2>2. CASE UNCHANGED taskVars
    <3>1. \A b \in Actors : run[b] # 0 => run[b] \in RunIds
      BY DEF IInv, TypeOK
    <3> QED
      BY <2>1, <2>2, <3>1 DEF IInv, taskVars
  <2> QED
    BY <1>19, <1>20, <2>1, <2>2, WorldStarts
<1>21. CASE UNCHANGED vars
  BY <1>21 DEF IInv, vars, taskVars, dbVars
<1> QED
  BY <1>1, <1>2, <1>3, <1>5, <1>6, <1>7, <1>8, <1>10, <1>11, <1>12, <1>13, <1>15, <1>16, <1>17,
     <1>18, <1>20, <1>21
  DEF Next, Dispatch

-----------------------------------------------------------------------------
(* Reports, and what backs them.                                           *)

\* Every way to the output sets its status.
LEMMA SettledPreserved == IInv /\ [Next]_vars => Settled'
<1> SUFFICES ASSUME IInv, [Next]_vars PROVE Settled'
  OBVIOUS
<1> USE DEF Settled
<1>1. ASSUME NEW a \in Actors, NEW w, pc' = [pc EXCEPT ![a] = w],
             w # "output" /\ UNCHANGED status
      PROVE  Settled'
  BY <1>1 DEF IInv, TypeOK
<1>2. ASSUME NEW a \in Actors, NEW st \in {"success", "failure"},
             pc' = [pc EXCEPT ![a] = "output"], status' = [status EXCEPT ![a] = st]
      PROVE  Settled'
  BY <1>2 DEF IInv, TypeOK
<1>3. ASSUME NEW A \in SUBSET Actors, Reset(A) PROVE Settled'
  BY <1>3 DEF IInv, TypeOK, Reset
<1>4. ASSUME NEW a \in Actors,
             \/ StartRun(a) \/ Segment(a) \/ AnalyzeSegment(a) \/ BehaviorDone(a) \/ Summarize(a)
             \/ WriteBackup(a) \/ SummaryWritten(a) \/ PipelineRaises(a) \/ Accept(a)
      PROVE  Settled'
  <2>1. UNCHANGED status /\ \E w : w # "output" /\ pc' = [pc EXCEPT ![a] = w]
    BY <1>4 DEF StartRun, Segment, AnalyzeSegment, BehaviorDone, Summarize, WriteBackup,
                SummaryWritten, PipelineRaises, Accept, GoTo, Await
  <2> QED
    BY <1>1, <2>1
<1>5. ASSUME NEW a \in Actors,
             \/ SessionIncomplete(a) \/ StartRunFails(a) \/ Aggregate(a)
             \/ RecordFailure(a) \/ RecordFailureFails(a)
      PROVE  Settled'
  <2>1. /\ pc' = [pc EXCEPT ![a] = "output"]
        /\ \E st \in {"success", "failure"} : status' = [status EXCEPT ![a] = st]
    BY <1>5 DEF SessionIncomplete, StartRunFails, Aggregate, RecordFailure, RecordFailureFails,
                GoTo, Outcome
  <2> QED
    BY <1>2, <2>1
<1>6. ASSUME NEW a \in Actors, AnalysisComplete(a) PROVE Settled'
  <2>1. \/ UNCHANGED status /\ pc' = [pc EXCEPT ![a] = "aggregate"]
        \/ /\ pc' = [pc EXCEPT ![a] = "output"]
           /\ \E st \in {"success", "failure"} : status' = [status EXCEPT ![a] = st]
    BY <1>6 DEF AnalysisComplete, Await, GoTo, Outcome
  <2> QED
    BY <1>1, <1>2, <2>1
<1>7. ASSUME NEW a \in Actors,
             \/ RefuseLockHeld(a) \/ RefuseInFlight(a) \/ RefuseAnalyzed(a) \/ LookupFails(a)
             \/ PersistOutput(a)
      PROVE  Settled'
  BY <1>3, <1>7 DEF RefuseLockHeld, RefuseInFlight, RefuseAnalyzed, LookupFails, Refuse,
                    PersistOutput, Return
<1>8. CASE ServerCrash \/ \E c \in Clis : CliKilled(c)
  <2>1. \E A \in SUBSET Actors : Reset(A)
    BY <1>8 DEF ServerCrash, CliKilled, Dies, Actors
  <2> QED
    BY <1>3, <2>1
<1>9. CASE ServerStarts \/ TimePasses \/ \E c \in Clis : CliStarts(c)
  <2>1. ASSUME NEW a \in Actors, NEW s \in Sessions, NEW f \in BOOLEAN, Starts(a, s, f)
        PROVE  Settled'
    BY <1>1, <2>1 DEF Starts, Call
  <2> QED
    BY <1>9, <2>1, WorldStarts DEF IInv, taskVars
<1>10. CASE UNCHANGED vars
  BY <1>10 DEF IInv, vars, taskVars
<1> QED
  BY <1>4, <1>5, <1>6, <1>7, <1>8, <1>9, <1>10 DEF Next, Dispatch

\* A step that writes no report, and moves no run but from one stage to the next.
LEMMA GroundedFrame ==
  ASSUME IInv, TypeOK', UNCHANGED report,
         \A s \in Sessions : backup'[s] \in {0, backup[s]},
         \A s \in Sessions : output'[s] = "success" => output[s] = "success" \/ report[s] # 0,
         \A j \in RunIds : /\ runs'[j].session = runs[j].session
                           /\ runs'[j].stage = runs[j].stage,
         \A j \in RunIds' : j \in RunIds \/ runs'[j].stage = "pending"
  PROVE  ReportGrounded'
<1>1. ASSUME NEW s \in Sessions, NEW i \in {report'[s], backup'[s]} \ {0}
      PROVE  runs'[i].session = s /\ runs'[i].stage \in {"behavior_done", "summary_written", "failed"}
  <2>1. i \in {report[s], backup[s]} \ {0}
    BY <1>1
  <2>2. i \in RunIds
    BY <2>1 DEF IInv, TypeOK, RunIds
  <2> QED
    BY <2>1, <2>2 DEF IInv, ReportGrounded
<1>2. ASSUME NEW s \in Sessions, NEW i \in RunIds', runs'[i].session = s, runs'[i].stage = "summary_written"
      PROVE  report'[s] # 0
  BY <1>2 DEF IInv, ReportGrounded, RunsOf
<1>3. ASSUME NEW s \in Sessions, output'[s] = "success"
      PROVE  report'[s] # 0
  BY <1>3 DEF IInv, ReportGrounded
<1> QED
  BY <1>1, <1>2, <1>3 DEF ReportGrounded, RunsOf

\* Advancing or failing the run an actor owns.
LEMMA GroundedStage ==
  ASSUME IInv, TypeOK', NEW a \in Actors, NEW st \in Stages,
         pc[a] \in InPipeline, SetStage(run[a], st), UNCHANGED <<report, backup, output>>,
         st = "segmented" => runs[run[a]].stage = "pending",
         st = "summary_written" => pc[a] = "summary",
         st # "pending"
  PROVE  ReportGrounded'
<1>1. run[a] \in RunIds
  BY DEF IInv, TypeOK, Owned
<1>2. /\ RunIds' = RunIds
      /\ \A j \in RunIds : /\ runs'[j].session = runs[j].session
                           /\ runs'[j].stage = IF j = run[a] THEN st ELSE runs[j].stage
  BY <1>1, SetStageLemma DEF IInv, TypeOK
<1>3. ASSUME NEW s \in Sessions, NEW i \in {report'[s], backup'[s]} \ {0}
      PROVE  runs'[i].session = s /\ runs'[i].stage \in {"behavior_done", "summary_written", "failed"}
  <2>1. i \in {report[s], backup[s]} \ {0} /\ i \in RunIds
    BY <1>3 DEF IInv, TypeOK, RunIds
  <2>2. runs[i].session = s /\ runs[i].stage \in {"behavior_done", "summary_written", "failed"}
    BY <2>1 DEF IInv, ReportGrounded
  <2> QED
    BY <1>2, <2>1, <2>2 DEF Stages
<1>4. ASSUME NEW s \in Sessions, NEW i \in RunIds', runs'[i].session = s, runs'[i].stage = "summary_written"
      PROVE  report'[s] # 0
  <2>1. CASE i = run[a] /\ st = "summary_written"
    BY <1>1, <1>2, <1>4, <2>1 DEF IInv, Owned, Reported
  <2>2. CASE runs[i].stage = "summary_written"
    BY <1>2, <1>4, <2>2 DEF IInv, ReportGrounded, RunsOf
  <2> QED
    BY <1>2, <1>4, <2>1, <2>2
<1>5. ASSUME NEW s \in Sessions, output'[s] = "success"
      PROVE  report'[s] # 0
  BY <1>5 DEF IInv, ReportGrounded
<1> QED
  BY <1>3, <1>4, <1>5 DEF ReportGrounded, RunsOf

\* A report is upserted by the owner of a run past behaviour detection, before the run
\* is recorded complete.
LEMMA GroundedPreserved == IInv /\ [Next]_vars => ReportGrounded'
<1> SUFFICES ASSUME IInv, [Next]_vars PROVE ReportGrounded'
  OBVIOUS
<1>0. TypeOK'
  BY TypePreserved
<1>1. ASSUME UNCHANGED <<runs, report, output>>, \A s \in Sessions : backup'[s] \in {0, backup[s]}
      PROVE  ReportGrounded'
  BY <1>0, <1>1, GroundedFrame DEF RunIds
<1>2. ASSUME NEW a \in Actors,
             \/ SessionIncomplete(a) \/ StartRunFails(a) \/ AnalyzeSegment(a) \/ Aggregate(a)
             \/ PipelineRaises(a) \/ RecordFailureFails(a) \/ Accept(a)
             \/ RefuseLockHeld(a) \/ RefuseInFlight(a) \/ RefuseAnalyzed(a) \/ LookupFails(a)
      PROVE  ReportGrounded'
  <2>1. UNCHANGED <<runs, report, output, backup>>
    BY <1>2 DEF SessionIncomplete, StartRunFails, AnalyzeSegment, Aggregate, PipelineRaises,
                RecordFailureFails, Accept, RefuseLockHeld, RefuseInFlight, RefuseAnalyzed,
                LookupFails, Refuse, dbVars
  <2> QED
    BY <1>1, <2>1
<1>3. ASSUME NEW a \in Actors, StartRun(a) PROVE ReportGrounded'
  <2>1. /\ RunIds' = RunIds \cup {Len(runs) + 1}
        /\ \A j \in RunIds : runs'[j] = runs[j]
        /\ runs'[Len(runs) + 1].stage = "pending"
    BY <1>3, StartRunLemma DEF IInv, Registered, StartRun, At
  <2>2. UNCHANGED <<report, backup, output>>
    BY <1>3 DEF StartRun
  <2> QED
    BY <1>0, <2>1, <2>2, GroundedFrame
<1>4. ASSUME NEW a \in Actors, Segment(a) \/ BehaviorDone(a) \/ SummaryWritten(a) \/ RecordFailure(a)
      PROVE  ReportGrounded'
  <2>1. pc[a] \in InPipeline /\ UNCHANGED <<report, backup, output>>
    BY <1>4 DEF Segment, BehaviorDone, SummaryWritten, RecordFailure, At, InPipeline
  <2>2. CASE Segment(a)
    <3>1. pc[a] = "segment" /\ StageAt["segment"] = {"pending"}
      BY <2>2 DEF Segment, At, StageAt
    <3>2. runs[run[a]].stage = "pending"
      BY <2>1, <3>1 DEF IInv, Owned
    <3> QED
      BY <1>0, <2>1, <2>2, <3>2, GroundedStage DEF Segment, Stages
  <2>3. CASE BehaviorDone(a)
    BY <1>0, <2>1, <2>3, GroundedStage DEF BehaviorDone, Stages
  <2>4. CASE SummaryWritten(a)
    BY <1>0, <2>1, <2>4, GroundedStage DEF SummaryWritten, At, Stages
  <2>5. CASE RecordFailure(a)
    BY <1>0, <2>1, <2>5, GroundedStage DEF RecordFailure, Stages
  <2> QED
    BY <1>4, <2>2, <2>3, <2>4, <2>5
<1>5. ASSUME NEW a \in Actors, Summarize(a) \/ WriteBackup(a) PROVE ReportGrounded'
  <2>1. /\ pc[a] \in {"summarize", "backup"} /\ UNCHANGED <<runs, output>>
        /\ UNCHANGED backup \/ backup' = [backup EXCEPT ![job[a]] = run[a]]
        /\ UNCHANGED report \/ report' = [report EXCEPT ![job[a]] = run[a]]
    BY <1>5 DEF Summarize, WriteBackup, At
  <2>2. StageAt[pc[a]] = {"behavior_done"}
    BY <2>1 DEF StageAt
  <2>3. run[a] # 0 /\ runs[run[a]].session = job[a] /\ runs[run[a]].stage = "behavior_done"
    BY <2>1, <2>2 DEF IInv, Owned, InPipeline
  <2> QED
    BY <2>1, <2>3 DEF IInv, TypeOK, ReportGrounded, RunsOf, RunIds
<1>6. ASSUME NEW a \in Actors, AnalysisComplete(a) PROVE ReportGrounded'
  <2>1. /\ UNCHANGED <<runs, report, output>>
        /\ UNCHANGED backup \/ backup' = [backup EXCEPT ![job[a]] = 0]
    BY <1>6 DEF AnalysisComplete, Cleanup
  <2> QED
    BY <1>1, <2>1 DEF IInv, TypeOK
<1>7. ASSUME NEW a \in Actors, PersistOutput(a) PROVE ReportGrounded'
  <2>1. /\ UNCHANGED <<runs, report, backup>>
        /\ UNCHANGED output \/ output' = [output EXCEPT ![job[a]] = status[a]]
    BY <1>7 DEF PersistOutput
  <2>2. status[a] = "success" => report[job[a]] # 0
    <3>1. job[a] \in Sessions
      BY <1>7 DEF IInv, Registered, PersistOutput, At
    <3> QED
      BY <3>1 DEF IInv, TypeOK, Owned, ReportGrounded, RunsOf, RunIds
  <2>3. \A s \in Sessions : output'[s] = "success" => output[s] = "success" \/ report[s] # 0
    BY <2>1, <2>2 DEF IInv, TypeOK
  <2> QED
    BY <1>0, <2>1, <2>3, GroundedFrame DEF RunIds
<1>8. CASE ServerCrash \/ \E c \in Clis : CliKilled(c)
  <2>1. UNCHANGED <<runs, report, output, backup>>
    BY <1>8 DEF ServerCrash, CliKilled, Dies, dbVars
  <2> QED
    BY <1>1, <2>1
<1>9. CASE ServerStarts \/ TimePasses \/ \E c \in Clis : CliStarts(c)
  BY <1>0, <1>9, WorldKeepsRuns, GroundedFrame
<1>10. CASE UNCHANGED vars
  BY <1>1, <1>10 DEF vars, dbVars
<1> QED
  BY <1>2, <1>3, <1>4, <1>5, <1>6, <1>7, <1>8, <1>9, <1>10 DEF Next, Dispatch

\* No step takes a report away.
LEMMA ReportedPreserved == IInv /\ [Next]_vars => Reported'
<1> SUFFICES ASSUME IInv, [Next]_vars PROVE Reported'
  OBVIOUS
<1> USE DEF Reported
<1>1. ASSUME NEW a \in Actors, NEW w, w \notin {"backup", "summary"},
             pc' = [pc EXCEPT ![a] = w], UNCHANGED <<report, job>>
      PROVE  Reported'
  BY <1>1 DEF IInv, TypeOK
<1>2. ASSUME NEW a \in Actors,
             \/ SessionIncomplete(a) \/ StartRun(a) \/ StartRunFails(a) \/ Segment(a)
             \/ AnalyzeSegment(a) \/ BehaviorDone(a) \/ SummaryWritten(a) \/ AnalysisComplete(a)
             \/ Aggregate(a) \/ PipelineRaises(a) \/ RecordFailure(a) \/ RecordFailureFails(a)
             \/ Accept(a)
      PROVE  Reported'
  <2>1. /\ UNCHANGED <<report, job>>
        /\ \E w : w \notin {"backup", "summary"} /\ pc' = [pc EXCEPT ![a] = w]
    BY <1>2 DEF SessionIncomplete, StartRun, StartRunFails, Segment, AnalyzeSegment, BehaviorDone,
                SummaryWritten, AnalysisComplete, Aggregate, PipelineRaises, RecordFailure,
                RecordFailureFails, Accept, GoTo, Await, Quietly, dbVars
  <2> QED
    BY <1>1, <2>1
<1>3. ASSUME NEW a \in Actors, Summarize(a) PROVE Reported'
  <2>1. /\ pc[a] = "summarize" /\ pc' = [pc EXCEPT ![a] = "backup"] /\ UNCHANGED job
        /\ report' = [report EXCEPT ![job[a]] = run[a]]
    BY <1>3 DEF Summarize, At, GoTo, Quietly
  <2>2. run[a] # 0 /\ \A b \in Actors : pc[b] # "idle" => job[b] \in Sessions
    BY <2>1 DEF IInv, Owned, InPipeline, Registered
  <2> QED
    BY <2>1, <2>2 DEF IInv, TypeOK
<1>4. ASSUME NEW a \in Actors, WriteBackup(a) PROVE Reported'
  BY <1>4 DEF IInv, TypeOK, WriteBackup, At, GoTo, Quietly
<1>5. ASSUME NEW A \in SUBSET Actors, Reset(A), UNCHANGED report PROVE Reported'
  BY <1>5 DEF IInv, Reset
<1>6. ASSUME NEW a \in Actors,
             \/ RefuseLockHeld(a) \/ RefuseInFlight(a) \/ RefuseAnalyzed(a) \/ LookupFails(a)
             \/ PersistOutput(a)
      PROVE  Reported'
  BY <1>5, <1>6 DEF RefuseLockHeld, RefuseInFlight, RefuseAnalyzed, LookupFails, Refuse,
                    PersistOutput, Return, dbVars
<1>7. CASE ServerCrash \/ \E c \in Clis : CliKilled(c)
  <2>1. UNCHANGED report /\ \E A \in SUBSET Actors : Reset(A)
    BY <1>7 DEF ServerCrash, CliKilled, Dies, Actors, dbVars
  <2> QED
    BY <1>5, <2>1
<1>8. CASE ServerStarts \/ TimePasses \/ \E c \in Clis : CliStarts(c)
  <2>1. UNCHANGED report
    BY <1>8, WorldKeepsRuns
  <2>2. ASSUME NEW a \in Actors, NEW s \in Sessions, NEW f \in BOOLEAN, Starts(a, s, f)
        PROVE  Reported'
    BY <2>1, <2>2 DEF IInv, TypeOK, Starts, Call
  <2> QED
    BY <1>8, <2>1, <2>2, WorldStarts DEF IInv, taskVars
<1>9. CASE UNCHANGED vars
  BY <1>9 DEF IInv, vars, taskVars, dbVars
<1> QED
  BY <1>2, <1>3, <1>4, <1>6, <1>7, <1>8, <1>9 DEF Next, Dispatch

-----------------------------------------------------------------------------
(* The audit, and all together.                                            *)

\* Without faults an owner leaves the pipeline by SummaryWritten or RecordFailure only.
LEMMA AuditPreserved == IInv /\ [Next]_vars => AuditComplete'
<1> SUFFICES ASSUME IInv, [Next]_vars, faults' = 0 PROVE AuditComplete'
  BY DEF AuditComplete
<1> DEFINE Open(i) == runs[i].stage \notin TerminalStages
           Owner(a, i) == run[a] = i /\ pc[a] \in InPipeline
<1>0. faults = 0 => \A i \in RunIds : Open(i) => \E a \in Actors : Owner(a, i)
  BY DEF IInv, AuditComplete
\* An owner goes on, or finishes the run.
<1>1. ASSUME NEW a \in Actors, faults = 0, UNCHANGED run,
             RunIds' = RunIds, \A i \in RunIds : runs'[i].stage = runs[i].stage \/ i = run[a],
             \A b \in Actors \ {a} : pc'[b] = pc[b],
             run[a] \in RunIds /\ runs'[run[a]].stage \notin TerminalStages => pc'[a] \in InPipeline
      PROVE  AuditComplete'
  BY <1>0, <1>1 DEF AuditComplete
<1>2. ASSUME NEW a \in Actors, StartRun(a) PROVE AuditComplete'
  <2>1. /\ RunIds' = RunIds \cup {Len(runs) + 1}
        /\ \A j \in RunIds : runs'[j] = runs[j]
    BY <1>2, StartRunLemma DEF IInv, Registered, StartRun, At
  <2>2. /\ faults = 0 /\ pc[a] = "begin" /\ pc' = [pc EXCEPT ![a] = "segment"]
        /\ run' = [run EXCEPT ![a] = Len(runs) + 1]
    BY <1>2 DEF StartRun, At, GoTo
  <2>3. \A b \in Actors : pc[b] \in InPipeline => b # a /\ pc'[b] = pc[b] /\ run'[b] = run[b]
    BY <2>2 DEF IInv, TypeOK, InPipeline
  <2>4. run'[a] = Len(runs) + 1 /\ pc'[a] \in InPipeline
    BY <2>2 DEF IInv, TypeOK, InPipeline
  <2> QED
    BY <1>0, <2>1, <2>2, <2>3, <2>4 DEF AuditComplete
<1>3. ASSUME NEW a \in Actors,
             Segment(a) \/ BehaviorDone(a) \/ SummaryWritten(a) \/ RecordFailure(a)
      PROVE  AuditComplete'
  <2>1. run[a] \in RunIds /\ faults = 0 /\ UNCHANGED run
    BY <1>3 DEF IInv, TypeOK, Owned, Segment, BehaviorDone, SummaryWritten, RecordFailure, At, InPipeline
  <2>2. PICK st \in Stages : /\ SetStage(run[a], st)
                             /\ \/ st \in TerminalStages
                                \/ \E w \in InPipeline : pc' = [pc EXCEPT ![a] = w]
    BY <1>3 DEF Segment, BehaviorDone, SummaryWritten, RecordFailure, Await, Stages,
                TerminalStages, InPipeline
  <2>3. /\ RunIds' = RunIds /\ runs'[run[a]].stage = st
        /\ \A i \in RunIds : runs'[i].stage = runs[i].stage \/ i = run[a]
    BY <2>1, <2>2, SetStageLemma DEF IInv, TypeOK
  <2>4. \E w : pc' = [pc EXCEPT ![a] = w]
    BY <1>3 DEF Segment, BehaviorDone, SummaryWritten, RecordFailure, Await, GoTo
  <2> QED
    BY <1>1, <2>1, <2>2, <2>3, <2>4 DEF IInv, TypeOK
<1>4. ASSUME NEW a \in Actors,
             AnalyzeSegment(a) \/ Summarize(a) \/ WriteBackup(a) \/ PipelineRaises(a)
      PROVE  AuditComplete'
  <2>1. /\ UNCHANGED <<run, runs>> /\ faults = 0
        /\ \E w \in InPipeline : pc' = [pc EXCEPT ![a] = w]
    BY <1>4, ConstantsAssumption
    DEF AnalyzeSegment, Summarize, WriteBackup, PipelineRaises, GoTo, Await, Fault, InPipeline,
        IInv, TypeOK, dbVars
  <2> QED
    BY <1>1, <2>1 DEF IInv, TypeOK, RunIds
\* Whoever owned no unfinished run still owns none.
<1>5. ASSUME NEW a \in Actors, faults = 0, UNCHANGED runs, pc[a] \notin InPipeline,
             \A b \in Actors \ {a} : pc'[b] = pc[b] /\ run'[b] = run[b]
      PROVE  AuditComplete'
  BY <1>0, <1>5 DEF AuditComplete, RunIds
<1>6. ASSUME NEW a \in Actors,
             \/ SessionIncomplete(a) \/ AnalysisComplete(a) \/ Aggregate(a) \/ Accept(a)
      PROVE  AuditComplete'
  <2>1. /\ UNCHANGED <<run, runs>> /\ pc[a] \notin InPipeline
        /\ \E w : pc' = [pc EXCEPT ![a] = w]
    BY <1>6 DEF SessionIncomplete, AnalysisComplete, Aggregate, Accept, At, GoTo, Await, InPipeline,
                dbVars
  <2>2. faults = 0
    BY <1>6 DEF SessionIncomplete, AnalysisComplete, Aggregate, Accept, Fault, IInv, TypeOK, budgetVars
  <2> QED
    BY <1>5, <2>1, <2>2 DEF IInv, TypeOK
<1>7. ASSUME NEW a \in Actors,
             \/ RefuseLockHeld(a) \/ RefuseInFlight(a) \/ RefuseAnalyzed(a) \/ LookupFails(a)
             \/ PersistOutput(a)
      PROVE  AuditComplete'
  <2>1. UNCHANGED runs /\ Reset({a}) /\ pc[a] \notin InPipeline
    BY <1>7 DEF RefuseLockHeld, RefuseInFlight, RefuseAnalyzed, LookupFails, Refuse, PersistOutput,
                Return, At, InPipeline, dbVars
  <2>2. faults = 0
    BY <1>7 DEF RefuseLockHeld, RefuseInFlight, RefuseAnalyzed, LookupFails, Refuse, PersistOutput,
                Fault, IInv, TypeOK
  <2> QED
    BY <1>5, <2>1, <2>2 DEF Reset
<1>8. CASE ServerCrash \/ \E c \in Clis : CliKilled(c)
  <2>1. Fault
    BY <1>8 DEF ServerCrash, CliKilled, Dies
  <2>2. faults \in Nat
    BY ConstantsAssumption DEF IInv, TypeOK
  <2> QED
    BY <2>1, <2>2 DEF Fault
<1>9. ASSUME NEW a \in Actors, StartRunFails(a) \/ RecordFailureFails(a)
      PROVE  AuditComplete'
  BY <1>9 DEF StartRunFails, RecordFailureFails, Fault, IInv, TypeOK
<1>10. CASE ServerStarts \/ TimePasses \/ \E c \in Clis : CliStarts(c)
  <2>1. /\ faults = 0 /\ RunIds' = RunIds
        /\ \A j \in RunIds : runs'[j].stage = runs[j].stage
    BY <1>10, WorldKeepsRuns
  <2>2. ASSUME NEW a \in Actors, NEW s \in Sessions, NEW f \in BOOLEAN, Starts(a, s, f)
        PROVE  AuditComplete'
    <3>1. /\ UNCHANGED run
          /\ \A b \in Actors : pc[b] \in InPipeline => pc'[b] = pc[b]
      BY <2>2 DEF Starts, Call, IInv, TypeOK, InPipeline
    <3> QED
      BY <1>0, <2>1, <3>1 DEF AuditComplete
  <2>3. CASE UNCHANGED taskVars
    BY <1>0, <2>1, <2>3 DEF AuditComplete, taskVars
  <2> QED
    BY <1>10, <2>2, <2>3, WorldStarts
<1>11. CASE UNCHANGED vars
  BY <1>0, <1>11 DEF AuditComplete, RunIds, vars, taskVars, dbVars, budgetVars
<1> QED
  BY <1>2, <1>3, <1>4, <1>6, <1>7, <1>8, <1>9, <1>10, <1>11 DEF Next, Dispatch

\* The empty project satisfies the invariant.
LEMMA InitInv == Init => IInv
<1> SUFFICES ASSUME Init PROVE IInv
  OBVIOUS
<1>1. runs = <<>> /\ RunIds = {} /\ runs \in Seq(Run)
  BY DEF Init, RunIds
<1>2. TypeOK
  <2>1. /\ report \in [Sessions -> RunIds \cup {0}] /\ backup \in [Sessions -> RunIds \cup {0}]
        /\ output \in [Sessions -> {"none", "success", "failure"}]
        /\ hasEvents \in [Sessions -> BOOLEAN] /\ quiet \in [Sessions -> BOOLEAN]
    BY DEF Init
  <2>2. /\ up \in BOOLEAN /\ materialised \in BOOLEAN /\ loop \in ServerTasks \cup {None}
        /\ scan \in SUBSET Sessions /\ active \in [Processes -> SUBSET Sessions]
        /\ inMemory \in SUBSET Sessions
    BY DEF Init
  <2>3. /\ pc \in [Actors -> ProgramCounters] /\ job \in [Actors -> Sessions \cup {None}]
        /\ force \in [Actors -> BOOLEAN] /\ run \in [Actors -> RunIds \cup {0}]
        /\ attempted \in [Actors -> BOOLEAN]
        /\ status \in [Actors -> {"none", "success", "failure"}]
    BY DEF Init, ProgramCounters
  <2>4. cli \in [Clis -> CliType]
    BY DEF Init, NoCall, CliType
  <2>5. ingests \in 0..MaxIngests /\ calls \in 0..MaxCalls /\ faults \in 0..MaxFaults
    BY ConstantsAssumption DEF Init
  <2> QED
    BY <1>1, <2>1, <2>2, <2>3, <2>4, <2>5 DEF TypeOK, CliType
<1>3. Registered /\ NoStaleLock /\ Owned /\ Reported /\ Settled
  BY DEF Init, Registered, NoStaleLock, Owned, Reported, Settled, ExclusiveDispatch, Dispatching, InDispatch, InPipeline
<1>4. ReportGrounded
  BY <1>1 DEF Init, ReportGrounded, RunsOf
<1>5. AuditComplete
  BY <1>1 DEF AuditComplete
<1> QED
  BY <1>2, <1>3, <1>4, <1>5 DEF IInv

\* The inductive invariant: who is registered, who owns which run at what stage, and what
\* reports, outputs and audit rows therefore say (Trigger, Orchestrator, repositories).
THEOREM Invariance == Spec => []IInv
<1>1. IInv /\ [Next]_vars => IInv'
  BY TypePreserved, RegisteredPreserved, NoStaleLockPreserved, OwnedPreserved, ReportedPreserved,
     SettledPreserved, GroundedPreserved, AuditPreserved
  DEF IInv
<1> QED
  BY <1>1, InitInv, PTL DEF Spec

-----------------------------------------------------------------------------
(* The theorems.                                                           *)

\* In every reachable state the variables have their types.
THEOREM TypeCorrect == Spec => []TypeOK
  BY Invariance, PTL DEF IInv

\* LockRegistry and ModeAwareDispatch keep two dispatches of one process off
\* the same session, whatever becomes of rows, clocks and other processes.
THEOREM Exclusion == Spec => []ExclusiveDispatch
  BY Invariance, PTL DEF IInv, Registered

\* Reports, backups and successful outputs are backed by the audit table.
THEOREM Grounding == Spec => []ReportGrounded
  BY Invariance, PTL DEF IInv

\* Without crashes and database errors, no row is left open without an owner.
THEOREM Auditing == Spec => []AuditComplete
  BY Invariance, PTL DEF IInv

\* A row of analysis_runs has a session and a stage.
LEMMA Rows ==
  ASSUME TypeOK, NEW i \in RunIds
  PROVE  runs[i].session \in Sessions /\ runs[i].stage \in Stages
<1>1. runs[i] \in Run
  BY DEF TypeOK, RunIds
<1> QED
  BY <1>1 DEF Run

\* The rows, seen as a ledger, are a sequence of its entries.
LEMMA BookIsSeq == TypeOK => Book \in Seq([session : Sessions, stage : Stages]) /\ Len(Book) = Len(runs)
<1> SUFFICES ASSUME TypeOK
             PROVE  Book \in Seq([session : Sessions, stage : Stages]) /\ Len(Book) = Len(runs)
  OBVIOUS
<1>1. Len(runs) \in Nat
  BY DEF TypeOK
<1>2. Book \in [1..Len(runs) -> [session : Sessions, stage : Stages]]
  BY Rows DEF Book, RunIds
<1>3. Book \in Seq([session : Sessions, stage : Stages])
  BY <1>1, <1>2, SeqDef
<1>4. Len(Book) \in Nat /\ 1..Len(Book) = 1..Len(runs)
  BY <1>2, <1>3, LenProperties
<1> QED
  BY <1>1, <1>3, <1>4

\* A step that writes neither session nor stage stutters in the ledger.
LEMMA BookFrame ==
  ASSUME RunIds' = RunIds,
         \A j \in RunIds : /\ runs'[j].session = runs[j].session
                           /\ runs'[j].stage = runs[j].stage
  PROVE  Book' = Book
  BY DEF Book

\* start_run appends to the ledger.
LEMMA BookStart ==
  ASSUME TypeOK, NEW a \in Actors, StartRun(a), job[a] \in Sessions
  PROVE  Ledger!Start(job[a])
<1> DEFINE e == [session |-> job[a], stage |-> "pending"]
<1>1. /\ RunIds' = 1..Len(runs) + 1 /\ Len(runs) \in Nat
      /\ \A j \in RunIds : runs'[j] = runs[j]
      /\ runs'[Len(runs) + 1].session = job[a] /\ runs'[Len(runs) + 1].stage = "pending"
  BY StartRunLemma DEF RunIds, TypeOK
<1>2. Book \in Seq([session : Sessions, stage : Stages]) /\ Len(Book) = Len(runs)
  BY BookIsSeq
<1>3. Book' = [i \in 1..Len(runs) + 1 |-> IF i = Len(runs) + 1 THEN e ELSE Book[i]]
  BY <1>1 DEF Book, RunIds
<1>4. Append(Book, e) = [i \in 1..Len(runs) + 1 |-> IF i = Len(runs) + 1 THEN e ELSE Book[i]]
  BY <1>1, <1>2
<1> QED
  BY <1>3, <1>4 DEF Ledger!Start

\* advance_stage and record_failure move one entry of the ledger.
LEMMA BookMove ==
  ASSUME TypeOK, NEW i \in RunIds, NEW st \in Stages, SetStage(i, st)
  PROVE  Ledger!Move(i, st)
<1>1. /\ RunIds' = RunIds
      /\ \A j \in RunIds : /\ runs'[j].session = runs[j].session
                           /\ runs'[j].stage = IF j = i THEN st ELSE runs[j].stage
  BY SetStageLemma DEF TypeOK
<1>2. Book' = [j \in RunIds |-> IF j = i THEN [session |-> runs[i].session, stage |-> st] ELSE Book[j]]
  BY <1>1 DEF Book
<1>3. DOMAIN Book = RunIds /\ Book[i].session = runs[i].session
  BY DEF Book
<1> QED
  BY <1>2, <1>3 DEF Ledger!Move

\* The stage an owner writes is the ledger's next one, or "failed".
LEMMA BookStage ==
  ASSUME IInv, NEW a \in Actors,
         Segment(a) \/ BehaviorDone(a) \/ SummaryWritten(a) \/ RecordFailure(a)
  PROVE  \E i \in 1..Len(Book) : Ledger!Advance(i) \/ Ledger!Fail(i)
<1>1. /\ run[a] \in RunIds /\ runs[run[a]].stage \in StageAt[pc[a]]
      /\ pc[a] \in {"segment", "behavior", "summary", "record"}
  BY DEF IInv, TypeOK, Owned, Segment, BehaviorDone, SummaryWritten, RecordFailure, At, InPipeline
<1>2. run[a] \in 1..Len(Book) /\ Book[run[a]].stage = runs[run[a]].stage
  BY <1>1, BookIsSeq DEF IInv, Book, RunIds
<1>3. \A st \in Stages : SetStage(run[a], st) => Ledger!Move(run[a], st)
  BY <1>1, BookMove DEF IInv
<1>4. CASE Segment(a)
  <2>1. StageAt["segment"] = {"pending"} /\ pc[a] = "segment"
    BY <1>4 DEF StageAt, Segment, At
  <2>2. Ledger!Move(run[a], "segmented")
    BY <1>3, <1>4 DEF Segment, Stages
  <2> QED
    BY <1>1, <1>2, <2>1, <2>2 DEF Ledger!Advance, Ledger!Successor
<1>5. CASE BehaviorDone(a)
  <2>1. StageAt["behavior"] = {"segmented"} /\ pc[a] = "behavior"
    BY <1>5 DEF StageAt, BehaviorDone, At
  <2>2. Ledger!Move(run[a], "behavior_done")
    BY <1>3, <1>5 DEF BehaviorDone, Stages
  <2> QED
    BY <1>1, <1>2, <2>1, <2>2 DEF Ledger!Advance, Ledger!Successor
<1>6. CASE SummaryWritten(a)
  <2>1. StageAt["summary"] = {"behavior_done"} /\ pc[a] = "summary"
    BY <1>6 DEF StageAt, SummaryWritten, At
  <2>2. Ledger!Move(run[a], "summary_written")
    BY <1>3, <1>6 DEF SummaryWritten, Stages
  <2> QED
    BY <1>1, <1>2, <2>1, <2>2 DEF Ledger!Advance, Ledger!Successor
<1>7. CASE RecordFailure(a)
  <2>1. StageAt["record"] = Stages \ TerminalStages /\ pc[a] = "record"
    BY <1>7 DEF StageAt, RecordFailure, At
  <2>2. Ledger!Move(run[a], "failed")
    BY <1>3, <1>7 DEF RecordFailure, Stages
  <2> QED
    BY <1>1, <1>2, <2>1, <2>2 DEF Ledger!Fail, Ledger!Terminal, TerminalStages
<1> QED
  BY <1>4, <1>5, <1>6, <1>7

\* Every step is a step of the ledger, or stutters there.
LEMMA BookStep == IInv /\ [Next]_vars => [Ledger!Next]_Book
<1> SUFFICES ASSUME IInv, [Next]_vars PROVE Ledger!Next \/ Book' = Book
  OBVIOUS
<1>1. ASSUME UNCHANGED runs PROVE Book' = Book
  BY <1>1 DEF Book, RunIds
<1>2. ASSUME NEW a \in Actors, StartRun(a) PROVE Ledger!Next
  <2>1. job[a] \in Sessions
    BY <1>2 DEF IInv, Registered, StartRun, At
  <2>2. Ledger!Start(job[a])
    BY <1>2, <2>1, BookStart DEF IInv
  <2> QED
    BY <2>1, <2>2 DEF Ledger!Next
<1>3. ASSUME NEW a \in Actors,
             Segment(a) \/ BehaviorDone(a) \/ SummaryWritten(a) \/ RecordFailure(a)
      PROVE  Ledger!Next
  BY <1>3, BookStage DEF Ledger!Next
<1>4. ASSUME NEW a \in Actors,
             \/ SessionIncomplete(a) \/ StartRunFails(a) \/ AnalyzeSegment(a) \/ Summarize(a)
             \/ WriteBackup(a) \/ AnalysisComplete(a) \/ Aggregate(a) \/ PipelineRaises(a)
             \/ RecordFailureFails(a) \/ PersistOutput(a) \/ Accept(a)
             \/ RefuseLockHeld(a) \/ RefuseInFlight(a) \/ RefuseAnalyzed(a) \/ LookupFails(a)
      PROVE  UNCHANGED runs
  BY <1>4 DEF SessionIncomplete, StartRunFails, AnalyzeSegment, Summarize, WriteBackup,
              AnalysisComplete, Aggregate, PipelineRaises, RecordFailureFails, PersistOutput,
              Accept, RefuseLockHeld, RefuseInFlight, RefuseAnalyzed, LookupFails, Refuse, dbVars
<1>5. CASE ServerCrash \/ \E c \in Clis : CliKilled(c)
  BY <1>1, <1>5 DEF ServerCrash, CliKilled, Dies, dbVars
<1>6. CASE ServerStarts \/ TimePasses \/ \E c \in Clis : CliStarts(c)
  BY <1>6, WorldKeepsRuns, BookFrame
<1>7. CASE UNCHANGED vars
  BY <1>1, <1>7 DEF vars, dbVars
<1> QED
  BY <1>1, <1>2, <1>3, <1>4, <1>5, <1>6, <1>7 DEF Next, Dispatch

\* However many processes race, analysis_runs is written as RunLedger says.
THEOREM Implements == Spec => LedgerSpec
<1>1. Init => Ledger!Init
  BY DEF Init, Book, RunIds, Ledger!Init
<1> QED
  BY <1>1, BookStep, Invariance, PTL DEF Spec, LedgerSpec, Ledger!Spec

\* `analyze --session` exits 0 on a complete run; 2 without one of its own, on the session's
\* latest being complete; and 1 at once only where another is unfinished or the database failed.
THEOREM HonestExit == Spec => AnalyzeExitHonest
<1> DEFINE honest == \A c \in Clis : cli'[c].exit # cli[c].exit /\ ~cli[c].retry /\ ~cli'[c].retry =>
       /\ cli'[c].exit = 0 => run[c] # 0 /\ runs[run[c]].stage = "summary_written"
       /\ cli'[c].exit = 2 => run[c] = 0 /\ ~force[c] /\ LatestIn(job[c], {"summary_written"})
       /\ cli'[c].exit = 1 /\ pc[c] = "enter" =>
            LatestIn(job[c], Stages \ TerminalStages) \/ faults' > faults
<1>1. IInv /\ [Next]_vars => [honest]_vars
  <2> SUFFICES ASSUME IInv, Next PROVE honest
    OBVIOUS
  <2>1. ASSUME NEW a \in Actors, NEW reason, Return(a, reason),
               reason = "dispatched" => status[a] = "success",
               reason = "already-analyzed" =>
                 run[a] = 0 /\ ~force[a] /\ LatestIn(job[a], {"summary_written"}),
               a \in Clis /\ pc[a] = "enter" /\ reason # "already-analyzed" =>
                 LatestIn(job[a], Stages \ TerminalStages) \/ faults' > faults
        PROVE  honest
    <3>1. CASE a \in Clis
      <4>1. cli' = [cli EXCEPT ![a] = cli'[a]] /\ (~cli[a].retry => cli'[a].exit = ExitCode(reason))
        BY <2>1, <3>1 DEF Return, CliReturns, IInv, TypeOK
      <4>2. ExitCode(reason) = 0 => status[a] = "success"
        BY <2>1 DEF ExitCode
      <4>3. ExitCode(reason) = 2 <=> reason = "already-analyzed"
        BY DEF ExitCode
      <4>4. status[a] = "success" => run[a] # 0 /\ runs[run[a]].stage = "summary_written"
        BY DEF IInv, Owned
      <4>5. \A c \in Clis \ {a} : cli'[c] = cli[c]
        BY <4>1 DEF IInv, TypeOK
      <4>6. ExitCode(reason) = 1 => reason # "already-analyzed"
        BY <4>3
      <4> QED
        BY <2>1, <3>1, <4>1, <4>2, <4>3, <4>4, <4>5, <4>6
    <3>2. CASE a \notin Clis
      BY <2>1, <3>2 DEF Return
    <3> QED
      BY <3>1, <3>2
  <2>2. ASSUME NEW a \in Actors,
               RefuseLockHeld(a) \/ RefuseInFlight(a) \/ RefuseAnalyzed(a) \/ LookupFails(a)
        PROVE  honest
    <3>1. CASE RefuseLockHeld(a)
      \* A CLI's registry holds only what its one coroutine dispatches.
      <4>1. a \notin Clis
        <5>1. SUFFICES ASSUME a \in Clis PROVE FALSE
          OBVIOUS
        <5>2. a \in Processes /\ pc[a] = "enter" /\ job[a] \in active[a]
          BY <3>1, <5>1 DEF RefuseLockHeld, At, LockFree, ProcessOf, Processes
        <5>3. PICK b \in Actors : Dispatching(b) /\ ProcessOf(b) = a
          BY <5>2 DEF IInv, NoStaleLock
        <5>4. b = a
          BY <5>1, <5>3, ConstantsAssumption DEF ProcessOf
        <5> QED
          BY <5>2, <5>3, <5>4 DEF Dispatching, InDispatch
      <4>2. Return(a, "lock-held")
        BY <3>1 DEF RefuseLockHeld, Refuse
      <4> QED
        BY <2>1, <4>1, <4>2
    <3>2. CASE RefuseInFlight(a)
      <4>1. Return(a, "another-run-in-flight")
        BY <3>2 DEF RefuseInFlight, Refuse
      <4>2. a \in Clis => LatestIn(job[a], Stages \ TerminalStages)
        BY <3>2, ConstantsAssumption DEF RefuseInFlight, RecentlyDispatched, RunInFlight
      <4> QED
        BY <2>1, <4>1, <4>2
    <3>3. CASE RefuseAnalyzed(a)
      <4>1. Return(a, "already-analyzed") /\ ~force[a] /\ LatestIn(job[a], BlockRedispatch)
        BY <3>3 DEF RefuseAnalyzed, Refuse, AlreadyAnalyzed
      <4>2. run[a] = 0
        BY <3>3 DEF IInv, Owned, RefuseAnalyzed, At
      <4>3. BlockRedispatch = {"summary_written"}
        BY DEF BlockRedispatch, TerminalStages
      <4> QED
        BY <2>1, <4>1, <4>2, <4>3
    <3>4. CASE LookupFails(a)
      <4>1. Return(a, "raised") /\ faults' = faults + 1
        BY <3>4 DEF LookupFails, Fault
      <4>2. faults' > faults
        BY <4>1, ConstantsAssumption DEF IInv, TypeOK
      <4> QED
        BY <2>1, <4>1, <4>2
    <3> QED
      BY <2>2, <3>1, <3>2, <3>3, <3>4
  <2>3. ASSUME NEW a \in Actors, PersistOutput(a) PROVE honest
    <3>1. pc[a] = "output"
      BY <2>3 DEF PersistOutput, At
    <3>2. PICK reason : /\ Return(a, reason) /\ reason # "already-analyzed"
                        /\ reason = "dispatched" => status[a] = "success"
      BY <2>3 DEF PersistOutput
    <3> HIDE DEF honest
    <3> QED
      BY <2>1, <3>1, <3>2
  <2>4. CASE UNCHANGED cli
    BY <2>4
  <2>5. ASSUME NEW a \in Actors, Pipeline(a) \/ Accept(a) PROVE UNCHANGED cli
    BY <2>5 DEF Pipeline, SessionIncomplete, StartRun, StartRunFails, Segment, AnalyzeSegment,
                BehaviorDone, Summarize, WriteBackup, SummaryWritten, AnalysisComplete, Aggregate,
                PipelineRaises, RecordFailure, RecordFailureFails, Accept, Quietly
  <2>6. CASE ServerStarts \/ TimePasses \/ ServerCrash
    BY <2>4, <2>6 DEF ServerStarts, TimePasses, ServerCrash, ObserveEvent, SweepSkip, SweepDispatch,
                      ObserveSessionEnd, ObserveSessionEndUnstored, SweepTick, Restart, Materialise,
                      GoQuiet, ForgetDispatch, AgeRun
  <2>7. ASSUME NEW c \in Clis, CliKilled(c) PROVE honest
    BY <2>7 DEF CliKilled, IInv, TypeOK
  <2>8. ASSUME NEW c \in Clis, CliStarts(c) PROVE honest
    <3>1. CASE CliRetryNext(c)
      BY <2>4, <3>1 DEF CliRetryNext
    <3>2. CASE CliRetryFailed(c)
      BY <3>2 DEF CliRetryFailed, IInv, TypeOK
    <3>3. ASSUME NEW s \in Sessions, NEW f \in BOOLEAN, CliAnalyze(c, s, f) PROVE honest
      <4>1. cli'[c].exit = None /\ \A d \in Clis \ {c} : cli'[d] = cli[d]
        BY <3>3 DEF CliAnalyze, IInv, TypeOK
      <4>2. None \notin {0, 1, 2}
        BY ConstantsAssumption
      <4> QED
        BY <4>1, <4>2
    <3> QED
      BY <2>8, <3>1, <3>2, <3>3 DEF CliStarts
  <2> QED
    BY <2>2, <2>3, <2>5, <2>4, <2>6, <2>7, <2>8 DEF Next, Dispatch, Pipeline
<1> QED
  BY <1>1, Invariance, PTL DEF Spec, AnalyzeExitHonest

-----------------------------------------------------------------------------
(* Sessions dispatched one at a time.  The registry is a process's own: the *)
(* server and `secondsight analyze` may analyse one session at once, and    *)
(* then the later upsert wins.  As long as they do not, what follows holds. *)

\* No two dispatches of one session overlap, whatever processes they are in.
NoOverlap ==
  \A a, b \in Actors : Dispatching(a) /\ Dispatching(b) /\ job[a] = job[b] => a = b

\* Nobody passes --force, or retries a failed session, which does.
Unforced == \A a \in Actors : ~force[a]

\* A coroutine's run is the latest of its session.
Newest == \A a \in Actors : run[a] # 0 => \A i \in RunsOf(job[a]) : i <= run[a]

\* Past the upsert the session's report is the run's, past the copy so is the backup.
Copied ==
  \A a \in Actors : pc[a] \in {"backup", "summary"} =>
    /\ report[job[a]] = run[a]
    /\ pc[a] = "summary" => backup[job[a]] = run[a]

\* A session accepted without force has no complete run as its latest.
Unanalysed ==
  \A a \in Actors : pc[a] = "begin" /\ ~force[a] => ~LatestIn(job[a], {"summary_written"})

\* A session with runs has a latest one: what CHOOSE in Latest(s) picks.
HasLatest == \A s \in Sessions : RunsOf(s) # {} => \E i \in RunsOf(s) : \A j \in RunsOf(s) : j <= i

Serial == HasLatest /\ Newest /\ Copied /\ Unanalysed

\* The session's runs, their stages, its report and its backup stay as they are.
Untouched(s) ==
  /\ RunsOf(s)' = RunsOf(s)
  /\ \A i \in RunsOf(s) : runs'[i].stage = runs[i].stage
  /\ report'[s] = report[s] /\ backup'[s] = backup[s]

\* Rows that stay are the same runs of their sessions.
LEMMA SameRuns ==
  ASSUME NEW s \in Sessions, RunIds' = RunIds,
         \A j \in RunIds : runs'[j].session = runs[j].session
  PROVE  RunsOf(s)' = RunsOf(s)
  BY DEF RunsOf


\* The latest run of an untouched session is at the stage it was at.
LEMMA LatestStays ==
  ASSUME HasLatest, NEW s \in Sessions, Untouched(s), NEW stages
  PROVE  LatestIn(s, stages)' <=> LatestIn(s, stages)
<1>1. Latest(s)' = Latest(s)
  BY DEF Untouched, Latest
<1>2. RunsOf(s) # {} => Latest(s) \in RunsOf(s)
  BY DEF HasLatest, Latest
<1> QED
  BY <1>1, <1>2 DEF LatestIn, Untouched

\* A session is touched only by the coroutine that dispatches it.
LEMMA Foreign ==
  ASSUME IInv, [Next]_vars, NEW s \in Sessions, \A b \in Actors : Pipeline(b) => job[b] # s
  PROVE  Untouched(s)
<1>1. ASSUME NEW b \in Actors, Segment(b) \/ BehaviorDone(b) \/ SummaryWritten(b) \/ RecordFailure(b)
      PROVE  Untouched(s)
  <2>1. run[b] \in RunIds /\ runs[run[b]].session = job[b] /\ Pipeline(b)
    BY <1>1 DEF IInv, TypeOK, Owned, InPipeline, Segment, BehaviorDone, SummaryWritten,
                RecordFailure, At, Pipeline
  <2>2. PICK st \in Stages : SetStage(run[b], st)
    BY <1>1 DEF Segment, BehaviorDone, SummaryWritten, RecordFailure, Stages
  <2>3. UNCHANGED <<report, backup>>
    BY <1>1 DEF Segment, BehaviorDone, SummaryWritten, RecordFailure
  <2> QED
    BY <2>1, <2>2, <2>3, SetStageLemma, SameRuns DEF IInv, TypeOK, Untouched, RunsOf
<1>2. ASSUME NEW b \in Actors, StartRun(b) PROVE Untouched(s)
  <2>1. job[b] # s /\ job[b] \in Sessions
    BY <1>2 DEF IInv, Registered, StartRun, At, Pipeline
  <2>2. /\ RunIds' = RunIds \cup {Len(runs) + 1} /\ \A j \in RunIds : runs'[j] = runs[j]
        /\ runs'[Len(runs) + 1].session = job[b]
    BY <1>2, <2>1, StartRunLemma DEF IInv
  <2>3. UNCHANGED <<report, backup>>
    BY <1>2 DEF StartRun
  <2> QED
    BY <2>1, <2>2, <2>3 DEF Untouched, RunsOf
<1>3. ASSUME NEW b \in Actors,
             \/ SessionIncomplete(b) \/ StartRunFails(b) \/ AnalyzeSegment(b) \/ Aggregate(b)
             \/ PipelineRaises(b) \/ RecordFailureFails(b) \/ PersistOutput(b) \/ Accept(b)
             \/ RefuseLockHeld(b) \/ RefuseInFlight(b) \/ RefuseAnalyzed(b) \/ LookupFails(b)
      PROVE  UNCHANGED <<runs, report, backup>>
  BY <1>3 DEF SessionIncomplete, StartRunFails, AnalyzeSegment, Aggregate, PipelineRaises,
              RecordFailureFails, PersistOutput, Accept, RefuseLockHeld, RefuseInFlight,
              RefuseAnalyzed, LookupFails, Refuse, dbVars
<1>4. ASSUME NEW b \in Actors, Summarize(b) \/ WriteBackup(b) \/ AnalysisComplete(b)
      PROVE  Untouched(s)
  <2>1. job[b] # s
    BY <1>4 DEF Pipeline
  <2>2. /\ UNCHANGED runs
        /\ UNCHANGED report \/ report' = [report EXCEPT ![job[b]] = run[b]]
        /\ UNCHANGED backup \/ \E i \in {run[b], 0} : backup' = [backup EXCEPT ![job[b]] = i]
    BY <1>4 DEF Summarize, WriteBackup, AnalysisComplete, Cleanup
  <2> QED
    BY <2>1, <2>2 DEF IInv, TypeOK, Untouched, RunsOf, RunIds
<1>5. CASE ServerCrash \/ \E c \in Clis : CliKilled(c)
  BY <1>5 DEF ServerCrash, CliKilled, Dies, dbVars, Untouched, RunsOf, RunIds
<1>6. CASE ServerStarts \/ TimePasses \/ \E c \in Clis : CliStarts(c)
  BY <1>6, WorldKeepsRuns, SameRuns DEF Untouched, RunsOf
<1>7. ASSUME UNCHANGED <<runs, report, backup>> PROVE Untouched(s)
  BY <1>7 DEF Untouched, RunsOf, RunIds
<1>8. CASE UNCHANGED vars
  BY <1>7, <1>8 DEF vars, dbVars
<1> QED
  BY <1>1, <1>2, <1>3, <1>4, <1>5, <1>6, <1>7, <1>8 DEF Next, Dispatch

\* What becomes of a coroutine in a step that is not one of its pipeline.
LEMMA Moves ==
  ASSUME IInv, [Next]_vars, NEW a \in Actors
  PROVE  \/ Pipeline(a) \/ Accept(a) \/ pc'[a] \in {"idle", "enter"}
         \/ pc'[a] = pc[a] /\ run'[a] = run[a] /\ job'[a] = job[a] /\ force'[a] = force[a]
<1> DEFINE Same == pc'[a] = pc[a] /\ run'[a] = run[a] /\ job'[a] = job[a] /\ force'[a] = force[a]
           Out == pc'[a] \in {"idle", "enter"}
<1>1. ASSUME NEW b \in Actors, Pipeline(b), b # a PROVE Same
  <2>1. UNCHANGED <<job, force>>
    BY <1>1 DEF Pipeline, SessionIncomplete, StartRun, StartRunFails, Segment, AnalyzeSegment,
         BehaviorDone, Summarize, WriteBackup, SummaryWritten, AnalysisComplete, Aggregate,
         PipelineRaises, RecordFailure, RecordFailureFails, Quietly
  <2>2. UNCHANGED run \/ run' = [run EXCEPT ![b] = Len(runs) + 1]
    BY <1>1 DEF Pipeline, SessionIncomplete, StartRun, StartRunFails, Segment, AnalyzeSegment,
         BehaviorDone, Summarize, WriteBackup, SummaryWritten, AnalysisComplete, Aggregate,
         PipelineRaises, RecordFailure, RecordFailureFails
  <2> QED
    BY <1>1, <2>1, <2>2, PipelineStays DEF IInv, TypeOK
<1>2. ASSUME NEW b \in Actors, Accept(b), b # a PROVE Same
  BY <1>2 DEF IInv, TypeOK, Accept, GoTo
<1>3. ASSUME NEW A \in SUBSET Actors, Reset(A) PROVE Same \/ Out
  BY <1>3 DEF IInv, TypeOK, Reset
<1>4. ASSUME NEW b \in Actors,
             \/ PersistOutput(b) \/ RefuseLockHeld(b) \/ RefuseInFlight(b)
             \/ RefuseAnalyzed(b) \/ LookupFails(b)
      PROVE  Same \/ Out
  BY <1>3, <1>4 DEF PersistOutput, RefuseLockHeld, RefuseInFlight, RefuseAnalyzed, LookupFails,
                    Refuse, Return
<1>5. CASE ServerCrash \/ \E c \in Clis : CliKilled(c)
  BY <1>3, <1>5 DEF ServerCrash, CliKilled, Dies, Actors
<1>6. CASE UNCHANGED taskVars
  BY <1>6 DEF taskVars
<1>7. ASSUME NEW b \in Actors, NEW s \in Sessions, NEW f \in BOOLEAN, Starts(b, s, f)
      PROVE  Same \/ Out
  BY <1>7 DEF Starts, Call, IInv, TypeOK
<1>8. CASE ServerStarts \/ TimePasses \/ \E c \in Clis : CliStarts(c)
  BY <1>6, <1>7, <1>8, WorldStarts
<1>9. CASE UNCHANGED vars
  BY <1>6, <1>9 DEF vars
<1> QED
  BY <1>1, <1>2, <1>4, <1>5, <1>8, <1>9 DEF Next, Dispatch, Pipeline

\* Where no dispatches overlap, a step of the pipeline of a's session is a's.
LEMMA Mine ==
  ASSUME NoOverlap, NEW a \in Actors, Dispatching(a), NEW b \in Actors, Pipeline(b), job[b] = job[a]
  PROVE  b = a
  BY PipelineStays DEF NoOverlap, Dispatching

\* In a step that is not of its pipeline, a dispatching coroutine's session is untouched.
LEMMA Kept ==
  ASSUME IInv, [Next]_vars, NoOverlap, NEW a \in Actors, Dispatching(a), ~Pipeline(a)
  PROVE  job[a] \in Sessions /\ Untouched(job[a])
<1>1. job[a] \in Sessions
  BY DEF IInv, Registered, Dispatching, InDispatch
<1> QED
  BY <1>1, Mine, Foreign

\* Starting a run makes it the session's latest.
LEMMA HasLatestPreserved ==
  ASSUME IInv, [Next]_vars, HasLatest
  PROVE  HasLatest'
<1> SUFFICES ASSUME NEW s \in Sessions, RunsOf(s)' # {}
             PROVE  \E i \in RunsOf(s)' : \A j \in RunsOf(s)' : j <= i
  BY DEF HasLatest
<1>1. ASSUME RunsOf(s)' = RunsOf(s) PROVE \E i \in RunsOf(s)' : \A j \in RunsOf(s)' : j <= i
  BY <1>1 DEF HasLatest
<1>2. ASSUME NEW b \in Actors, StartRun(b), job[b] = s
      PROVE  \E i \in RunsOf(s)' : \A j \in RunsOf(s)' : j <= i
  <2>1. /\ RunIds' = RunIds \cup {Len(runs) + 1}
        /\ runs'[Len(runs) + 1].session = s
    BY <1>2, StartRunLemma DEF IInv
  <2>2. RunIds = 1..Len(runs) /\ Len(runs) \in Nat
    BY DEF RunIds, IInv, TypeOK
  <2>3. Len(runs) + 1 \in RunsOf(s)' /\ \A j \in RunsOf(s)' : j <= Len(runs) + 1
    BY <2>1, <2>2 DEF RunsOf
  <2> QED
    BY <2>3
<1>3. ASSUME NEW b \in Actors, Pipeline(b), ~StartRun(b) PROVE RunsOf(s)' = RunsOf(s)
  <2>1. CASE Segment(b) \/ BehaviorDone(b) \/ SummaryWritten(b) \/ RecordFailure(b)
    <3>1. run[b] \in RunIds
      BY <2>1 DEF IInv, TypeOK, Owned, InPipeline, Segment, BehaviorDone, SummaryWritten,
                  RecordFailure, At
    <3>2. PICK st \in Stages : SetStage(run[b], st)
      BY <2>1 DEF Segment, BehaviorDone, SummaryWritten, RecordFailure, Stages
    <3> QED
      BY <3>1, <3>2, SetStageLemma, SameRuns DEF IInv, TypeOK
  <2>2. CASE ~(Segment(b) \/ BehaviorDone(b) \/ SummaryWritten(b) \/ RecordFailure(b))
    <3>1. UNCHANGED runs
      BY <1>3, <2>2 DEF Pipeline, SessionIncomplete, StartRunFails, AnalyzeSegment, Summarize,
                        WriteBackup, AnalysisComplete, Aggregate, PipelineRaises,
                        RecordFailureFails, dbVars
    <3> QED
      BY <3>1 DEF RunsOf, RunIds
  <2> QED
    BY <2>1, <2>2
<1>4. CASE \A b \in Actors : Pipeline(b) => job[b] # s
  BY <1>1, <1>4, Foreign DEF Untouched
<1> QED
  BY <1>1, <1>2, <1>3, <1>4

\* A run stays the latest of its session while nobody else dispatches that session.
LEMMA NewestPreserved ==
  ASSUME IInv, IInv', [Next]_vars, NoOverlap, Newest
  PROVE  Newest'
<1> SUFFICES ASSUME NEW a \in Actors, run'[a] # 0, NEW i \in RunsOf(job[a])'
             PROVE  i <= run'[a]
  BY DEF Newest
<1> DEFINE Goal == i <= run'[a]
<1>0. pc'[a] \notin {"idle", "enter", "begin"}
  BY DEF IInv, Owned
<1>1. CASE StartRun(a)
  <2>1. job[a] \in Sessions /\ run'[a] = Len(runs) + 1
    BY <1>1 DEF IInv, TypeOK, Registered, StartRun, At
  <2>2. RunIds' = RunIds \cup {Len(runs) + 1} /\ RunIds = 1..Len(runs) /\ Len(runs) \in Nat
    BY <1>1, <2>1, StartRunLemma DEF IInv, TypeOK, RunIds
  <2> QED
    BY <2>1, <2>2 DEF RunsOf
<1>2. CASE ~StartRun(a) /\ Pipeline(a)
  <2>1. run'[a] = run[a] /\ job'[a] = job[a]
    BY <1>2 DEF Pipeline, SessionIncomplete, StartRunFails, Segment, AnalyzeSegment,
         BehaviorDone, Summarize, WriteBackup, SummaryWritten, AnalysisComplete, Aggregate,
         PipelineRaises, RecordFailure, RecordFailureFails, Quietly
  <2>2. \A j \in RunIds' : j \in RunIds /\ runs'[j].session = runs[j].session
    <3>1. CASE Segment(a) \/ BehaviorDone(a) \/ SummaryWritten(a) \/ RecordFailure(a)
      <4>1. run[a] \in RunIds
        BY <3>1 DEF IInv, TypeOK, Owned, InPipeline, Segment, BehaviorDone, SummaryWritten,
                    RecordFailure, At
      <4>2. PICK st \in Stages : SetStage(run[a], st)
        BY <3>1 DEF Segment, BehaviorDone, SummaryWritten, RecordFailure, Stages
      <4> QED
        BY <4>1, <4>2, SetStageLemma DEF IInv, TypeOK
    <3>2. CASE ~(Segment(a) \/ BehaviorDone(a) \/ SummaryWritten(a) \/ RecordFailure(a))
      <4>1. UNCHANGED runs
        BY <1>2, <3>2 DEF Pipeline, SessionIncomplete, StartRunFails, AnalyzeSegment, Summarize,
                          WriteBackup, AnalysisComplete, Aggregate, PipelineRaises,
                          RecordFailureFails, dbVars
      <4> QED
        BY <4>1 DEF RunIds
    <3> QED
      BY <3>1, <3>2
  <2> QED
    BY <2>1, <2>2 DEF Newest, RunsOf
<1>3. CASE ~Pipeline(a)
  <2>1. pc'[a] = pc[a] /\ run'[a] = run[a] /\ job'[a] = job[a] /\ Dispatching(a)
    <3>1. ~Accept(a)
      BY <1>0 DEF Accept, GoTo, IInv, TypeOK
    <3>2. pc'[a] \in ProgramCounters
      BY DEF IInv, TypeOK
    <3> QED
      BY <1>0, <1>3, <3>1, <3>2, Moves DEF Dispatching, ProgramCounters
  <2>2. RunsOf(job[a])' = RunsOf(job[a])
    BY <1>3, <2>1, Kept DEF Untouched
  <2> QED
    BY <2>1, <2>2 DEF Newest
<1> QED
  BY <1>1, <1>2, <1>3

\* The report and the backup stay a run's own until it is complete.
LEMMA CopiedPreserved ==
  ASSUME IInv, IInv', [Next]_vars, NoOverlap, Copied
  PROVE  Copied'
<1> SUFFICES ASSUME NEW a \in Actors, pc'[a] \in {"backup", "summary"}
             PROVE  /\ report'[job'[a]] = run'[a]
                    /\ pc'[a] = "summary" => backup'[job'[a]] = run'[a]
  BY DEF Copied
<1>1. CASE Summarize(a)
  <2>1. /\ pc'[a] = "backup" /\ job' = job /\ run' = run /\ job[a] \in Sessions
        /\ report' = [report EXCEPT ![job[a]] = run[a]]
    BY <1>1 DEF IInv, TypeOK, Registered, Summarize, At, GoTo, Quietly
  <2> QED
    BY <2>1 DEF IInv, TypeOK
<1>2. CASE WriteBackup(a)
  <2>1. /\ pc[a] = "backup" /\ job' = job /\ run' = run /\ job[a] \in Sessions
        /\ backup' = [backup EXCEPT ![job[a]] = run[a]] /\ report' = report
    BY <1>2 DEF IInv, Registered, WriteBackup, At, Quietly
  <2> QED
    BY <2>1 DEF IInv, TypeOK, Copied
<1>3. ~Pipeline(a) \/ Summarize(a) \/ WriteBackup(a)
  <2>1. \/ pc'[a] \notin {"backup", "summary"} \/ ~Pipeline(a) \/ Summarize(a) \/ WriteBackup(a)
    BY DEF Pipeline, SessionIncomplete, StartRun, StartRunFails, Segment, AnalyzeSegment,
         BehaviorDone, SummaryWritten, AnalysisComplete, Aggregate,
         PipelineRaises, RecordFailure, RecordFailureFails, GoTo, Await, IInv, TypeOK
  <2> QED
    BY <2>1
<1>4. CASE ~Pipeline(a)
  <2>1. pc'[a] = pc[a] /\ run'[a] = run[a] /\ job'[a] = job[a] /\ Dispatching(a)
    <3>1. ~Accept(a)
      BY DEF Accept, GoTo, IInv, TypeOK
    <3> QED
      BY <1>4, <3>1, Moves DEF Dispatching, InDispatch
  <2> QED
    BY <1>4, <2>1, Kept DEF Untouched, Copied
<1> QED
  BY <1>1, <1>2, <1>3, <1>4

\* A session accepted without force has no complete run until its own.
LEMMA UnanalysedPreserved ==
  ASSUME IInv, IInv', [Next]_vars, NoOverlap, HasLatest, Unanalysed
  PROVE  Unanalysed'
<1> SUFFICES ASSUME NEW a \in Actors, pc'[a] = "begin", ~force'[a]
             PROVE  ~LatestIn(job[a], {"summary_written"})'
  BY DEF Unanalysed
<1>1. CASE Accept(a)
  <2>1. UNCHANGED <<runs, job, force>> /\ ~LatestIn(job[a], BlockRedispatch)
    BY <1>1 DEF Accept, AlreadyAnalyzed, dbVars
  <2>2. BlockRedispatch = {"summary_written"}
    BY DEF BlockRedispatch, TerminalStages
  <2> QED
    BY <2>1, <2>2 DEF LatestIn, Latest, RunsOf, RunIds
<1>2. ~Pipeline(a)
  BY DEF Pipeline, SessionIncomplete, StartRun, StartRunFails, Segment, AnalyzeSegment,
         BehaviorDone, Summarize, WriteBackup, SummaryWritten, AnalysisComplete, Aggregate,
         PipelineRaises, RecordFailure, RecordFailureFails, GoTo, Await, IInv, TypeOK
<1>3. CASE ~Accept(a)
  <2>1. pc[a] = "begin" /\ ~force[a] /\ job'[a] = job[a] /\ Dispatching(a)
    BY <1>2, <1>3, Moves DEF Dispatching, InDispatch
  <2>2. job[a] \in Sessions /\ Untouched(job[a])
    BY <1>2, <2>1, Kept
  <2>3. LatestIn(job[a], {"summary_written"})' <=> LatestIn(job[a], {"summary_written"})
    BY <2>1, <2>2, LatestStays
  <2> QED
    BY <2>1, <2>3 DEF Unanalysed
<1> QED
  BY <1>1, <1>3

\* Spec keeps Serial as long as no dispatches overlap.
LEMMA SerialInvariance == Spec /\ []NoOverlap => []Serial
<1>1. Init => Serial
  <2>1. Init => RunIds = {} /\ \A a \in Actors : pc[a] = "idle" /\ run[a] = 0
    BY DEF Init, RunIds
  <2> QED
    BY <2>1 DEF Serial, HasLatest, Newest, Copied, Unanalysed, RunsOf
<1>2. IInv /\ IInv' /\ NoOverlap /\ Serial /\ [Next]_vars => Serial'
  BY HasLatestPreserved, NewestPreserved, CopiedPreserved, UnanalysedPreserved DEF Serial
<1> QED
  BY <1>1, <1>2, Invariance, PTL DEF Spec

\* A run is declared complete, in whatever process, only while report and backup are its own,
\* as long as no dispatches of one session overlap.
THEOREM CopiesKeptApart == Spec /\ []NoOverlap => BackupFollowsReport
<1> DEFINE good == \A i \in RunIds :
       runs'[i].stage = "summary_written" /\ runs[i].stage # "summary_written" =>
         LET s == runs[i].session IN report[s] = i /\ backup[s] = i
<1>1. IInv /\ Serial /\ [Next]_vars => [good]_vars
  <2> SUFFICES ASSUME IInv, Serial, Next, NEW i \in RunIds,
                      runs'[i].stage = "summary_written", runs[i].stage # "summary_written"
               PROVE  report[runs[i].session] = i /\ backup[runs[i].session] = i
    OBVIOUS
  <2>1. PICK b \in Actors : Pipeline(b) /\ job[b] = runs[i].session
    <3>1. runs[i].session \in Sessions
      BY Rows DEF IInv
    <3>2. ~Untouched(runs[i].session)
      BY DEF Untouched, RunsOf
    <3> QED
      BY <3>1, <3>2, Foreign
  <2>2. CASE SummaryWritten(b)
    <3>1. /\ pc[b] = "summary" /\ run[b] \in RunIds /\ runs[run[b]].session = job[b]
          /\ SetStage(run[b], "summary_written")
      BY <2>2 DEF SummaryWritten, At, IInv, TypeOK, Owned, InPipeline
    <3>2. i = run[b]
      BY <3>1, SetStageLemma DEF IInv, TypeOK, Stages
    <3> QED
      BY <3>1, <3>2 DEF Serial, Copied
  <2>3. CASE Segment(b) \/ BehaviorDone(b) \/ RecordFailure(b)
    <3>1. /\ run[b] \in RunIds
          /\ \E st \in Stages \ {"summary_written"} : SetStage(run[b], st)
      BY <2>3 DEF Segment, BehaviorDone, RecordFailure, At, IInv, TypeOK, Owned, InPipeline, Stages
    <3> QED
      BY <3>1, SetStageLemma DEF IInv, TypeOK
  <2>4. CASE StartRun(b)
    <3>1. job[b] \in Sessions
      BY <2>4 DEF IInv, Registered, StartRun, At
    <3> QED
      BY <2>4, <3>1, StartRunLemma DEF IInv
  <2>5. CASE ~(StartRun(b) \/ Segment(b) \/ BehaviorDone(b) \/ SummaryWritten(b) \/ RecordFailure(b))
    BY <2>1, <2>5 DEF Pipeline, SessionIncomplete, StartRunFails, AnalyzeSegment, Summarize,
                      WriteBackup, AnalysisComplete, Aggregate, PipelineRaises,
                      RecordFailureFails, dbVars
  <2> QED
    BY <2>2, <2>3, <2>4, <2>5
<1> QED
  BY <1>1, Invariance, SerialInvariance, PTL DEF Spec, BackupFollowsReport

\* A session's report is replaced only by that of a later run, as long as no dispatches of it overlap.
THEOREM ReportsAdvanceApart == Spec /\ []NoOverlap => ReportNeverRegresses
<1>1. IInv /\ Serial /\ [Next]_vars => [\A s \in Sessions : report'[s] >= report[s]]_vars
  <2> SUFFICES ASSUME IInv, Serial, Next, NEW s \in Sessions PROVE report'[s] >= report[s]
    OBVIOUS
  <2>0. report[s] \in Nat /\ \A i \in RunIds : i \in Nat
    BY DEF IInv, TypeOK, RunIds
  <2>1. CASE report'[s] = report[s]
    BY <2>0, <2>1
  <2>2. ASSUME report'[s] # report[s] PROVE report'[s] >= report[s]
    <3>1. PICK b \in Actors : Pipeline(b) /\ job[b] = s
      BY <2>2, Foreign DEF Untouched
    <3>2. Summarize(b)
      BY <2>2, <3>1 DEF Pipeline, SessionIncomplete, StartRun, StartRunFails, Segment,
                        AnalyzeSegment, BehaviorDone, WriteBackup, SummaryWritten,
                        AnalysisComplete, Aggregate, PipelineRaises, RecordFailure,
                        RecordFailureFails, dbVars
    <3>3. report'[s] = run[b] /\ run[b] # 0 /\ run[b] \in RunIds
      BY <3>1, <3>2 DEF Summarize, At, IInv, TypeOK, Owned, InPipeline
    <3>4. report[s] # 0 => report[s] \in RunsOf(s)
      BY DEF IInv, TypeOK, ReportGrounded, RunsOf
    <3> QED
      BY <2>0, <3>1, <3>3, <3>4 DEF Serial, Newest
  <2> QED
    BY <2>1, <2>2
<1> QED
  BY <1>1, Invariance, SerialInvariance, PTL DEF Spec, ReportNeverRegresses

\* A session whose latest run is complete is not analysed again, as long as nobody forces it
\* and no dispatches of it overlap.
THEOREM NoRerunApart == Spec /\ []NoOverlap /\ []Unforced => NoRerunOfAnalyzed
<1> DEFINE good == Len(runs') > Len(runs) =>
                     ~LatestIn(runs'[Len(runs')].session, {"summary_written"})
<1>1. IInv /\ Serial /\ Unforced /\ [Next]_vars => [good]_vars
  <2> SUFFICES ASSUME IInv, Serial, Unforced, Next, Len(runs') > Len(runs)
               PROVE  ~LatestIn(runs'[Len(runs')].session, {"summary_written"})
    OBVIOUS
  <2>1. PICK a \in Actors : StartRun(a)
    <3>1. Len(runs) \in Nat
      BY DEF IInv, TypeOK
    <3>2. RunIds' # RunIds
      <4>1. Len(runs') \in Nat
        BY TypePreserved DEF IInv, TypeOK
      <4> QED
        BY <3>1, <4>1 DEF RunIds
    <3>3. CASE ServerStarts \/ TimePasses \/ \E c \in Clis : CliStarts(c)
      BY <3>2, <3>3, WorldKeepsRuns
    <3>4. CASE ServerCrash \/ \E c \in Clis : CliKilled(c)
      BY <3>2, <3>4 DEF ServerCrash, CliKilled, Dies, dbVars, RunIds
    <3>5. ASSUME NEW a \in Actors,
                 Segment(a) \/ BehaviorDone(a) \/ SummaryWritten(a) \/ RecordFailure(a)
          PROVE  FALSE
      <4>1. run[a] \in RunIds
        BY <3>5 DEF IInv, TypeOK, Owned, InPipeline, Segment, BehaviorDone, SummaryWritten,
                    RecordFailure, At
      <4>2. PICK st \in Stages : SetStage(run[a], st)
        BY <3>5 DEF Segment, BehaviorDone, SummaryWritten, RecordFailure, Stages
      <4> QED
        BY <3>2, <4>1, <4>2, SetStageLemma DEF IInv, TypeOK
    <3>6. ASSUME NEW a \in Actors, Dispatch(a), ~StartRun(a),
                 ~(Segment(a) \/ BehaviorDone(a) \/ SummaryWritten(a) \/ RecordFailure(a))
          PROVE  FALSE
      <4>1. UNCHANGED runs
        BY <3>6 DEF Dispatch, SessionIncomplete, StartRunFails, AnalyzeSegment, Summarize,
                    WriteBackup, AnalysisComplete, Aggregate, PipelineRaises, RecordFailureFails,
                    PersistOutput, Accept, RefuseLockHeld, RefuseInFlight, RefuseAnalyzed,
                    LookupFails, Refuse, dbVars
      <4> QED
        BY <3>2, <4>1 DEF RunIds
    <3> QED
      BY <3>3, <3>4, <3>5, <3>6 DEF Next
  <2>2. pc[a] = "begin" /\ job[a] \in Sessions /\ ~force[a]
    BY <2>1 DEF StartRun, At, IInv, Registered, Unforced
  <2>3. Len(runs') = Len(runs) + 1 /\ runs'[Len(runs) + 1].session = job[a]
    BY <2>1, <2>2, StartRunLemma DEF IInv
  <2> QED
    BY <2>2, <2>3 DEF Serial, Unanalysed
<1> QED
  BY <1>1, Invariance, SerialInvariance, PTL DEF Spec, NoRerunOfAnalyzed

\* Without a command beside it, the server never forces and its registry keeps dispatches apart.
LEMMA ServerAlone == ASSUME Clis = {} PROVE Spec => []NoOverlap /\ []Unforced
<1>1. IInv => NoOverlap
  BY DEF IInv, Registered, ExclusiveDispatch, NoOverlap, ProcessOf
<1>2. Init => Unforced
  BY DEF Init, Unforced
<1>3. IInv /\ Unforced /\ [Next]_vars => Unforced'
  <2> SUFFICES ASSUME IInv, Unforced, [Next]_vars PROVE Unforced'
    OBVIOUS
  <2> USE DEF Unforced
  <2>1. CASE UNCHANGED force
    BY <2>1
  <2>2. ASSUME NEW A \in SUBSET Actors, Reset(A) PROVE Unforced'
    BY <2>2 DEF Reset
  <2>3. ASSUME NEW b \in Actors, Dispatch(b) PROVE Unforced'
    <3>1. CASE Pipeline(b) \/ Accept(b)
      BY <2>1, <3>1 DEF Pipeline, SessionIncomplete, StartRun, StartRunFails, Segment,
           AnalyzeSegment, BehaviorDone, Summarize, WriteBackup, SummaryWritten, AnalysisComplete,
           Aggregate, PipelineRaises, RecordFailure, RecordFailureFails, Quietly, Accept
    <3>2. CASE \/ PersistOutput(b) \/ RefuseLockHeld(b) \/ RefuseInFlight(b)
               \/ RefuseAnalyzed(b) \/ LookupFails(b)
      BY <2>2, <3>2 DEF PersistOutput, RefuseLockHeld, RefuseInFlight, RefuseAnalyzed, LookupFails,
                        Refuse, Return
    <3> QED
      BY <2>3, <3>1, <3>2 DEF Dispatch, Pipeline
  <2>4. CASE ServerCrash
    BY <2>2, <2>4 DEF ServerCrash, Dies, Actors
  <2>5. CASE ServerStarts
    <3>1. ASSUME NEW t \in Actors, NEW s \in Sessions, Call(t, s, FALSE) PROVE Unforced'
      BY <3>1 DEF Call, IInv, TypeOK
    <3> QED
      BY <2>1, <2>5, <3>1 DEF ServerStarts, ObserveEvent, SweepSkip, SweepDispatch,
           ObserveSessionEnd, ObserveSessionEndUnstored, SweepTick, Restart, Materialise,
           taskVars, Actors, ServerTasks
  <2>6. CASE TimePasses
    BY <2>1, <2>6 DEF TimePasses, GoQuiet, ForgetDispatch, AgeRun, taskVars
  <2>7. CASE UNCHANGED vars
    BY <2>1, <2>7 DEF vars, taskVars
  <2> QED
    BY <2>3, <2>4, <2>5, <2>6, <2>7 DEF Next
<1> QED
  BY <1>1, <1>2, <1>3, Invariance, PTL DEF Spec

\* With the server alone, completion finds report and backup its own.
THEOREM CopiesKept == ASSUME Clis = {} PROVE Spec => BackupFollowsReport
  BY ServerAlone, CopiesKeptApart, PTL

\* With the server alone, reports never regress, however long an agent is waited for.
THEOREM ReportsAdvance == ASSUME Clis = {} PROVE Spec => ReportNeverRegresses
  BY ServerAlone, ReportsAdvanceApart, PTL

\* The server alone never analyses again what it analysed, through crashes and restarts.
THEOREM NoRerun == ASSUME Clis = {} PROVE Spec => NoRerunOfAnalyzed
  BY ServerAlone, NoRerunApart, PTL
=============================================================================
