-------------------------------- MODULE Ingest --------------------------------
(***************************************************************************)
(* How one project's hook events get into its database: the hook script,   *)
(* which posts an event or appends it to the fallback file; the handler,   *)
(* which numbers it with SessionTracker.bind and answers before anything   *)
(* is on disk; ObservationPipeline.ingest, a task of its own per event,    *)
(* which writes the ingress record, the raw trace and the row; the         *)
(* server's shutdown, which drains those tasks; and `secondsight sync`, a  *)
(* process of its own that replays the sync log, walks the raw traces and  *)
(* archives the fallback file.                                             *)
(*                                                                         *)
(* A step of the server is the code up to the next await; file writes and  *)
(* the warm-start query run in threads.  Each event is delivered once and  *)
(* has an id and a (session, sequence number) of its own, as the hook      *)
(* scripts make them, so no insert meets another event's row.              *)
(***************************************************************************)
EXTENDS Naturals, Sequences, FiniteSets

CONSTANTS
  Sessions, Agents,
  Events,        \* the hook invocations
  Hooks,         \* what each is about: [session, kind, agent]
  MaxStarts,     \* bound: starts of the server after the first
  MaxSyncs,      \* bound: runs of `secondsight sync`
  MaxFaults      \* bound: crashes, cut-off drains, I/O errors, rebuilds

Kinds == {"user_prompt", "sub_agent_start", "sub_agent_end", "other"}

ASSUME ConstantsAssumption ==
  /\ Hooks \in [Events -> [session : Sessions, kind : Kinds, agent : Agents]]
  /\ MaxStarts \in Nat /\ MaxSyncs \in Nat /\ MaxFaults \in Nat

VARIABLES
  \* the hook scripts, and where the server is with each event
  hook, phase,
  \* the server, and the tracker's cache: the sessions it has a state for,
  \* and in it segment_index and the sub-agent stack
  serving, known, segment, stack,
  \* the events bind() numbered, and their segment_index
  bound, index,
  \* disk: raw traces, the events table, the sync log, the fallback file
  \* and its archives
  traces, rows, syncLog, fallback, archive,
  \* the sync process: where it is, the traces it has still to restore, the
  \* entries it keeps, the sessions it has still to list; the traces there were
  \* when it began, and the failures it reports
  syncPc, todo, left, dirs, initial, missed,
  \* environment budgets
  starts, syncs, faults

trackerVars == <<known, segment, stack, bound, index>>
diskVars == <<traces, rows, syncLog>>
spoolVars == <<fallback, archive>>
syncVars == <<syncPc, todo, left, dirs, initial, missed, syncs>>
vars == <<hook, phase, serving, trackerVars, diskVars, spoolVars, syncVars,
          starts, faults>>

-----------------------------------------------------------------------------

SessionOf(e) == Hooks[e].session
EventsOf(s) == {e \in Events : SessionOf(e) = s}

InHandler == {"lookup", "reading", "warm"}
InPipeline == {"ingress", "trace", "insert"}
Phases == {"none", "done", "dead"} \cup InHandler \cup InPipeline

InPhase(P) == {e \in Events : phase[e] \in P}

Fault == faults < MaxFaults /\ faults' = faults + 1

TypeOK ==
  /\ hook \in [Events -> {"idle", "posting", "ok", "fallback"}]
  /\ phase \in [Events -> Phases]
  /\ serving \in {"up", "draining", "down"}
  /\ known \subseteq Sessions
  /\ segment \in [Sessions -> Nat]
  /\ stack \in [Sessions -> Seq(Agents)]
  /\ bound \subseteq Events
  /\ index \in [Events -> Nat]
  /\ traces \subseteq Events /\ rows \subseteq Events /\ syncLog \subseteq Events
  /\ fallback \subseteq Events /\ archive \subseteq Events
  /\ syncPc \in {"idle", "replay", "list", "walk"}
  /\ dirs \subseteq Sessions
  /\ {todo, left, initial, missed} \subseteq SUBSET Events
  /\ starts \in Nat /\ syncs \in Nat /\ faults \in Nat

Init ==
  /\ hook = [e \in Events |-> "idle"]
  /\ phase = [e \in Events |-> "none"]
  /\ serving = "up"
  /\ known = {}
  /\ segment = [s \in Sessions |-> 0]
  /\ stack = [s \in Sessions |-> <<>>]
  /\ bound = {}
  /\ index = [e \in Events |-> 0]
  /\ traces = {} /\ rows = {} /\ syncLog = {}
  /\ fallback = {} /\ archive = {}
  /\ syncPc = "idle"
  /\ todo = {} /\ left = {} /\ dirs = {} /\ initial = {} /\ missed = {}
  /\ starts = 0 /\ syncs = 0 /\ faults = 0

-----------------------------------------------------------------------------
\* The hook script

\* curl failed, for these events: the record is appended to fallback_events.jsonl.
Spool(E) ==
  /\ hook' = [e \in Events |-> IF e \in E /\ hook[e] = "posting" THEN "fallback" ELSE hook[e]]
  /\ fallback' = fallback \cup {e \in E : hook[e] = "posting"}

Post(e) ==
  /\ hook[e] = "idle" /\ serving = "up"
  /\ hook' = [hook EXCEPT ![e] = "posting"]
  /\ phase' = [phase EXCEPT ![e] = "lookup"]
  /\ UNCHANGED <<serving, trackerVars, diskVars, spoolVars, syncVars, starts, faults>>

ConnectionRefused(e) ==
  /\ hook[e] = "idle" /\ serving # "up"
  /\ hook' = [hook EXCEPT ![e] = "fallback"]
  /\ fallback' = fallback \cup {e}
  /\ UNCHANGED <<phase, serving, trackerVars, diskVars, archive, syncVars, starts, faults>>

\* --max-time 1 is over; the server goes on with the request.
CurlTimesOut(e) ==
  /\ hook[e] = "posting"
  /\ Spool({e})
  /\ UNCHANGED <<phase, serving, trackerVars, diskVars, archive, syncVars, starts, faults>>

-----------------------------------------------------------------------------
\* The handler, up to create_task

Answer(e, to) ==
  /\ phase' = [phase EXCEPT ![e] = to]
  /\ IF to = "dead" \* 422
       THEN Spool({e})
       ELSE /\ hook' = [hook EXCEPT ![e] = IF @ = "posting" THEN "ok" ELSE @]
            /\ UNCHANGED fallback

\* SubAgentStackMismatch
Mismatch(e, st) ==
  Hooks[e].kind = "sub_agent_end" /\ (st = <<>> \/ st[Len(st)] # Hooks[e].agent)

\* Mutant: the session's id is pushed, not the sub-agent's.
PushedSession(e, st) ==
  IF Hooks[e].kind = "sub_agent_start" THEN Append(st, SessionOf(e)) ELSE st

Pushed(e, st) ==
  IF Hooks[e].kind = "sub_agent_start" THEN Append(st, Hooks[e].agent)
  ELSE IF Hooks[e].kind = "sub_agent_end" THEN SubSeq(st, 1, Len(st) - 1)
  ELSE st

\* bind(), on a session state with this segment_index and this stack.
Bind(e, seg, st) ==
  LET s == SessionOf(e)
      n == IF Hooks[e].kind = "user_prompt" THEN seg + 1 ELSE seg
  IN  /\ known' = known \cup {s}
      /\ IF Mismatch(e, st)
           THEN /\ segment' = [segment EXCEPT ![s] = seg]
                /\ stack' = [stack EXCEPT ![s] = st]
                /\ Answer(e, "dead")
                /\ UNCHANGED <<bound, index>>
           ELSE /\ segment' = [segment EXCEPT ![s] = n]
                /\ stack' = [stack EXCEPT ![s] = Pushed(e, st)]
                /\ bound' = bound \cup {e}
                /\ index' = [index EXCEPT ![e] = n]
                /\ Answer(e, "ingress")
      /\ UNCHANGED <<serving, diskVars, archive, syncVars, starts, faults>>

\* LazyCacheWithLocking.get, the cached case, also for one who waited.
Hit(e) ==
  /\ phase[e] = "lookup"
  /\ SessionOf(e) \in known
  /\ Bind(e, segment[SessionOf(e)], stack[SessionOf(e)])

\* The session's materialisation lock is held across the warm-start query.
KeyFree(s) == EventsOf(s) \cap InPhase({"reading", "warm"}) = {}

\* Mutant: the query runs without the lock.
MissUnlocked(e) ==
  /\ phase[e] = "lookup"
  /\ SessionOf(e) \notin known
  /\ phase' = [phase EXCEPT ![e] = "reading"]
  /\ UNCHANGED <<hook, serving, trackerVars, diskVars, spoolVars, syncVars, starts, faults>>

Miss(e) ==
  /\ phase[e] = "lookup"
  /\ SessionOf(e) \notin known /\ KeyFree(SessionOf(e))
  /\ phase' = [phase EXCEPT ![e] = "reading"]
  /\ UNCHANGED <<hook, serving, trackerVars, diskVars, spoolVars, syncVars, starts, faults>>

\* MAX(segment_index) over the session's rows, and 0 without rows.
IsMaxSegment(m, s) ==
  LET R == rows \cap EventsOf(s) IN
  /\ \A f \in R : index[f] <= m
  /\ IF R = {} THEN m = 0 ELSE \E f \in R : index[f] = m

WarmStart(e) ==
  /\ phase[e] = "reading"
  /\ \E m \in {0} \cup {index[f] : f \in rows} :
       IsMaxSegment(m, SessionOf(e)) /\ index' = [index EXCEPT ![e] = m]
  /\ phase' = [phase EXCEPT ![e] = "warm"]
  /\ UNCHANGED <<hook, serving, known, segment, stack, bound, diskVars, spoolVars, syncVars,
                 starts, faults>>

\* The query raises: nothing is cached, the lock is released.
WarmStartFails(e) ==
  /\ phase[e] = "reading"
  /\ Fault
  /\ Answer(e, "dead")
  /\ UNCHANGED <<serving, trackerVars, diskVars, archive, syncVars, starts>>

Install(e) ==
  /\ phase[e] = "warm"
  /\ Bind(e, index[e], <<>>)

-----------------------------------------------------------------------------
\* ObservationPipeline.ingest

Advance(e, from, to) == phase[e] = from /\ phase' = [phase EXCEPT ![e] = to]

pipelineFrame == <<hook, serving, trackerVars, spoolVars, syncVars, starts>>

\* Mutant: the row is inserted before the trace is written.
InsertFirst(e) ==
  /\ Advance(e, "ingress", "insert")
  /\ UNCHANGED <<pipelineFrame, diskVars, faults>>

WriteIngress(e) ==
  /\ Advance(e, "ingress", "trace")
  /\ UNCHANGED <<pipelineFrame, diskVars, faults>>

WriteTrace(e) ==
  /\ Advance(e, "trace", "insert")
  /\ traces' = traces \cup {e}
  /\ UNCHANGED <<pipelineFrame, rows, syncLog, faults>>

\* Mutant: a failed write is logged, and the insert goes on.
WriteFailsOpen(e) ==
  /\ phase[e] \in {"ingress", "trace"}
  /\ phase' = [phase EXCEPT ![e] = "insert"]
  /\ Fault
  /\ UNCHANGED <<pipelineFrame, diskVars>>

\* Either file write raises: the task ends, and logs.
WriteFails(e) ==
  /\ phase[e] \in {"ingress", "trace"}
  /\ phase' = [phase EXCEPT ![e] = "dead"]
  /\ Fault
  /\ UNCHANGED <<pipelineFrame, diskVars>>

Insert(e) ==
  /\ Advance(e, "insert", "done")
  /\ rows' = rows \cup {e}
  /\ UNCHANGED <<pipelineFrame, traces, syncLog, faults>>

InsertFails(e) ==
  /\ Advance(e, "insert", "done")
  /\ syncLog' = syncLog \cup {e}
  /\ Fault
  /\ UNCHANGED <<pipelineFrame, traces, rows>>

\* The sync log cannot be written either.
RecordFails(e) ==
  /\ Advance(e, "insert", "dead")
  /\ faults + 2 <= MaxFaults /\ faults' = faults + 2
  /\ UNCHANGED <<pipelineFrame, diskVars>>

-----------------------------------------------------------------------------
\* The server process

\* Everything in memory goes: the tracker's cache, and the tasks.
Exit ==
  /\ serving' = "down"
  /\ known' = {}
  /\ segment' = [s \in Sessions |-> 0]
  /\ stack' = [s \in Sessions |-> <<>>]
  /\ phase' = [e \in Events |-> IF phase[e] \in InHandler \cup InPipeline THEN "dead" ELSE phase[e]]
  /\ UNCHANGED <<bound, index, rows, syncLog, archive, syncVars, starts>>

Crash ==
  /\ serving # "down"
  /\ Fault
  /\ Spool(Events)
  /\ Exit
  /\ UNCHANGED traces

\* SIGTERM: no new connections; requests in progress are answered first.
Stop ==
  /\ serving = "up"
  /\ serving' = "draining"
  /\ UNCHANGED <<hook, phase, trackerVars, diskVars, spoolVars, syncVars, starts, faults>>

\* Mutant: the process exits without draining inflight_tasks.
DrainedAtOnce ==
  /\ serving = "draining" /\ InPhase(InHandler) = {}
  /\ Exit
  /\ UNCHANGED <<hook, fallback, traces, faults>>

\* asyncio.wait(pending) returned with nothing pending.
Drained ==
  /\ serving = "draining" /\ InPhase(InHandler \cup InPipeline) = {}
  /\ Exit
  /\ UNCHANGED <<hook, fallback, traces, faults>>

\* The drain timed out and the tasks are cancelled; the thread of a trace that
\* was being written is not.
DrainTimesOut ==
  /\ serving = "draining" /\ InPhase(InHandler) = {} /\ InPhase(InPipeline) # {}
  /\ Fault
  /\ Exit
  /\ \E written \in SUBSET InPhase({"trace"}) : traces' = traces \cup written
  /\ UNCHANGED <<hook, fallback>>

Start ==
  /\ serving = "down" /\ starts < MaxStarts
  /\ serving' = "up" /\ starts' = starts + 1
  /\ UNCHANGED <<hook, phase, trackerVars, diskVars, spoolVars, syncVars, faults>>

-----------------------------------------------------------------------------
\* `secondsight sync`

syncFrame == <<hook, phase, serving, trackerVars, traces, starts>>

\* _walk_filesystem lists the sessions directory.
Walk == syncPc' = "list" /\ dirs' = {SessionOf(e) : e \in traces}

\* FilesystemBackfill.run: the pending entries are read once, up front.
BeginRun ==
  /\ syncPc = "idle" /\ syncs < MaxSyncs /\ syncs' = syncs + 1
  /\ todo' = syncLog
  /\ IF syncLog = {} THEN Walk ELSE syncPc' = "replay" /\ UNCHANGED dirs
  /\ initial' = traces
  /\ left' = {} /\ missed' = {}

Begin ==
  /\ BeginRun
  /\ UNCHANGED <<syncFrame, rows, syncLog, spoolVars, faults>>

\* --rebuild sets the database aside first.  The operator has stopped the server.
BeginRebuild ==
  /\ serving = "down"
  /\ BeginRun
  /\ rows' = {}
  /\ Fault
  /\ UNCHANGED <<syncFrame, syncLog, spoolVars>>

\* A trace to replay or to visit is read and inserted, unless it is there ...
Restore(e) ==
  /\ syncPc \in {"replay", "walk"} /\ e \in todo
  /\ rows' = rows \cup {e}
  /\ todo' = todo \ {e}
  /\ UNCHANGED <<syncFrame, syncLog, spoolVars, syncPc, left, dirs, initial, missed, syncs, faults>>

\* Mutant: a trace that cannot be inserted is passed over.
RestoreSkips(e) ==
  /\ syncPc \in {"replay", "walk"} /\ e \in todo
  /\ Fault
  /\ todo' = todo \ {e}
  /\ UNCHANGED <<syncFrame, rows, syncLog, spoolVars, syncPc, left, dirs, initial, missed, syncs>>

\* ... or cannot be read or inserted: the entry stays in the log, and the
\* failure is reported.
RestoreFails(e) ==
  /\ syncPc \in {"replay", "walk"} /\ e \in todo
  /\ Fault
  /\ todo' = todo \ {e}
  /\ left' = IF syncPc = "replay" THEN left \cup {e} ELSE left
  /\ missed' = missed \cup {e}
  /\ UNCHANGED <<syncFrame, rows, syncLog, spoolVars, syncPc, dirs, initial, syncs>>

\* _rewrite_sync_log: whatever was appended since the read is gone.
Rewrite ==
  /\ syncPc = "replay" /\ todo = {}
  /\ syncLog' = left
  /\ Walk
  /\ UNCHANGED <<syncFrame, rows, spoolVars, todo, left, initial, missed, syncs, faults>>

\* ... then, one after another, the traces of each.
List(s) ==
  /\ syncPc = "list" /\ s \in dirs
  /\ syncPc' = "walk"
  /\ dirs' = dirs \ {s}
  /\ todo' = traces \cap EventsOf(s)
  /\ UNCHANGED <<syncFrame, rows, syncLog, spoolVars, left, initial, missed, syncs, faults>>

NextDir ==
  /\ syncPc = "walk" /\ todo = {}
  /\ syncPc' = "list"
  /\ UNCHANGED <<syncFrame, rows, syncLog, spoolVars, todo, left, dirs, initial, missed, syncs,
                 faults>>

SyncEnds ==
  /\ syncPc' = "idle"
  /\ todo' = {} /\ left' = {} /\ dirs' = {} /\ initial' = {} /\ missed' = {}

\* The fallback file is set aside, unless the operator asked not to, or --rebuild was given.
SetAside ==
  \/ UNCHANGED spoolVars
  \/ archive' = archive \cup fallback /\ fallback' = {}

Finish ==
  /\ syncPc = "list" /\ dirs = {}
  /\ SyncEnds
  /\ SetAside
  /\ UNCHANGED <<syncFrame, rows, syncLog, syncs, faults>>

\* Killed, or an error that no except clause of the backfill expects: that is reported as the
\* project's, and the fallback file is set aside all the same.
SyncDies ==
  /\ syncPc # "idle"
  /\ Fault
  /\ SyncEnds
  /\ SetAside
  /\ UNCHANGED <<syncFrame, rows, syncLog, syncs>>

-----------------------------------------------------------------------------

HookStep(e) == Post(e) \/ ConnectionRefused(e) \/ CurlTimesOut(e)
HandlerStep(e) == Hit(e) \/ Miss(e) \/ WarmStart(e) \/ WarmStartFails(e) \/ Install(e)
PipelineStep(e) ==
  \/ WriteIngress(e) \/ WriteTrace(e) \/ WriteFails(e)
  \/ Insert(e) \/ InsertFails(e) \/ RecordFails(e)
ServerStep == Crash \/ Stop \/ Drained \/ DrainTimesOut \/ Start
SyncStep ==
  \/ Begin \/ BeginRebuild \/ Rewrite \/ NextDir \/ Finish \/ SyncDies
  \/ \E e \in Events : Restore(e) \/ RestoreFails(e)
  \/ \E s \in Sessions : List(s)

Next ==
  \/ \E e \in Events : HookStep(e) \/ HandlerStep(e) \/ PipelineStep(e)
  \/ ServerStep
  \/ SyncStep

Spec == Init /\ [][Next]_vars

-----------------------------------------------------------------------------
\* Properties.  "Without a fault" means before any crash, cut-off drain, I/O
\* error or rebuild; stopping and restarting the server is no fault.

\* The hook has returned, and the event is neither on disk, nor spooled, nor in a task.
Vanished(e) ==
  /\ hook[e] \in {"ok", "fallback"}
  /\ e \notin traces \cup fallback \cup archive /\ phase[e] \notin InPipeline

\* "Losing ... silently is the worst possible failure" (observation/pipeline.py): an
\* event vanishes only before its trace is written, and by a failure that hits it, of
\* that write or of the server as a whole.  The drain that gives up after a second is
\* one, though api/server.py calls it safe, the "raw trace is already on disk"; an
\* orderly stop, a timeout of curl, sync, or another event's failure is not.
NothingVanishes ==
  [][\A e \in Events : Vanished(e)' /\ ~Vanished(e) =>
       /\ phase[e] \in {"ingress", "trace"} /\ faults' > faults
       /\ serving' = "down" \/ phase' = [phase EXCEPT ![e] = "dead"]]_vars

\* A prompt opens a new segment and any other event continues one: bind() gives
\* an event an index not below, and a prompt one above, those of the session's
\* events in E.
Advances(e, E) ==
  \A f \in E : SessionOf(f) = SessionOf(e) =>
    index'[e] >= index[f] + (IF Hooks[e].kind = "user_prompt" THEN 1 ELSE 0)

\* ... all that were bound before, without a fault, and across restarts.
SegmentsAdvance == [][faults' = 0 => \A e \in bound' \ bound : Advances(e, bound)]_vars

\* ... those with a trace on disk, whatever happens ("segment_index is monotonically
\* non-decreasing", and "increments by exactly 1 when the next event is a user_prompt").
TracedSegmentsAdvance ==
  [][\A e \in bound' \ bound : Advances(e, bound \cap traces)]_vars

\* A row's raw trace is on disk first, and so is that of an entry of the sync
\* log: what `sync --rebuild` and the replay start from.
TraceFirst == rows \cup syncLog \subseteq traces

\* A run of sync leaves in the database every trace it found on disk, but those
\* it reports as failures: also those whose sync log entry is lost.
SyncRestoresAll ==
  [][syncPc = "list" /\ dirs = {} /\ syncPc' = "idle" /\ faults' = faults =>
       initial \subseteq rows \cup missed]_vars

\* "The sync_log replay step removes processed lines only after the
\* corresponding insert returned without raising" (storage/filesystem_backfill.py).
LogDropsOnlyRestored == [][syncLog \ syncLog' \subseteq rows]_vars

\* The pipeline and sync implement the promise of EventStore.
Status(e) ==
  IF e \in rows THEN "stored"
  ELSE IF e \in traces THEN "traced"
  ELSE IF phase[e] \in {"ingress", "trace"} THEN "accepted"
  ELSE IF e \in bound THEN "lost"
  ELSE "unseen"

Store == INSTANCE EventStore WITH status <- [e \in Events |-> Status(e)]
StoreSpec == Store!Spec

===============================================================================
