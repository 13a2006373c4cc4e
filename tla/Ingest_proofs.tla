----------------------------- MODULE Ingest_proofs -----------------------------
(***************************************************************************)
(* Proofs about Ingest, for any sessions, hooks and bounds.                *)
(***************************************************************************)
EXTENDS Ingest, SequenceTheorems, TLAPS

-----------------------------------------------------------------------------
\* The inductive invariant

\* Where an event is tells how far its writes have got.
Paths ==
  \A e \in Events :
    /\ hook[e] = "idle" => phase[e] = "none"
    /\ phase[e] \in {"none"} \cup InHandler => e \notin bound
    /\ phase[e] \in InPipeline \cup {"done"} => e \in bound
    /\ phase[e] \in {"ingress", "trace"} => e \notin traces
    /\ phase[e] \in {"insert", "done"} => e \in traces
    /\ e \in traces => e \in bound

\* What a hook spooled is spooled, or set aside.
Accounted ==
  \A e \in Events : hook[e] = "fallback" => e \in fallback \cup archive

\* Whatever is to be restored has a trace.
Backed ==
  /\ TraceFirst
  /\ todo \cup left \cup initial \subseteq traces

\* A trace sync found is in the database, reported, or still to be visited.
Covered ==
  /\ syncPc = "list" => todo = {}
  /\ syncPc \in {"list", "walk"} =>
       \A e \in initial :
         e \in rows \cup missed \cup todo \/ SessionOf(e) \in dirs

\* A session is warm-started by one handler at a time, and only if unknown.
Locked ==
  \A e \in Events : phase[e] \in {"reading", "warm"} =>
    /\ SessionOf(e) \notin known
    /\ \A f \in Events : phase[f] \in {"reading", "warm"} /\ SessionOf(f) = SessionOf(e) => f = e

\* Without a fault, the index the next event of a session starts from, in the
\* tracker, in a handler's hands, or in the database, is the highest given out.
Numbered ==
  faults = 0 =>
    \A e \in bound :
      /\ phase[e] # "dead"
      /\ phase[e] = "done" => e \in rows
      /\ SessionOf(e) \in known => index[e] <= segment[SessionOf(e)]
      /\ SessionOf(e) \notin known => e \in rows
      /\ \A f \in Events : phase[f] = "warm" /\ SessionOf(f) = SessionOf(e) => index[e] <= index[f]

IInv == TypeOK /\ Paths /\ Accounted /\ Backed /\ Covered /\ Locked /\ Numbered

-----------------------------------------------------------------------------
\* Type correctness

\* What a hook is about.
LEMMA HookTypes ==
  ASSUME NEW e \in Events
  PROVE  /\ SessionOf(e) \in Sessions
         /\ Hooks[e].kind \in Kinds
         /\ Hooks[e].agent \in Agents
  BY ConstantsAssumption DEF SessionOf

\* The stack stays a stack of sub-agent ids.
LEMMA PushedType ==
  ASSUME NEW e \in Events, NEW st \in Seq(Agents), ~Mismatch(e, st)
  PROVE  Pushed(e, st) \in Seq(Agents)
<1>1. CASE Hooks[e].kind = "sub_agent_start"
  BY <1>1, HookTypes DEF Pushed
<1>2. CASE Hooks[e].kind = "sub_agent_end"
  <2>1. st # <<>>
    BY <1>2 DEF Mismatch
  <2>2. Len(st) \in Nat /\ Len(st) >= 1
    BY <2>1, EmptySeq, LenProperties
  <2>3. SubSeq(st, 1, Len(st) - 1) \in Seq(Agents)
    BY <2>2, SubSeqProperties, LenProperties
  <2> QED
    BY <1>2, <2>3 DEF Pushed
<1>3. CASE Hooks[e].kind \notin {"sub_agent_start", "sub_agent_end"}
  BY <1>3 DEF Pushed
<1> QED
  BY <1>1, <1>2, <1>3

\* What bind() leaves alone, and its two outcomes.
BindFrame(e) ==
  /\ known' = known \cup {SessionOf(e)}
  /\ UNCHANGED <<serving, traces, rows, syncLog, archive>>
  /\ UNCHANGED <<syncPc, todo, left, dirs, initial, missed, syncs, starts, faults>>

BindRefuses(e, seg, st) ==
  /\ BindFrame(e)
  /\ segment' = [segment EXCEPT ![SessionOf(e)] = seg]
  /\ stack' = [stack EXCEPT ![SessionOf(e)] = st]
  /\ bound' = bound /\ index' = index
  /\ phase' = [phase EXCEPT ![e] = "dead"]
  /\ Spool({e})

BindNumbers(e, st, n) ==
  /\ BindFrame(e)
  /\ segment' = [segment EXCEPT ![SessionOf(e)] = n]
  /\ stack' = [stack EXCEPT ![SessionOf(e)] = Pushed(e, st)]
  /\ bound' = bound \cup {e}
  /\ index' = [index EXCEPT ![e] = n]
  /\ phase' = [phase EXCEPT ![e] = "ingress"]
  /\ hook' = [hook EXCEPT ![e] = IF hook[e] = "posting" THEN "ok" ELSE hook[e]]
  /\ fallback' = fallback

\* bind() either refuses the event, its session's state being installed all the same,
\* or numbers it, a prompt above the segment it starts from and any other not below.
LEMMA BindCases ==
  ASSUME NEW e \in Events, NEW seg \in Nat, NEW st \in Seq(Agents), Bind(e, seg, st)
  PROVE  \/ BindRefuses(e, seg, st)
         \/ \E n \in Nat : /\ n >= seg
                           /\ Hooks[e].kind = "user_prompt" => n >= seg + 1
                           /\ ~Mismatch(e, st)
                           /\ BindNumbers(e, st, n)
<1> DEFINE n == IF Hooks[e].kind = "user_prompt" THEN seg + 1 ELSE seg
<1>1. n \in Nat /\ n >= seg /\ (Hooks[e].kind = "user_prompt" => n >= seg + 1)
  OBVIOUS
<1>2. CASE Mismatch(e, st)
  BY <1>2 DEF Bind, BindRefuses, BindFrame, Answer, diskVars, syncVars
<1>3. CASE ~Mismatch(e, st)
  <2>1. BindNumbers(e, st, n)
    BY <1>3 DEF Bind, BindNumbers, BindFrame, Answer, diskVars, syncVars
  <2> QED
    BY <1>1, <1>3, <2>1
<1> QED
  BY <1>2, <1>3

\* bind() keeps the types.
LEMMA BindType ==
  ASSUME TypeOK, NEW e \in Events, NEW seg \in Nat, NEW st \in Seq(Agents), Bind(e, seg, st)
  PROVE  TypeOK'
<1> SessionOf(e) \in Sessions
  BY HookTypes
<1>1. CASE BindRefuses(e, seg, st)
  BY <1>1 DEF BindRefuses, BindFrame, TypeOK, Spool, Phases
<1>2. ASSUME NEW n \in Nat, ~Mismatch(e, st), BindNumbers(e, st, n)
      PROVE  TypeOK'
  <2>1. Pushed(e, st) \in Seq(Agents)
    BY <1>2, PushedType
  <2>2. /\ stack' \in [Sessions -> Seq(Agents)]
        /\ hook' \in [Events -> {"idle", "posting", "ok", "fallback"}]
    BY <1>2, <2>1 DEF BindNumbers, TypeOK
  <2> QED
    BY <1>2, <2>2 DEF BindNumbers, BindFrame, TypeOK, Phases, InPipeline
<1> QED
  BY <1>1, <1>2, BindCases

\* The initial state has the types.
LEMMA TypeInit ==
  ASSUME Init
  PROVE  TypeOK
  BY DEF Init, TypeOK, Phases

\* Every step keeps the types.
LEMMA TypeNext ==
  ASSUME TypeOK, [Next]_vars
  PROVE  TypeOK'
<1> USE DEF Phases, InHandler, InPipeline, trackerVars, diskVars, spoolVars, syncVars, Fault
<1>1. ASSUME NEW e \in Events, HookStep(e)
      PROVE  TypeOK'
  BY <1>1 DEF HookStep, Post, ConnectionRefused, CurlTimesOut, Spool, TypeOK
<1>2. ASSUME NEW e \in Events, HandlerStep(e)
      PROVE  TypeOK'
  <2>1. CASE Hit(e)
    BY <2>1, BindType, HookTypes DEF Hit, TypeOK
  <2>2. CASE Miss(e)
    BY <2>2 DEF Miss, TypeOK
  <2>3. CASE WarmStart(e)
    BY <2>3 DEF WarmStart, TypeOK
  <2>4. CASE WarmStartFails(e)
    BY <2>4, ConstantsAssumption DEF WarmStartFails, Answer, Spool, TypeOK
  <2>5. CASE Install(e)
    <3>1. index[e] \in Nat /\ <<>> \in Seq(Agents)
      BY EmptySeq DEF TypeOK
    <3> QED
      BY <2>5, <3>1, BindType DEF Install
  <2> QED
    BY <1>2, <2>1, <2>2, <2>3, <2>4, <2>5 DEF HandlerStep
<1>3. ASSUME NEW e \in Events, PipelineStep(e)
      PROVE  TypeOK'
  <2> USE DEF Advance, pipelineFrame
  <2>1. CASE WriteIngress(e) \/ WriteTrace(e) \/ Insert(e)
    BY <2>1 DEF WriteIngress, WriteTrace, Insert, TypeOK
  <2>2. CASE WriteFails(e)
    BY <2>2 DEF WriteFails, TypeOK
  <2>4. CASE InsertFails(e)
    BY <2>4 DEF InsertFails, TypeOK
  <2>3. CASE RecordFails(e)
    BY <2>3 DEF RecordFails, TypeOK
  <2> QED
    BY <1>3, <2>1, <2>2, <2>3, <2>4 DEF PipelineStep
<1>4. CASE ServerStep
  <2>1. Exit => /\ serving' \in {"up", "draining", "down"}
                /\ known' \subseteq Sessions
                /\ segment' \in [Sessions -> Nat]
                /\ stack' \in [Sessions -> Seq(Agents)]
                /\ phase' \in [Events -> Phases]
    BY EmptySeq DEF Exit, TypeOK
  <2>2. InPhase({"trace"}) \subseteq Events
    BY DEF InPhase
  <2>3. CASE Crash
    BY <2>1, <2>3 DEF Crash, Exit, Spool, TypeOK
  <2>4. CASE Drained \/ DrainTimesOut
    BY <2>1, <2>2, <2>4 DEF Drained, DrainTimesOut, Exit, TypeOK
  <2>5. CASE Stop \/ Start
    BY <2>5 DEF Stop, Start, TypeOK
  <2> QED
    BY <1>4, <2>3, <2>4, <2>5 DEF ServerStep
<1>5. CASE SyncStep
  <2> USE DEF syncFrame
  <2>1. {SessionOf(e) : e \in traces} \subseteq Sessions
    BY HookTypes DEF TypeOK
  <2>2. CASE Begin \/ BeginRebuild
    BY <2>1, <2>2 DEF Begin, BeginRebuild, BeginRun, Walk, TypeOK
  <2>3. CASE Rewrite
    BY <2>1, <2>3 DEF Rewrite, Walk, TypeOK
  <2>4. CASE NextDir \/ Finish \/ SyncDies
    BY <2>4 DEF NextDir, Finish, SyncDies, SyncEnds, SetAside, TypeOK
  <2>5. ASSUME NEW e \in Events, Restore(e) \/ RestoreFails(e)
        PROVE  TypeOK'
    BY <2>5 DEF Restore, RestoreFails, TypeOK
  <2>6. ASSUME NEW s \in Sessions, List(s)
        PROVE  TypeOK'
    BY <2>6 DEF List, EventsOf, TypeOK
  <2> QED
    BY <1>5, <2>2, <2>3, <2>4, <2>5, <2>6 DEF SyncStep
<1>6. CASE UNCHANGED vars
  BY <1>6 DEF vars, TypeOK
<1> QED
  BY <1>1, <1>2, <1>3, <1>4, <1>5, <1>6 DEF Next

-----------------------------------------------------------------------------
\* Steps of each part

\* What bind() starts from: the tracker's state, or the warm start's index.
BindsFrom(e, seg) ==
  \/ phase[e] = "lookup" /\ SessionOf(e) \in known /\ seg = segment[SessionOf(e)]
  \/ phase[e] = "warm" /\ seg = index[e]

\* The handler waits, looks up, gives up, refuses, or numbers.
LEMMA HandlerCases ==
  ASSUME TypeOK, NEW e \in Events, HandlerStep(e)
  PROVE  \/ Miss(e) \/ WarmStart(e) \/ WarmStartFails(e)
         \/ \E seg \in Nat, st \in Seq(Agents) :
              /\ BindsFrom(e, seg)
              /\ \/ BindRefuses(e, seg, st)
                 \/ \E n \in Nat : /\ n >= seg
                                   /\ Hooks[e].kind = "user_prompt" => n >= seg + 1
                                   /\ BindNumbers(e, st, n)
<1>1. CASE Hit(e)
  <2>1. segment[SessionOf(e)] \in Nat /\ stack[SessionOf(e)] \in Seq(Agents)
    BY HookTypes DEF TypeOK
  <2> QED
    BY <1>1, <2>1, BindCases DEF Hit, BindsFrom
<1>2. CASE Install(e)
  <2>1. index[e] \in Nat /\ <<>> \in Seq(Agents)
    BY EmptySeq DEF TypeOK
  <2> QED
    BY <1>2, <2>1, BindCases DEF Install, BindsFrom
<1> QED
  BY <1>1, <1>2 DEF HandlerStep

\* A step of sync touches neither the hooks, nor the server, nor the traces.
LEMMA SyncFrame ==
  ASSUME SyncStep
  PROVE  UNCHANGED <<hook, phase, serving, known, segment, stack, bound, index, traces, starts>>
  BY DEF SyncStep, Begin, BeginRebuild, Restore, RestoreFails, Rewrite, List, NextDir, Finish,
         SyncDies, syncFrame, trackerVars

\* The handler and the pipeline take an event along its path, and no other event.
LEMMA PathsNext ==
  ASSUME TypeOK, Paths, [Next]_vars
  PROVE  Paths'
<1> USE DEF InHandler, InPipeline, trackerVars, diskVars
<1>1. ASSUME NEW e \in Events, HookStep(e)
      PROVE  Paths'
  BY <1>1 DEF HookStep, Post, ConnectionRefused, CurlTimesOut, Spool, TypeOK, Paths
<1>2. ASSUME NEW e \in Events, HandlerStep(e)
      PROVE  Paths'
  <2>1. CASE Miss(e) \/ WarmStart(e)
    BY <2>1 DEF Miss, WarmStart, TypeOK, Paths
  <2>2. CASE WarmStartFails(e)
    BY <2>2 DEF WarmStartFails, Answer, Spool, TypeOK, Paths
  <2>3. ASSUME NEW seg \in Nat, NEW st \in Seq(Agents), BindsFrom(e, seg), BindRefuses(e, seg, st)
        PROVE  Paths'
    BY <2>3 DEF BindsFrom, BindRefuses, BindFrame, Spool, TypeOK, Paths
  <2>4. ASSUME NEW seg \in Nat, NEW st \in Seq(Agents), NEW n \in Nat,
               BindsFrom(e, seg), BindNumbers(e, st, n)
        PROVE  Paths'
    BY <2>4 DEF BindsFrom, BindNumbers, BindFrame, TypeOK, Paths
  <2> QED
    BY <1>2, <2>1, <2>2, <2>3, <2>4, HandlerCases
<1>3. ASSUME NEW e \in Events, PipelineStep(e)
      PROVE  Paths'
  <2> USE DEF Advance, pipelineFrame
  <2>1. CASE WriteIngress(e) \/ WriteTrace(e) \/ Insert(e)
    BY <2>1 DEF WriteIngress, WriteTrace, Insert, TypeOK, Paths
  <2>2. CASE WriteFails(e) \/ InsertFails(e) \/ RecordFails(e)
    BY <2>2 DEF WriteFails, InsertFails, RecordFails, TypeOK, Paths
  <2> QED
    BY <1>3, <2>1, <2>2 DEF PipelineStep
<1>4. CASE ServerStep
  <2>1. CASE Crash
    BY <2>1 DEF Crash, Exit, Spool, TypeOK, Paths
  <2>2. CASE Drained
    BY <2>2 DEF Drained, Exit, TypeOK, Paths
  <2>3. CASE DrainTimesOut
    BY <2>3 DEF DrainTimesOut, Exit, InPhase, TypeOK, Paths
  <2>4. CASE Stop \/ Start
    BY <2>4 DEF Stop, Start, Paths
  <2> QED
    BY <1>4, <2>1, <2>2, <2>3, <2>4 DEF ServerStep
<1>5. CASE SyncStep
  BY <1>5, SyncFrame DEF Paths
<1>6. CASE UNCHANGED vars
  BY <1>6 DEF vars, Paths
<1> QED
  BY <1>1, <1>2, <1>3, <1>4, <1>5, <1>6 DEF Next

\* Whoever answers a hook with an error, or leaves it without an answer, makes it spool.
LEMMA AccountedNext ==
  ASSUME TypeOK, Paths, Accounted, [Next]_vars
  PROVE  Accounted'
<1> USE DEF InHandler, InPipeline, spoolVars, Fault
<1>1. ASSUME NEW e \in Events, HookStep(e)
      PROVE  Accounted'
  BY <1>1 DEF HookStep, Post, ConnectionRefused, CurlTimesOut, Spool, TypeOK, Accounted
<1>2. ASSUME NEW e \in Events, HandlerStep(e)
      PROVE  Accounted'
  <2>1. CASE Miss(e) \/ WarmStart(e)
    BY <2>1 DEF Miss, WarmStart, TypeOK, Accounted
  <2>2. CASE WarmStartFails(e)
    BY <2>2 DEF WarmStartFails, Answer, Spool, TypeOK, Accounted
  <2>3. ASSUME NEW seg \in Nat, NEW st \in Seq(Agents), BindsFrom(e, seg), BindRefuses(e, seg, st)
        PROVE  Accounted'
    BY <2>3 DEF BindsFrom, BindRefuses, BindFrame, Spool, TypeOK, Accounted
  <2>4. ASSUME NEW seg \in Nat, NEW st \in Seq(Agents), NEW n \in Nat,
               BindsFrom(e, seg), BindNumbers(e, st, n)
        PROVE  Accounted'
    BY <2>4 DEF BindsFrom, BindNumbers, BindFrame, TypeOK, Accounted
  <2> QED
    BY <1>2, <2>1, <2>2, <2>3, <2>4, HandlerCases
<1>3. ASSUME NEW e \in Events, PipelineStep(e)
      PROVE  Accounted'
  <2> USE DEF Advance, pipelineFrame
  <2>1. CASE WriteIngress(e) \/ WriteTrace(e) \/ Insert(e)
    BY <2>1 DEF WriteIngress, WriteTrace, Insert, TypeOK, Accounted
  <2>2. CASE WriteFails(e) \/ InsertFails(e) \/ RecordFails(e)
    BY <2>2 DEF WriteFails, InsertFails, RecordFails, TypeOK, Accounted
  <2> QED
    BY <1>3, <2>1, <2>2 DEF PipelineStep
<1>4. CASE ServerStep
  <2>1. CASE Crash
    BY <2>1 DEF Crash, Exit, Spool, TypeOK, Accounted
  <2>2. CASE Drained
    BY <2>2 DEF Drained, Exit, InPhase, TypeOK, Accounted
  <2>3. CASE DrainTimesOut
    BY <2>3 DEF DrainTimesOut, Exit, TypeOK, Accounted
  <2>4. CASE Stop \/ Start
    BY <2>4 DEF Stop, Start, Accounted
  <2> QED
    BY <1>4, <2>1, <2>2, <2>3, <2>4 DEF ServerStep
<1>5. CASE SyncStep
  <2>1. fallback \cup archive \subseteq fallback' \cup archive'
    BY <1>5 DEF SyncStep, Begin, BeginRebuild, Restore, RestoreFails, Rewrite, List, NextDir,
                Finish, SyncDies, SetAside
  <2> QED
    BY <1>5, <2>1, SyncFrame DEF Accounted
<1>6. CASE UNCHANGED vars
  BY <1>6 DEF vars, Accounted
<1> QED
  BY <1>1, <1>2, <1>3, <1>4, <1>5, <1>6 DEF Next

\* What the others leave of sync, and that nothing of theirs takes a row, a
\* trace or an entry of the log away.
LEMMA OthersFrame ==
  ASSUME TypeOK, Paths, [Next]_vars, ~SyncStep
  PROVE  /\ UNCHANGED <<syncPc, todo, left, dirs, initial, missed>>
         /\ traces \subseteq traces' /\ rows \subseteq rows' /\ syncLog \subseteq syncLog'
         /\ rows' \cup syncLog' \subseteq rows \cup syncLog \cup traces
<1> USE DEF diskVars, syncVars
<1>1. ASSUME NEW e \in Events, HookStep(e)
      PROVE  UNCHANGED <<diskVars, syncVars>>
  BY <1>1 DEF HookStep, Post, ConnectionRefused, CurlTimesOut
<1>2. ASSUME NEW e \in Events, HandlerStep(e)
      PROVE  UNCHANGED <<diskVars, syncVars>>
  <2>1. CASE Miss(e) \/ WarmStart(e) \/ WarmStartFails(e)
    BY <2>1 DEF Miss, WarmStart, WarmStartFails
  <2>2. ASSUME NEW seg \in Nat, NEW st \in Seq(Agents), NEW n \in Nat,
               BindRefuses(e, seg, st) \/ BindNumbers(e, st, n)
        PROVE  UNCHANGED <<diskVars, syncVars>>
    BY <2>2 DEF BindRefuses, BindNumbers, BindFrame
  <2> QED
    BY <1>2, <2>1, <2>2, HandlerCases
<1>3. ASSUME NEW e \in Events, PipelineStep(e)
      PROVE  /\ UNCHANGED syncVars
             /\ traces \subseteq traces' /\ rows \subseteq rows' /\ syncLog \subseteq syncLog'
             /\ rows' \cup syncLog' \subseteq rows \cup syncLog \cup traces
  <2> USE DEF Advance, pipelineFrame
  <2>1. CASE WriteIngress(e) \/ WriteTrace(e) \/ Insert(e)
    BY <2>1 DEF WriteIngress, WriteTrace, Insert, Paths
  <2>2. CASE WriteFails(e) \/ InsertFails(e) \/ RecordFails(e)
    BY <2>2 DEF WriteFails, InsertFails, RecordFails, Paths
  <2> QED
    BY <1>3, <2>1, <2>2 DEF PipelineStep
<1>4. CASE ServerStep
  <2>1. /\ UNCHANGED <<rows, syncLog, syncVars>>
        /\ traces \subseteq traces'
    BY <1>4 DEF ServerStep, Crash, Stop, Drained, DrainTimesOut, Start, Exit
  <2> QED
    BY <2>1
<1>5. CASE UNCHANGED vars
  BY <1>5 DEF vars
<1> QED
  BY <1>1, <1>2, <1>3, <1>4, <1>5 DEF Next

\* Sync takes what it restores from the traces and the sync log, and the pipeline
\* records nothing that it has not written first.
LEMMA BackedNext ==
  ASSUME TypeOK, Paths, Backed, [Next]_vars
  PROVE  Backed'
<1>1. CASE ~SyncStep
  BY <1>1, OthersFrame DEF Backed, TraceFirst
<1>2. CASE SyncStep
  <2> traces' = traces
    BY <1>2, SyncFrame
  <2>1. CASE Begin \/ BeginRebuild
    BY <2>1 DEF Begin, BeginRebuild, BeginRun, Backed, TraceFirst
  <2>2. ASSUME NEW e \in Events, Restore(e) \/ RestoreFails(e)
        PROVE  Backed'
    BY <2>2 DEF Restore, RestoreFails, Backed, TraceFirst
  <2>3. CASE Rewrite
    BY <2>3 DEF Rewrite, Backed, TraceFirst
  <2>4. ASSUME NEW s \in Sessions, List(s)
        PROVE  Backed'
    BY <2>4 DEF List, Backed, TraceFirst
  <2>5. CASE NextDir \/ Finish \/ SyncDies
    BY <2>5 DEF NextDir, Finish, SyncDies, SyncEnds, Backed, TraceFirst
  <2> QED
    BY <1>2, <2>1, <2>2, <2>3, <2>4, <2>5 DEF SyncStep
<1> QED
  BY <1>1, <1>2

\* Sync passes no trace over: each it visits is stored or reported, and a session's
\* traces are listed after those it found at the beginning were there.
LEMMA CoveredNext ==
  ASSUME TypeOK, Paths, Backed, Covered, [Next]_vars
  PROVE  Covered'
<1>1. CASE ~SyncStep
  BY <1>1, OthersFrame DEF Covered
<1>2. CASE SyncStep
  <2>1. CASE Begin \/ BeginRebuild
    BY <2>1 DEF Begin, BeginRebuild, BeginRun, Walk, Covered
  <2>2. ASSUME NEW e \in Events, Restore(e) \/ RestoreFails(e)
        PROVE  Covered'
    BY <2>2 DEF Restore, RestoreFails, Covered
  <2>3. CASE Rewrite
    BY <2>3 DEF Rewrite, Walk, Covered, Backed
  <2>4. ASSUME NEW s \in Sessions, List(s)
        PROVE  Covered'
    <3>1. \A e \in initial : SessionOf(e) = s => e \in todo'
      BY <2>4 DEF List, EventsOf, Backed, TypeOK
    <3> QED
      BY <2>4, <3>1 DEF List, Covered
  <2>5. CASE NextDir \/ Finish \/ SyncDies
    BY <2>5 DEF NextDir, Finish, SyncDies, SyncEnds, Covered
  <2> QED
    BY <1>2, <2>1, <2>2, <2>3, <2>4, <2>5 DEF SyncStep
<1> QED
  BY <1>1, <1>2

\* The materialisation lock keeps two handlers of a session out of the warm start.
LEMMA LockedNext ==
  ASSUME TypeOK, Locked, [Next]_vars
  PROVE  Locked'
<1> USE DEF trackerVars
<1>1. ASSUME NEW e \in Events, HookStep(e)
      PROVE  Locked'
  BY <1>1 DEF HookStep, Post, ConnectionRefused, CurlTimesOut, Spool, TypeOK, Locked
<1>2. ASSUME NEW e \in Events, HandlerStep(e)
      PROVE  Locked'
  <2>1. CASE Miss(e)
    <3>1. \A f \in Events : SessionOf(f) = SessionOf(e) => phase[f] \notin {"reading", "warm"}
      BY <2>1 DEF Miss, KeyFree, EventsOf, InPhase
    <3> QED
      BY <2>1, <3>1 DEF Miss, TypeOK, Locked
  <2>2. CASE WarmStart(e)
    BY <2>2 DEF WarmStart, TypeOK, Locked
  <2>3. CASE WarmStartFails(e)
    BY <2>3 DEF WarmStartFails, Answer, TypeOK, Locked
  <2>4. ASSUME NEW seg \in Nat, NEW st \in Seq(Agents), NEW n \in Nat,
               BindsFrom(e, seg), BindRefuses(e, seg, st) \/ BindNumbers(e, st, n)
        PROVE  Locked'
    <3>1. \A f \in Events : SessionOf(f) = SessionOf(e) /\ phase[f] \in {"reading", "warm"} => f = e
      BY <2>4 DEF BindsFrom, Locked
    <3>2. \A f \in Events : phase'[f] \in {"reading", "warm"} => f # e /\ phase[f] = phase'[f]
      BY <2>4 DEF BindRefuses, BindNumbers, TypeOK
    <3>3. known' = known \cup {SessionOf(e)}
      BY <2>4 DEF BindRefuses, BindNumbers, BindFrame
    <3> QED
      BY <3>1, <3>2, <3>3 DEF Locked
  <2> QED
    BY <1>2, <2>1, <2>2, <2>3, <2>4, HandlerCases
<1>3. ASSUME NEW e \in Events, PipelineStep(e)
      PROVE  Locked'
  <2> USE DEF Advance, pipelineFrame, InPipeline
  <2>1. CASE WriteIngress(e) \/ WriteTrace(e) \/ Insert(e)
    BY <2>1 DEF WriteIngress, WriteTrace, Insert, TypeOK, Locked
  <2>2. CASE WriteFails(e) \/ InsertFails(e) \/ RecordFails(e)
    BY <2>2 DEF WriteFails, InsertFails, RecordFails, TypeOK, Locked
  <2> QED
    BY <1>3, <2>1, <2>2 DEF PipelineStep
<1>4. CASE ServerStep
  <2>1. CASE Stop \/ Start
    BY <2>1 DEF Stop, Start, Locked
  <2>2. CASE Exit
    BY <2>2 DEF Exit, InHandler, TypeOK, Locked
  <2> QED
    BY <1>4, <2>1, <2>2 DEF ServerStep, Crash, Drained, DrainTimesOut
<1>5. CASE SyncStep
  BY <1>5, SyncFrame DEF Locked
<1>6. CASE UNCHANGED vars
  BY <1>6 DEF vars, Locked
<1> QED
  BY <1>1, <1>2, <1>3, <1>4, <1>5, <1>6 DEF Next

\* A handler that binds finds every index of its session not above its own.
LEMMA BindsAbove ==
  ASSUME Numbered, faults = 0, NEW e \in Events, NEW seg \in Nat, BindsFrom(e, seg)
  PROVE  \A f \in bound : SessionOf(f) = SessionOf(e) => index[f] <= seg
  BY DEF BindsFrom, Numbered

\* A fault is counted.
LEMMA FaultCounted ==
  ASSUME TypeOK, [Next]_vars, faults' = 0
  PROVE  /\ faults = 0
         /\ ~Crash /\ ~DrainTimesOut /\ ~BeginRebuild
         /\ \A e \in Events : ~WriteFails(e) /\ ~InsertFails(e) /\ ~RecordFails(e)
<1>1. faults \in Nat
  BY DEF TypeOK
<1>2. faults' = faults \/ faults' = faults + 1 \/ faults' = faults + 2
  <2>1. ASSUME NEW e \in Events, HandlerStep(e)
        PROVE  faults' = faults \/ faults' = faults + 1
    BY <2>1, HandlerCases DEF Miss, WarmStart, WarmStartFails, Fault, BindRefuses, BindNumbers,
                              BindFrame
  <2>2. ASSUME NEW e \in Events, HookStep(e) \/ PipelineStep(e)
        PROVE  faults' = faults \/ faults' = faults + 1 \/ faults' = faults + 2
    BY <2>2 DEF HookStep, Post, ConnectionRefused, CurlTimesOut, PipelineStep, WriteIngress,
                WriteTrace, WriteFails, Insert, InsertFails, RecordFails, Fault
  <2>3. CASE ServerStep \/ SyncStep
    BY <2>3 DEF ServerStep, Crash, Stop, Drained, DrainTimesOut, Start, SyncStep, Begin,
                BeginRebuild, Restore, RestoreFails, Rewrite, List, NextDir, Finish, SyncDies, Fault
  <2> QED
    BY <2>1, <2>2, <2>3 DEF Next, vars
<1>3. faults = 0
  BY <1>1, <1>2
<1> QED
  BY <1>3 DEF Crash, DrainTimesOut, BeginRebuild, WriteFails, InsertFails, RecordFails, Fault

\* Without a fault no step loses the highest index: a restart waits for every row,
\* and a warm start reads it back.
LEMMA NumberedNext ==
  ASSUME TypeOK, Paths, Locked, Numbered, [Next]_vars
  PROVE  Numbered'
<1> SUFFICES ASSUME faults' = 0
             PROVE  Numbered'
  BY DEF Numbered
<1>0. faults = 0
  BY FaultCounted
<1> USE DEF trackerVars, diskVars
<1>1. ASSUME NEW e \in Events, HookStep(e)
      PROVE  Numbered'
  BY <1>0, <1>1 DEF HookStep, Post, ConnectionRefused, CurlTimesOut, Spool, TypeOK, Paths, Numbered
<1>2. ASSUME NEW e \in Events, HandlerStep(e)
      PROVE  Numbered'
  <2>1. CASE Miss(e)
    BY <1>0, <2>1 DEF Miss, TypeOK, Numbered
  <2>2. CASE WarmStart(e)
    <3>1. e \notin bound /\ SessionOf(e) \notin known
      BY <2>2 DEF WarmStart, InHandler, Paths, Locked
    <3>2. \A f \in bound : f \in Events /\ f # e /\ index'[f] = index[f] /\ phase'[f] = phase[f]
      BY <2>2, <3>1 DEF WarmStart, TypeOK
    <3>3. \A f \in bound : SessionOf(f) = SessionOf(e) => index'[f] <= index'[e]
      <4>1. \A f \in bound : SessionOf(f) = SessionOf(e) => f \in rows
        BY <1>0, <3>1 DEF Numbered
      <4>2. PICK m : IsMaxSegment(m, SessionOf(e)) /\ index' = [index EXCEPT ![e] = m]
        BY <2>2 DEF WarmStart
      <4>3. index'[e] = m
        BY <4>2 DEF TypeOK
      <4> QED
        BY <3>2, <4>1, <4>2, <4>3 DEF IsMaxSegment, EventsOf
    <3>4. \A f \in Events : f # e => index'[f] = index[f] /\ phase'[f] = phase[f]
      BY <2>2 DEF WarmStart, TypeOK
    <3>5. UNCHANGED <<bound, known, segment, rows>>
      BY <2>2 DEF WarmStart
    <3> QED
      BY <1>0, <3>1, <3>2, <3>3, <3>4, <3>5 DEF Numbered
  <2>3. CASE WarmStartFails(e)
    BY <1>0, <2>3 DEF WarmStartFails, Fault, TypeOK
  <2>4. ASSUME NEW seg \in Nat, NEW st \in Seq(Agents), BindsFrom(e, seg), BindRefuses(e, seg, st)
        PROVE  Numbered'
    <3>1. e \notin bound
      BY <2>4 DEF BindsFrom, InHandler, Paths
    <3>2. \A f \in bound : SessionOf(f) = SessionOf(e) => index[f] <= seg
      BY <1>0, <2>4, BindsAbove
    <3>3. \A f \in bound : SessionOf(f) \in Sessions /\ f # e
      BY <3>1, HookTypes DEF TypeOK
    <3> QED
      BY <1>0, <2>4, <3>1, <3>2, <3>3, HookTypes DEF BindRefuses, BindFrame, TypeOK, Numbered
  <2>5. ASSUME NEW seg \in Nat, NEW st \in Seq(Agents), NEW n \in Nat,
               BindsFrom(e, seg), n >= seg, BindNumbers(e, st, n)
        PROVE  Numbered'
    <3>1. e \notin bound
      BY <2>5 DEF BindsFrom, InHandler, Paths
    <3>2. \A f \in bound : SessionOf(f) = SessionOf(e) => index[f] <= n
      <4>1. \A f \in bound : SessionOf(f) = SessionOf(e) => index[f] <= seg
        BY <1>0, <2>5, BindsAbove
      <4>2. \A f \in bound : index[f] \in Nat
        BY DEF TypeOK
      <4> QED
        BY <2>5, <4>1, <4>2
    <3>3. \A f \in Events : SessionOf(f) = SessionOf(e) => phase'[f] # "warm"
      BY <2>5 DEF BindsFrom, BindNumbers, TypeOK, Locked
    <3>4. /\ \A f \in Events : f # e => index'[f] = index[f] /\ phase'[f] = phase[f]
          /\ index'[e] = n /\ phase'[e] = "ingress"
          /\ \A s \in Sessions : s # SessionOf(e) => segment'[s] = segment[s]
          /\ segment'[SessionOf(e)] = n
      BY <2>5, HookTypes DEF BindNumbers, TypeOK
    <3>5. /\ bound' = bound \cup {e} /\ rows' = rows
          /\ known' = known \cup {SessionOf(e)}
      BY <2>5 DEF BindNumbers, BindFrame
    <3>6. \A f \in bound : f \in Events /\ SessionOf(f) \in Sessions /\ f # e
      BY <3>1, HookTypes DEF TypeOK
    <3> QED
      BY <1>0, <3>2, <3>3, <3>4, <3>5, <3>6 DEF Numbered
  <2> QED
    BY <1>2, <2>1, <2>2, <2>3, <2>4, <2>5, HandlerCases
<1>3. ASSUME NEW e \in Events, PipelineStep(e)
      PROVE  Numbered'
  <2> USE DEF Advance, pipelineFrame
  <2>1. CASE WriteIngress(e) \/ WriteTrace(e)
    BY <1>0, <2>1 DEF WriteIngress, WriteTrace, TypeOK, Numbered
  <2>2. CASE Insert(e)
    BY <1>0, <2>2 DEF Insert, TypeOK, Numbered
  <2> QED
    BY <1>3, <2>1, <2>2, FaultCounted DEF PipelineStep
<1>4. CASE ServerStep
  <2>1. CASE Stop \/ Start
    BY <1>0, <2>1 DEF Stop, Start, Numbered
  <2>2. CASE Drained
    <3>1. \A f \in bound : phase[f] = "done"
      BY <1>0, <2>2 DEF Drained, InPhase, InHandler, InPipeline, Phases, Paths, TypeOK, Numbered
    <3> QED
      BY <1>0, <2>2, <3>1 DEF Drained, Exit, TypeOK, Numbered, InHandler, InPipeline
  <2> QED
    BY <1>4, <2>1, <2>2, FaultCounted DEF ServerStep
<1>5. CASE SyncStep
  <2>1. rows \subseteq rows'
    BY <1>5, FaultCounted DEF SyncStep, Begin, Restore, RestoreFails, Rewrite, List, NextDir,
                              Finish, SyncDies
  <2> QED
    BY <1>0, <1>5, <2>1, SyncFrame DEF Numbered
<1>6. CASE UNCHANGED vars
  BY <1>0, <1>6 DEF vars, Numbered
<1> QED
  BY <1>1, <1>2, <1>3, <1>4, <1>5, <1>6 DEF Next

-----------------------------------------------------------------------------
\* The theorems

\* A fresh server, with nothing on disk, satisfies the invariant.
LEMMA InvInit ==
  ASSUME Init
  PROVE  IInv
<1>1. TypeOK
  BY TypeInit
<1>2. Paths /\ Accounted /\ Locked /\ Numbered
  BY DEF Init, Paths, Accounted, Locked, Numbered, InHandler, InPipeline
<1>3. Backed /\ Covered
  BY DEF Init, Backed, TraceFirst, Covered
<1> QED
  BY <1>1, <1>2, <1>3 DEF IInv

\* Every step keeps it.
LEMMA InvNext ==
  ASSUME IInv, [Next]_vars
  PROVE  IInv'
BY TypeNext, PathsNext, AccountedNext, BackedNext, CoveredNext, LockedNext, NumberedNext DEF IInv

\* The inductive invariant: what is on disk, spooled or in a task of the server
\* agrees with what the hooks were told and with the numbers bind() gave out.
THEOREM Invariance == Spec => []IInv
<1>1. Init => IInv
  BY InvInit
<1>2. IInv /\ [Next]_vars => IInv'
  BY InvNext
<1> QED
  BY <1>1, <1>2, PTL DEF Spec

\* The variables keep their types.
THEOREM TypeCorrect == Spec => []TypeOK
<1>1. IInv => TypeOK
  BY DEF IInv
<1> QED
  BY <1>1, Invariance, PTL

\* No step takes a trace away, or what was spooled.
LEMMA FilesStay ==
  ASSUME [Next]_vars
  PROVE  traces \subseteq traces' /\ fallback \cup archive \subseteq fallback' \cup archive'
<1> USE DEF diskVars, spoolVars
<1>1. ASSUME NEW e \in Events, HookStep(e) \/ HandlerStep(e)
      PROVE  UNCHANGED <<traces, archive>> /\ fallback \subseteq fallback'
  BY <1>1 DEF HookStep, Post, ConnectionRefused, CurlTimesOut, HandlerStep, Hit, Miss, WarmStart,
              WarmStartFails, Install, Bind, Answer, Spool
<1>2. ASSUME NEW e \in Events, PipelineStep(e)
      PROVE  traces \subseteq traces' /\ UNCHANGED <<archive, fallback>>
  BY <1>2 DEF PipelineStep, WriteIngress, WriteTrace, WriteFails, Insert, InsertFails, RecordFails,
              pipelineFrame
<1>3. CASE ServerStep
  BY <1>3 DEF ServerStep, Crash, Stop, Drained, DrainTimesOut, Start, Exit, Spool
<1>4. CASE SyncStep
  <2>1. fallback \cup archive \subseteq fallback' \cup archive'
    BY <1>4 DEF SyncStep, Begin, BeginRebuild, Restore, RestoreFails, Rewrite, List, NextDir,
                Finish, SyncDies, SetAside
  <2> QED
    BY <1>4, <2>1, SyncFrame
<1>5. CASE UNCHANGED vars
  BY <1>5 DEF vars
<1> QED
  BY <1>1, <1>2, <1>3, <1>4, <1>5 DEF Next

\* An event whose hook returned is lost by a failure of its own write or of the whole
\* server, and only before its trace is on disk.
THEOREM NoLoss == Spec => NothingVanishes
<1> DEFINE byFailure(e) ==
             /\ phase[e] \in {"ingress", "trace"} /\ faults' > faults
             /\ serving' = "down" \/ phase' = [phase EXCEPT ![e] = "dead"]
           safe == \A e \in Events : Vanished(e)' /\ ~Vanished(e) => byFailure(e)
<1>1. ASSUME IInv, IInv', Next, NEW e \in Events, Vanished(e)', ~Vanished(e)
      PROVE  byFailure(e)
  <2> USE DEF InHandler, InPipeline
  <2>1. hook'[e] = "ok" /\ phase'[e] \notin InPipeline /\ e \notin traces' \cup fallback' \cup archive'
    BY <1>1 DEF Vanished, IInv, Accounted
  <2>2. e \notin traces \cup fallback \cup archive
    BY <1>1, <2>1, FilesStay
  <2>3. hook[e] # "fallback" /\ phase[e] # "insert"
    BY <2>2, <1>1 DEF IInv, Accounted, Paths
  \* The hook was answered before this step.
  <2>4. ASSUME NEW f \in Events, HookStep(f)
        PROVE  FALSE
    BY <1>1, <2>1, <2>2, <2>3, <2>4 
    DEF HookStep, Post, ConnectionRefused, CurlTimesOut, Spool, Vanished, IInv, TypeOK, Paths
  <2>5. ASSUME NEW f \in Events, HandlerStep(f)
        PROVE  FALSE
    <3>1. CASE Miss(f) \/ WarmStart(f)
      BY <1>1, <2>1, <2>2, <3>1 DEF Miss, WarmStart, Vanished, IInv, TypeOK
    <3>2. CASE WarmStartFails(f)
      BY <1>1, <2>1, <2>2, <3>2 DEF WarmStartFails, Answer, Spool, Vanished, IInv, TypeOK
    <3>3. ASSUME NEW seg \in Nat, NEW st \in Seq(Agents), BindsFrom(f, seg), BindRefuses(f, seg, st)
          PROVE  FALSE
      BY <1>1, <2>1, <2>2, <3>3 DEF BindsFrom, BindRefuses, Spool, Vanished, IInv, TypeOK
    <3>4. ASSUME NEW seg \in Nat, NEW st \in Seq(Agents), NEW n \in Nat,
                 BindsFrom(f, seg), BindNumbers(f, st, n)
          PROVE  FALSE
      BY <1>1, <2>1, <2>2, <3>4 DEF BindsFrom, BindNumbers, Vanished, IInv, TypeOK
    <3> QED
      BY <1>1, <2>5, <3>1, <3>2, <3>3, <3>4, HandlerCases DEF IInv
  <2>6. ASSUME NEW f \in Events, PipelineStep(f)
        PROVE  byFailure(e)
    <3> USE DEF Advance, pipelineFrame
    <3>1. hook'[e] = hook[e]
      BY <2>6 DEF PipelineStep, WriteIngress, WriteTrace, WriteFails, Insert, InsertFails, RecordFails
    <3>2. phase[e] \in {"ingress", "trace"}
      BY <1>1, <2>1, <2>2, <2>3, <3>1 DEF Vanished
    <3>3. CASE WriteFails(f)
      <4>1. f = e
        BY <1>1, <2>1, <3>2, <3>3 DEF WriteFails, IInv, TypeOK
      <4> QED
        BY <1>1, <3>2, <3>3, <4>1 DEF WriteFails, Fault, IInv, TypeOK
    <3>4. CASE WriteIngress(f) \/ WriteTrace(f) \/ Insert(f) \/ InsertFails(f) \/ RecordFails(f)
      BY <1>1, <2>1, <3>2, <3>4
      DEF WriteIngress, WriteTrace, Insert, InsertFails, RecordFails, IInv, TypeOK
    <3> QED
      BY <2>6, <3>3, <3>4 DEF PipelineStep
  <2>7. CASE ServerStep
    <3>1. CASE Stop \/ Start
      BY <1>1, <2>1, <2>2, <3>1 DEF Stop, Start, Vanished
    <3>2. CASE Crash
      <4>1. phase[e] \in {"ingress", "trace"}
        BY <1>1, <2>1, <2>2, <2>3, <3>2 DEF Crash, Spool, Vanished, IInv, TypeOK
      <4> QED
        BY <1>1, <3>2, <4>1 DEF Crash, Exit, Fault, IInv, TypeOK
    <3>3. CASE Drained
      BY <1>1, <2>1, <2>2, <3>3 DEF Drained, InPhase, Vanished
    <3>4. CASE DrainTimesOut
      <4>1. phase[e] \in {"ingress", "trace"}
        BY <1>1, <2>1, <2>2, <2>3, <3>4 DEF DrainTimesOut, Vanished
      <4> QED
        BY <1>1, <3>4, <4>1 DEF DrainTimesOut, Exit, Fault, IInv, TypeOK
    <3> QED
      BY <2>7, <3>1, <3>2, <3>3, <3>4 DEF ServerStep
  <2>8. CASE SyncStep
    BY <1>1, <2>1, <2>2, <2>8, SyncFrame DEF Vanished
  <2> QED
    BY <1>1, <2>4, <2>5, <2>6, <2>7, <2>8 DEF Next
<1>2. IInv /\ IInv' /\ [Next]_vars => [safe]_vars
  BY <1>1
<1> QED
  BY <1>2, Invariance, PTL DEF Spec, NothingVanishes

\* No row and no sync log entry without its raw trace.
THEOREM TracesComeFirst == Spec => []TraceFirst
<1>1. IInv => TraceFirst
  BY DEF IInv, Backed
<1> QED
  BY <1>1, Invariance, PTL

\* A run of sync that ends leaves no trace it found out of the database unreported.
THEOREM SyncComplete == Spec => SyncRestoresAll
<1>1. IInv /\ [Next]_vars =>
        (syncPc = "list" /\ dirs = {} /\ syncPc' = "idle" /\ faults' = faults =>
           initial \subseteq rows \cup missed)
  BY DEF IInv, Covered
<1>2. IInv /\ [Next]_vars =>
        [syncPc = "list" /\ dirs = {} /\ syncPc' = "idle" /\ faults' = faults =>
           initial \subseteq rows \cup missed]_vars
  BY <1>1
<1> QED
  BY <1>2, Invariance, PTL DEF Spec, SyncRestoresAll

\* Only bind() makes an event bound, and numbers it from what it starts from.
LEMMA NewlyBound ==
  ASSUME TypeOK, [Next]_vars, NEW e \in bound' \ bound
  PROVE  /\ e \in Events
         /\ \E seg \in Nat, st \in Seq(Agents), n \in Nat :
              /\ BindsFrom(e, seg)
              /\ n >= seg
              /\ Hooks[e].kind = "user_prompt" => n >= seg + 1
              /\ BindNumbers(e, st, n)
<1> USE DEF trackerVars
<1>1. ASSUME NEW f \in Events, HandlerStep(f)
      PROVE  \/ bound' = bound
             \/ /\ e = f
                /\ \E seg \in Nat, st \in Seq(Agents), n \in Nat :
                     /\ BindsFrom(e, seg)
                     /\ n >= seg
                     /\ Hooks[e].kind = "user_prompt" => n >= seg + 1
                     /\ BindNumbers(e, st, n)
  <2>1. CASE Miss(f) \/ WarmStart(f) \/ WarmStartFails(f)
    BY <2>1 DEF Miss, WarmStart, WarmStartFails
  <2>2. ASSUME NEW seg \in Nat, NEW st \in Seq(Agents), BindRefuses(f, seg, st)
        PROVE  bound' = bound
    BY <2>2 DEF BindRefuses
  <2>3. ASSUME NEW st \in Seq(Agents), NEW n \in Nat, BindNumbers(f, st, n)
        PROVE  e = f
    BY <2>3 DEF BindNumbers
  <2> QED
    BY <1>1, <2>1, <2>2, <2>3, HandlerCases
<1>2. ASSUME NEW f \in Events, HookStep(f) \/ PipelineStep(f)
      PROVE  bound' = bound
  BY <1>2 DEF HookStep, Post, ConnectionRefused, CurlTimesOut, PipelineStep, WriteIngress,
              WriteTrace, WriteFails, Insert, InsertFails, RecordFails, pipelineFrame
<1>3. CASE ServerStep
  BY <1>3 DEF ServerStep, Crash, Stop, Drained, DrainTimesOut, Start, Exit
<1>4. CASE SyncStep \/ UNCHANGED vars
  BY <1>4, SyncFrame DEF vars
<1> QED
  BY <1>1, <1>2, <1>3, <1>4 DEF Next

\* Without a fault, and across any number of restarts, a prompt opens a new
\* segment of its session and any other event continues the last.
THEOREM SegmentsInOrder == Spec => SegmentsAdvance
<1>1. ASSUME IInv, [Next]_vars, faults' = 0, NEW e \in bound' \ bound
      PROVE  Advances(e, bound)
  <2> TypeOK /\ Numbered
    BY <1>1 DEF IInv
  <2>1. PICK seg \in Nat, st \in Seq(Agents), n \in Nat :
          /\ BindsFrom(e, seg)
          /\ n >= seg
          /\ Hooks[e].kind = "user_prompt" => n >= seg + 1
          /\ BindNumbers(e, st, n)
    BY <1>1, NewlyBound
  <2>2. e \in Events /\ faults = 0
    BY <1>1, NewlyBound, FaultCounted
  <2>3. \A f \in bound : SessionOf(f) = SessionOf(e) => index[f] <= seg
    BY <2>1, <2>2, BindsAbove
  <2>4. index'[e] = n
    BY <2>1, <2>2 DEF BindNumbers, TypeOK
  <2>5. \A f \in bound : index[f] \in Nat
    BY DEF TypeOK
  <2> QED
    BY <2>1, <2>3, <2>4, <2>5 DEF Advances
<1>2. IInv /\ [Next]_vars =>
        [faults' = 0 => \A e \in bound' \ bound : Advances(e, bound)]_vars
  BY <1>1
<1> QED
  BY <1>2, Invariance, PTL DEF Spec, SegmentsAdvance

-----------------------------------------------------------------------------
\* What holds where the two promises fail that a run refutes

\* A session's segments are counted on from its rows only when every trace of it is a row.
ResumeStep ==
  \A e \in Events : phase[e] = "reading" /\ phase'[e] = "warm" => traces \cap EventsOf(SessionOf(e)) \subseteq rows
ResumesInFull == [][ResumeStep]_vars

\* Whatever crashed or failed: an event whose trace is there, or may yet be written, is numbered not
\* above what its session's next event starts from, and no task of a session outlives the tracker's state.
Traced ==
  \A f \in bound :
    /\ SessionOf(f) \notin known => phase[f] \notin InPipeline
    /\ f \in traces \/ phase[f] \in InPipeline =>
         /\ SessionOf(f) \in known => index[f] <= segment[SessionOf(f)]
         /\ \A e \in Events : phase[e] = "warm" /\ SessionOf(e) = SessionOf(f) => index[f] <= index[e]

\* A handler that binds finds the indices of its session's traces, and of its tasks, not above its own.
LEMMA BindsAboveTraced ==
  ASSUME Traced, NEW e \in Events, NEW seg \in Nat, BindsFrom(e, seg)
  PROVE  \A f \in bound : SessionOf(f) = SessionOf(e) /\ (f \in traces \/ phase[f] \in InPipeline) => index[f] <= seg
  BY DEF BindsFrom, Traced

\* A handler's steps keep it: bind() counts on from what is not below.
LEMMA HandlerTraced ==
  ASSUME TypeOK, Paths, Locked, Traced, ResumeStep, NEW e \in Events, HandlerStep(e)
  PROVE  Traced'
<1> USE DEF trackerVars, diskVars
<1>1. CASE Miss(e)
  BY <1>1 DEF Miss, InPipeline, TypeOK, Traced
<1>2. CASE WarmStart(e)
  <2>1. e \notin bound /\ SessionOf(e) \notin known /\ e \in Events
    BY <1>2 DEF WarmStart, InHandler, Paths, Locked
  <2>2. \A f \in Events : f # e => index'[f] = index[f] /\ phase'[f] = phase[f]
    BY <1>2 DEF WarmStart, TypeOK
  <2>3. \A f \in bound : SessionOf(f) = SessionOf(e) /\ f \in traces => index'[f] <= index'[e]
    <3>1. traces \cap EventsOf(SessionOf(e)) \subseteq rows
      BY <1>2 DEF ResumeStep, WarmStart, TypeOK
    <3>2. PICK m : IsMaxSegment(m, SessionOf(e)) /\ index' = [index EXCEPT ![e] = m]
      BY <1>2 DEF WarmStart
    <3>3. index'[e] = m
      BY <3>2 DEF TypeOK
    <3> QED
      BY <2>1, <2>2, <3>1, <3>2, <3>3 DEF IsMaxSegment, EventsOf, TypeOK
  <2>4. UNCHANGED <<bound, known, segment, traces>>
    BY <1>2 DEF WarmStart
  <2>5. bound \subseteq Events
    BY DEF TypeOK
  <2> QED
    BY <2>1, <2>2, <2>3, <2>4, <2>5 DEF Traced
<1>3. CASE WarmStartFails(e)
  BY <1>3 DEF WarmStartFails, Answer, InPipeline, TypeOK, Traced
<1>4. ASSUME NEW seg \in Nat, NEW st \in Seq(Agents), BindsFrom(e, seg), BindRefuses(e, seg, st)
      PROVE  Traced'
  <2>1. e \notin bound
    BY <1>4 DEF BindsFrom, InHandler, Paths
  <2>2. \A f \in bound : SessionOf(f) = SessionOf(e) /\ (f \in traces \/ phase[f] \in InPipeline) => index[f] <= seg
    BY <1>4, BindsAboveTraced
  <2>3. \A f \in bound : f \in Events /\ SessionOf(f) \in Sessions /\ f # e
    BY <2>1, HookTypes DEF TypeOK
  <2>4. /\ \A f \in Events : f # e => phase'[f] = phase[f]
        /\ phase'[e] = "dead"
        /\ \A s \in Sessions : s # SessionOf(e) => segment'[s] = segment[s]
        /\ segment'[SessionOf(e)] = seg
    BY <1>4, HookTypes DEF BindRefuses, TypeOK
  <2>5. UNCHANGED <<bound, index, traces>> /\ known' = known \cup {SessionOf(e)}
    BY <1>4 DEF BindRefuses, BindFrame
  <2> QED
    BY <2>1, <2>2, <2>3, <2>4, <2>5 DEF Traced
<1>5. ASSUME NEW seg \in Nat, NEW st \in Seq(Agents), NEW n \in Nat,
             BindsFrom(e, seg), n >= seg, BindNumbers(e, st, n)
      PROVE  Traced'
  <2>1. e \notin bound
    BY <1>5 DEF BindsFrom, InHandler, Paths
  <2>2. \A f \in bound : SessionOf(f) = SessionOf(e) /\ (f \in traces \/ phase[f] \in InPipeline) => index[f] <= n
    <3>1. \A f \in bound : index[f] \in Nat
      BY DEF TypeOK
    <3> QED
      BY <1>5, <3>1, BindsAboveTraced
  <2>3. \A f \in Events : SessionOf(f) = SessionOf(e) => phase'[f] # "warm"
    BY <1>5 DEF BindsFrom, BindNumbers, TypeOK, Locked
  <2>4. /\ \A f \in Events : f # e => index'[f] = index[f] /\ phase'[f] = phase[f]
        /\ index'[e] = n /\ phase'[e] = "ingress"
        /\ \A s \in Sessions : s # SessionOf(e) => segment'[s] = segment[s]
        /\ segment'[SessionOf(e)] = n
    BY <1>5, HookTypes DEF BindNumbers, TypeOK
  <2>5. /\ bound' = bound \cup {e} /\ traces' = traces
        /\ known' = known \cup {SessionOf(e)}
    BY <1>5 DEF BindNumbers, BindFrame
  <2>6. \A f \in bound : f \in Events /\ SessionOf(f) \in Sessions /\ f # e
    BY <2>1, HookTypes DEF TypeOK
  <2> QED
    BY <2>2, <2>3, <2>4, <2>5, <2>6 DEF Traced
<1> QED
  BY <1>1, <1>2, <1>3, <1>4, <1>5, HandlerCases

\* So does every step.
LEMMA TracedNext ==
  ASSUME TypeOK, Paths, Locked, Traced, [ResumeStep]_vars, [Next]_vars
  PROVE  Traced'
<1> USE DEF trackerVars, diskVars
<1>1. ASSUME NEW e \in Events, HookStep(e)
      PROVE  Traced'
  BY <1>1 DEF HookStep, Post, ConnectionRefused, CurlTimesOut, Spool, InPipeline, TypeOK, Paths, Traced
<1>2. ASSUME NEW e \in Events, HandlerStep(e)
      PROVE  Traced'
  <2>1. ResumeStep
    BY DEF ResumeStep, vars
  <2> QED
    BY <1>2, <2>1, HandlerTraced
<1>3. ASSUME NEW e \in Events, PipelineStep(e)
      PROVE  Traced'
  <2> USE DEF Advance, pipelineFrame, InPipeline
  <2>1. CASE WriteIngress(e) \/ WriteTrace(e) \/ Insert(e)
    BY <2>1 DEF WriteIngress, WriteTrace, Insert, TypeOK, Paths, Traced
  <2>2. CASE WriteFails(e) \/ InsertFails(e) \/ RecordFails(e)
    BY <2>2 DEF WriteFails, InsertFails, RecordFails, TypeOK, Paths, Traced
  <2> QED
    BY <1>3, <2>1, <2>2 DEF PipelineStep
<1>4. CASE ServerStep
  <2>1. CASE Stop \/ Start
    BY <2>1 DEF Stop, Start, Traced
  <2>2. ASSUME Exit, NEW written \in SUBSET InPhase({"trace"}), traces' = traces \cup written
        PROVE  Traced'
    BY <2>2 DEF Exit, InPhase, InHandler, InPipeline, TypeOK, Traced
  <2>3. CASE Crash \/ Drained
    <3>1. Exit /\ traces' = traces \cup {}
      BY <2>3 DEF Crash, Drained
    <3> QED
      BY <2>2, <3>1
  <2>4. CASE DrainTimesOut
    BY <2>2, <2>4 DEF DrainTimesOut
  <2> QED
    BY <1>4, <2>1, <2>3, <2>4 DEF ServerStep
<1>5. CASE SyncStep
  BY <1>5, SyncFrame DEF Traced
<1>6. CASE UNCHANGED vars
  BY <1>6 DEF vars, Traced
<1> QED
  BY <1>1, <1>2, <1>3, <1>4, <1>5, <1>6 DEF Next

\* Segments go on from every trace on disk, through any crashes and failures, as long as no session is
\* resumed before its traces are in the database (by `secondsight sync`, say).
THEOREM TracedSegmentsInOrder == Spec /\ ResumesInFull => TracedSegmentsAdvance
<1>1. Init => Traced
  BY DEF Init, Traced
<1>2. IInv /\ Traced /\ [ResumeStep]_vars /\ [Next]_vars => Traced'
  BY TracedNext DEF IInv
<1>3. ASSUME IInv, Traced, [Next]_vars, NEW e \in bound' \ bound
      PROVE  Advances(e, bound \cap traces)
  <2> TypeOK
    BY <1>3 DEF IInv
  <2>1. PICK seg \in Nat, st \in Seq(Agents), n \in Nat :
          /\ BindsFrom(e, seg)
          /\ n >= seg
          /\ Hooks[e].kind = "user_prompt" => n >= seg + 1
          /\ BindNumbers(e, st, n)
    BY <1>3, NewlyBound
  <2>2. e \in Events
    BY <1>3, NewlyBound
  <2>3. \A f \in bound \cap traces : SessionOf(f) = SessionOf(e) => index[f] <= seg
    BY <1>3, <2>1, <2>2, BindsAboveTraced
  <2>4. index'[e] = n
    BY <2>1, <2>2 DEF BindNumbers, TypeOK
  <2>5. \A f \in bound : index[f] \in Nat
    BY DEF TypeOK
  <2> QED
    BY <2>1, <2>3, <2>4, <2>5 DEF Advances
<1>4. IInv /\ Traced /\ [Next]_vars => [\A e \in bound' \ bound : Advances(e, bound \cap traces)]_vars
  BY <1>3
<1> QED
  BY <1>1, <1>2, <1>4, Invariance, PTL DEF Spec, ResumesInFull, TracedSegmentsAdvance

\* Nothing is added to the log while sync replays it.
LogStays == syncPc = "replay" /\ syncPc' = "replay" => syncLog' = syncLog
Undisturbed == [][LogStays]_vars

\* What the log holds during a replay is restored, to be restored, or to be kept.
LogKept == syncPc = "replay" => syncLog \subseteq rows \cup todo \cup left

\* A step keeps that.
LEMMA LogKeptNext ==
  ASSUME TypeOK, Paths, LogKept, [Next]_vars, [LogStays]_vars
  PROVE  LogKept'
<1>1. CASE ~SyncStep
  BY <1>1, OthersFrame DEF LogKept, LogStays, vars, diskVars, syncVars
<1>2. CASE SyncStep
  <2>1. CASE Begin \/ BeginRebuild
    BY <2>1 DEF Begin, BeginRebuild, BeginRun, Walk, LogKept
  <2>2. ASSUME NEW e \in Events, Restore(e) \/ RestoreFails(e)
        PROVE  LogKept'
    BY <2>2 DEF Restore, RestoreFails, LogKept
  <2>3. CASE Rewrite \/ NextDir \/ Finish \/ SyncDies
    BY <2>3 DEF Rewrite, Walk, NextDir, Finish, SyncDies, SyncEnds, LogKept
  <2>4. ASSUME NEW s \in Sessions, List(s)
        PROVE  LogKept'
    BY <2>4 DEF List, LogKept
  <2> QED
    BY <1>2, <2>1, <2>2, <2>3, <2>4 DEF SyncStep
<1> QED
  BY <1>1, <1>2

\* The log drops only what was restored, as long as no insert of the server fails while sync replays it.
THEOREM LogKeptApart == Spec /\ Undisturbed => LogDropsOnlyRestored
<1>1. Init => LogKept
  BY DEF Init, LogKept
<1>2. IInv /\ LogKept /\ [Next]_vars /\ [LogStays]_vars => LogKept'
  BY LogKeptNext DEF IInv
<1>3. IInv /\ LogKept /\ [Next]_vars => [syncLog \ syncLog' \subseteq rows]_vars
  <2> SUFFICES ASSUME IInv, LogKept, Next PROVE syncLog \ syncLog' \subseteq rows
    OBVIOUS
  <2>1. CASE Rewrite
    BY <2>1 DEF Rewrite, LogKept
  <2>2. CASE SyncStep /\ ~Rewrite
    BY <2>2 DEF SyncStep, Begin, BeginRebuild, Restore, RestoreFails, List, NextDir, Finish, SyncDies
  <2>3. CASE ~SyncStep
    BY <2>3, OthersFrame DEF IInv
  <2> QED
    BY <2>1, <2>2, <2>3
<1> QED
  BY <1>1, <1>2, <1>3, Invariance, PTL DEF Spec, Undisturbed, LogDropsOnlyRestored

\* A server that is down has no tasks.
Stopped == serving = "down" => InPhase(InHandler \cup InPipeline) = {}

\* It gets none before it starts, and has none when it exits.
LEMMA StoppedNext ==
  ASSUME TypeOK, Stopped, [Next]_vars
  PROVE  Stopped'
<1> USE DEF InPhase, InHandler, InPipeline, trackerVars
<1>1. ASSUME NEW e \in Events, HookStep(e)
      PROVE  Stopped'
  BY <1>1 DEF HookStep, Post, ConnectionRefused, CurlTimesOut, Stopped
<1>2. ASSUME NEW e \in Events, HandlerStep(e) \/ PipelineStep(e)
      PROVE  Stopped'
  <2>1. phase[e] \in InHandler \cup InPipeline
    BY <1>2 DEF HandlerStep, Hit, Miss, WarmStart, WarmStartFails, Install, PipelineStep, WriteIngress,
                WriteTrace, WriteFails, Insert, InsertFails, RecordFails, Advance
  <2>2. serving' = serving
    BY <1>2 DEF HandlerStep, Hit, Miss, WarmStart, WarmStartFails, Install, Bind, PipelineStep, WriteIngress,
                WriteTrace, WriteFails, Insert, InsertFails, RecordFails, pipelineFrame
  <2> QED
    BY <2>1, <2>2 DEF Stopped
<1>3. CASE ServerStep
  BY <1>3 DEF ServerStep, Crash, Stop, Drained, DrainTimesOut, Start, Exit, TypeOK, Stopped
<1>4. CASE SyncStep \/ UNCHANGED vars
  BY <1>4, SyncFrame DEF vars, Stopped
<1> QED
  BY <1>1, <1>2, <1>3, <1>4 DEF Next

\* The log drops only what was restored, if the server is stopped for as long as sync replays it.
THEOREM LogKeptStopped == Spec /\ [](syncPc = "replay" => serving = "down") => LogDropsOnlyRestored
<1>1. Init => Stopped
  BY DEF Init, Stopped
<1>2. IInv /\ Stopped /\ [Next]_vars => Stopped'
  BY StoppedNext DEF IInv
<1>3. Stopped /\ (syncPc = "replay" => serving = "down") /\ [Next]_vars => [LogStays]_vars
  <2> SUFFICES ASSUME Stopped, syncPc = "replay", serving = "down", Next, syncPc' = "replay"
               PROVE  syncLog' = syncLog
    BY DEF LogStays
  <2>1. ASSUME NEW e \in Events, HandlerStep(e) \/ PipelineStep(e)
        PROVE  FALSE
    <3>1. phase[e] \in InHandler \cup InPipeline
      BY <2>1 DEF HandlerStep, Hit, Miss, WarmStart, WarmStartFails, Install, PipelineStep, WriteIngress,
                  WriteTrace, WriteFails, Insert, InsertFails, RecordFails, Advance, InHandler, InPipeline
    <3> QED
      BY <3>1 DEF Stopped, InPhase
  <2>2. ASSUME NEW e \in Events, HookStep(e)
        PROVE  syncLog' = syncLog
    BY <2>2 DEF HookStep, Post, ConnectionRefused, CurlTimesOut, diskVars
  <2>3. CASE ServerStep
    BY <2>3 DEF ServerStep, Crash, Stop, Drained, DrainTimesOut, Start, Exit, diskVars
  <2>4. CASE SyncStep
    BY <2>4 DEF SyncStep, Begin, BeginRebuild, Restore, RestoreFails, Rewrite, Walk, List, NextDir, Finish,
                SyncDies, SyncEnds
  <2> QED
    BY <2>1, <2>2, <2>3, <2>4 DEF Next
<1> QED
  BY <1>1, <1>2, <1>3, Invariance, LogKeptApart, PTL DEF Spec, Undisturbed

-----------------------------------------------------------------------------
\* Ingest implements EventStore

\* A step that writes neither traces nor rows, and moves nobody into or out of
\* the writing of a trace, changes no status.
LEMMA StatusKept ==
  ASSUME UNCHANGED <<rows, traces, bound>>,
         \A f \in Events : phase'[f] \in {"ingress", "trace"} <=> phase[f] \in {"ingress", "trace"}
  PROVE  \A f \in Events : Status(f)' = Status(f)
  BY DEF Status

\* When one event's status changes, that is a Move of the abstract specification.
LEMMA OneMoves ==
  ASSUME NEW e \in Events, NEW to, Status(e)' = to,
         \A f \in Events : f # e => Status(f)' = Status(f)
  PROVE  Store!Move({e}, to)
  BY DEF Store!Move

\* The status decides who is Among the events of the abstract specification.
LEMMA AmongStatus ==
  ASSUME NEW e \in Events, NEW s
  PROVE  e \in Store!Among(s) <=> Status(e) = s
  BY DEF Store!Among

\* An event is bound once, before anything of it is on disk.
LEMMA BindAccepts ==
  ASSUME TypeOK, Paths, Backed, NEW e \in Events, NEW seg \in Nat, NEW st \in Seq(Agents),
         NEW n \in Nat, BindsFrom(e, seg), BindNumbers(e, st, n)
  PROVE  Store!Accept(e)
<1>1. e \notin bound /\ e \notin traces /\ e \notin rows /\ phase[e] \in InHandler
  BY DEF BindsFrom, InHandler, Paths, Backed, TraceFirst
<1>2. Status(e) = "unseen" /\ Status(e)' = "accepted"
  BY <1>1 DEF Status, InHandler, BindNumbers, BindFrame, TypeOK
<1>3. \A f \in Events : f # e => Status(f)' = Status(f)
  BY DEF Status, BindNumbers, BindFrame, TypeOK
<1> QED
  BY <1>2, <1>3, OneMoves, AmongStatus DEF Store!Accept

\* Each step of the pipeline is a step of the store, or none.
LEMMA PipelineSteps ==
  ASSUME TypeOK, Paths, Backed, NEW e \in Events, PipelineStep(e)
  PROVE  Store!Next \/ \A f \in Events : Status(f)' = Status(f)
<1> USE DEF Advance, pipelineFrame, trackerVars, diskVars
<1>1. CASE WriteIngress(e)
  <2>1. \A f \in Events : phase'[f] \in {"ingress", "trace"} <=> phase[f] \in {"ingress", "trace"}
    BY <1>1 DEF WriteIngress, TypeOK
  <2> QED
    BY <1>1, <2>1, StatusKept DEF WriteIngress
<1>2. CASE WriteTrace(e)
  <2>1. e \notin traces /\ e \notin rows
    BY <1>2 DEF WriteTrace, Paths, Backed, TraceFirst
  <2>2. Status(e) = "accepted" /\ Status(e)' = "traced"
    BY <1>2, <2>1 DEF WriteTrace, Status, TypeOK
  <2>3. \A f \in Events : f # e => Status(f)' = Status(f)
    BY <1>2 DEF WriteTrace, Status, TypeOK
  <2> QED
    BY <2>2, <2>3, OneMoves, AmongStatus DEF Store!Save, Store!Next
<1>3. CASE WriteFails(e)
  <2>1. e \notin traces /\ e \notin rows /\ e \in bound
    BY <1>3 DEF WriteFails, InPipeline, Paths, Backed, TraceFirst
  <2>2. Status(e) = "accepted" /\ Status(e)' = "lost"
    BY <1>3, <2>1 DEF WriteFails, Status, TypeOK
  <2>3. \A f \in Events : f # e => Status(f)' = Status(f)
    BY <1>3 DEF WriteFails, Status, TypeOK
  <2>4. Store!Lose({e}, {})
    BY <2>2, <2>3, AmongStatus DEF Store!Lose
  <2> QED
    BY <2>4 DEF Store!Next
<1>4. CASE Insert(e)
  <2>1. e \in traces
    BY <1>4 DEF Insert, Paths
  <2>2. Status(e) \in {"traced", "stored"} /\ Status(e)' = "stored"
    BY <1>4, <2>1 DEF Insert, Status
  <2>3. \A f \in Events : f # e => Status(f)' = Status(f)
    BY <1>4 DEF Insert, Status, TypeOK
  <2> QED
    BY <2>2, <2>3, OneMoves, AmongStatus DEF Store!Store, Store!Next
<1>5. CASE InsertFails(e) \/ RecordFails(e)
  <2>1. \A f \in Events : phase'[f] \in {"ingress", "trace"} <=> phase[f] \in {"ingress", "trace"}
    BY <1>5 DEF InsertFails, RecordFails, TypeOK
  <2> QED
    BY <1>5, <2>1, StatusKept DEF InsertFails, RecordFails
<1> QED
  BY <1>1, <1>2, <1>3, <1>4, <1>5 DEF PipelineStep

\* When the server exits, the accepted events are lost, but for those whose
\* trace a thread still wrote.
LEMMA ServerSteps ==
  ASSUME TypeOK, Paths, Backed, ServerStep
  PROVE  Store!Next \/ \A f \in Events : Status(f)' = Status(f)
<1>1. CASE Stop \/ Start
  BY <1>1 DEF Stop, Start, trackerVars, diskVars, Status
<1>2. ASSUME Exit, NEW written \in SUBSET InPhase({"trace"}), traces' = traces \cup written
      PROVE  Store!Next
  <2> DEFINE E == InPhase({"ingress", "trace"})
  <2>1. E \subseteq Events /\ written \subseteq E
    BY DEF InPhase
  <2>2. \A f \in E : /\ f \in bound /\ f \notin traces /\ f \notin rows
                     /\ phase[f] \in {"ingress", "trace"}
    BY DEF InPhase, InPipeline, Paths, Backed, TraceFirst
  <2>3. \A f \in Events : phase'[f] \notin {"ingress", "trace"}
    BY <1>2 DEF Exit, InPipeline
  <2>4. bound' = bound /\ rows' = rows
    BY <1>2 DEF Exit
  <2>5. \A f \in E : /\ Status(f) = "accepted"
                     /\ Status(f)' = IF f \in written THEN "traced" ELSE "lost"
    BY <1>2, <2>1, <2>2, <2>3, <2>4 DEF Status
  <2>6. \A f \in Events : f \notin E => Status(f)' = Status(f)
    BY <1>2, <2>1, <2>3, <2>4 DEF Status, InPhase
  <2>7. Store!Lose(E, written)
    BY <2>1, <2>5, <2>6, AmongStatus DEF Store!Lose
  <2> QED
    BY <2>1, <2>7 DEF Store!Next
<1>3. CASE Crash \/ Drained
  <2>1. Exit /\ traces' = traces \cup {}
    BY <1>3 DEF Crash, Drained
  <2> QED
    BY <1>2, <2>1
<1>4. CASE DrainTimesOut
  BY <1>2, <1>4 DEF DrainTimesOut
<1> QED
  BY <1>1, <1>3, <1>4 DEF ServerStep

\* Sync stores what has a trace; a rebuild drops the rows, not the traces.
LEMMA SyncSteps ==
  ASSUME TypeOK, Paths, Backed, SyncStep
  PROVE  Store!Next \/ \A f \in Events : Status(f)' = Status(f)
<1> USE DEF syncFrame, trackerVars
<1>1. ASSUME NEW e \in Events, Restore(e)
      PROVE  Store!Next \/ \A f \in Events : Status(f)' = Status(f)
  <2>1. e \in traces
    BY <1>1 DEF Restore, Backed
  <2>2. Status(e) \in {"traced", "stored"} /\ Status(e)' = "stored"
    BY <1>1, <2>1 DEF Restore, Status
  <2>3. \A f \in Events : f # e => Status(f)' = Status(f)
    BY <1>1 DEF Restore, Status
  <2> QED
    BY <2>2, <2>3, OneMoves, AmongStatus DEF Store!Store, Store!Next
<1>2. CASE BeginRebuild
  <2>1. \A f \in Events : Status(f)' = IF Status(f) = "stored" THEN "traced" ELSE Status(f)
    BY <1>2 DEF BeginRebuild, Status, Backed, TraceFirst
  <2>2. Store!Drop
    BY <2>1, AmongStatus DEF Store!Drop, Store!Move
  <2> QED
    BY <2>2 DEF Store!Next
<1>3. ASSUME rows' = rows
      PROVE  \A f \in Events : Status(f)' = Status(f)
  BY <1>3, SyncFrame DEF Status
<1> QED
  BY <1>1, <1>2, <1>3 DEF SyncStep, Begin, RestoreFails, Rewrite, List, NextDir, Finish, SyncDies

\* The steps of the abstract specification, or none.
LEMMA StepSimulated ==
  ASSUME TypeOK, Paths, Backed, [Next]_vars
  PROVE  Store!Next \/ \A f \in Events : Status(f)' = Status(f)
<1>1. ASSUME NEW e \in Events, HookStep(e)
      PROVE  \A f \in Events : Status(f)' = Status(f)
  <2> USE DEF trackerVars, diskVars
  <2>1. CASE Post(e)
    BY <2>1 DEF Post, Paths, TypeOK, Status
  <2>2. CASE ConnectionRefused(e) \/ CurlTimesOut(e)
    BY <2>2 DEF ConnectionRefused, CurlTimesOut, Status
  <2> QED
    BY <1>1, <2>1, <2>2 DEF HookStep
<1>2. ASSUME NEW e \in Events, HandlerStep(e)
      PROVE  Store!Next \/ \A f \in Events : Status(f)' = Status(f)
  <2>1. CASE Miss(e) \/ WarmStart(e) \/ WarmStartFails(e)
    BY <2>1 DEF Miss, WarmStart, WarmStartFails, Answer, trackerVars, diskVars, TypeOK, Status
  <2>2. ASSUME NEW seg \in Nat, NEW st \in Seq(Agents), BindsFrom(e, seg), BindRefuses(e, seg, st)
        PROVE  \A f \in Events : Status(f)' = Status(f)
    BY <2>2 DEF BindsFrom, BindRefuses, BindFrame, TypeOK, Status
  <2> QED
    BY <1>2, <2>1, <2>2, BindAccepts, HandlerCases DEF Store!Next
<1>3. CASE UNCHANGED vars
  BY <1>3 DEF vars, trackerVars, diskVars, Status
<1> QED
  BY <1>1, <1>2, <1>3, PipelineSteps, ServerSteps, SyncSteps DEF Next

\* The pipeline, the server's exit and sync together keep the promise of
\* EventStore: an event whose trace is on disk is never lost.
THEOREM Refinement == Spec => StoreSpec
<1>1. Init => Store!Init
  BY DEF Init, Store!Init, Status
<1>2. IInv /\ [Next]_vars => [Store!Next]_([e \in Events |-> Status(e)])
  <2> SUFFICES ASSUME IInv, [Next]_vars
               PROVE  Store!Next \/ UNCHANGED [e \in Events |-> Status(e)]
    OBVIOUS
  <2>1. Store!Next \/ \A f \in Events : Status(f)' = Status(f)
    BY StepSimulated DEF IInv
  <2> QED
    BY <2>1
<1> QED
  BY <1>1, <1>2, Invariance, PTL DEF Spec, StoreSpec, Store!Spec

================================================================================
