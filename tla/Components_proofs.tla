---------------------------- MODULE Components_proofs ----------------------------
(***************************************************************************)
(* Proofs about the components that ComponentsMC runs side by side: about  *)
(* the daemon, the configuration and the requests for directives, for any  *)
(* processes, settings, edits, directives and writes; and about the        *)
(* composition, which implements the specification of each component and   *)
(* so keeps the promises of all.                                           *)
(***************************************************************************)
EXTENDS ComponentsMC, FiniteSetTheorems, WellFoundedInduction, TLAPS

-----------------------------------------------------------------------------
(* The daemon.                                                              *)

\* The absence of a process id is none; the bound on starts is a number.
StartsBounded == NoPid \notin Pids /\ MaxStarts \in Nat

\* The inductive invariant

\* What stop has checked is a stranger's only if the id was given out again.
Pursued == stop # Background!Idle /\ ~reused => proc[stop.pid] # "stranger"

\* A process of `serve --daemon`, from its fork on.
IsDaemon(p) == p \notin fore /\ proc[p] \in {"forked", "booting", "serving"}

\* `serve` in the foreground never forks.
InFront == \A p \in fore : proc[p] \in {"booting", "serving"}

\* Until starts overlap there is one daemon or one start, and the file names a daemon that wrote it.
Alone ==
  ~raced => /\ starting <= 1
            /\ starting > 0 => \A p \in Pids : ~IsDaemon(p)
            /\ \A p, q \in Pids : IsDaemon(p) /\ IsDaemon(q) /\ proc[p] = "forked" => p = q
            /\ \A p \in Pids : IsDaemon(p) /\ proc[p] # "forked" => pidfile = p

DaemonInv == Background!TypeOK /\ Pursued /\ StrangersSafe /\ InFront /\ Alone

-----------------------------------------------------------------------------
\* One step each

\* Nothing runs at first.
LEMMA NothingRuns == ASSUME StartsBounded, Background!Init PROVE DaemonInv
<1> USE DEF StartsBounded, Background!Init
<1>1. Background!TypeOK
  <2>1. proc \in [Pids -> {"free", "forked", "booting", "serving"} \union Background!Strangers] /\ fore \subseteq Pids
    OBVIOUS
  <2>2. pidfile \in Pids \union {NoPid} /\ starting \in 0..MaxStarts
    OBVIOUS
  <2>3. stop \in [at : {"checked", "grace"}, pid : Pids] \union {Background!Idle}
    OBVIOUS
  <2>4. reused \in BOOLEAN /\ raced \in BOOLEAN /\ harmed \in {"never", "reused", "looks", "checked"}
    OBVIOUS
  <2> QED
    BY <2>1, <2>2, <2>3, <2>4 DEF Background!TypeOK
<1>2. Pursued /\ StrangersSafe /\ InFront /\ Alone
  BY DEF Pursued, StrangersSafe, InFront, Alone, IsDaemon
<1> QED
  BY <1>1, <1>2 DEF DaemonInv

\* The check of `serve --daemon`: who forked, wrote the file or serves would have been seen.
LEMMA StartStep == ASSUME StartsBounded, DaemonInv, Background!Start PROVE DaemonInv'
<1> USE DEF StartsBounded, DaemonInv, Background!Start
<1>1. Background!TypeOK'
  BY DEF Background!TypeOK
<1>2. Pursued' /\ StrangersSafe' /\ InFront'
  BY DEF Pursued, StrangersSafe, InFront
<1>3. Alone'
  <2> SUFFICES ASSUME ~raced' PROVE Alone'
    BY DEF Alone
  <2> DEFINE Missed(line) == line = "unread" /\ Background!Running(pidfile) /\ proc[pidfile] \notin Background!Strangers
  <2>0. PICK line \in Background!Readings(pidfile) :
             /\ ~Background!AlreadyRunning(line)
             /\ ~(raced \/ starting > 0 \/ (\E p \in Pids \ fore : proc[p] = "forked") \/ Missed(line))
    BY Zenon
  <2>1. ~raced /\ starting = 0 /\ \A p \in Pids \ fore : proc[p] # "forked"
    BY <2>0 DEF Background!TypeOK
  <2>2. \A p \in Pids : ~IsDaemon(p)
    <3> SUFFICES ASSUME NEW p \in Pids, IsDaemon(p) PROVE FALSE
      OBVIOUS
    <3>1. pidfile = p /\ proc[p] \in {"booting", "serving"}
      BY <2>1 DEF Alone, IsDaemon
    <3>2. Background!Running(pidfile) /\ line \in {"unread", proc[p]}
      BY <3>1, <2>0 DEF Background!Running, Background!Readings, StartsBounded
    <3> QED
      BY <2>0, <3>1, <3>2 DEF Background!AlreadyRunning, Background!CmdlineMatch, Background!Strangers
  <2>3. starting' = 1 /\ \A p \in Pids : ~IsDaemon(p)'
    BY <2>1, <2>2 DEF IsDaemon
  <2> QED
    BY <2>3 DEF Alone
<1> QED
  BY <1>1, <1>2, <1>3

\* A fork, of which there is one under way.
LEMMA ForkStep == ASSUME StartsBounded, DaemonInv, Background!Fork PROVE DaemonInv'
<1> USE DEF StartsBounded, DaemonInv, Background!Fork
<1>1. CASE UNCHANGED <<proc, reused>>
  <2>1. Background!TypeOK' /\ Pursued' /\ StrangersSafe' /\ InFront'
    BY <1>1 DEF Background!TypeOK, Pursued, StrangersSafe, InFront
  <2>2. Alone'
    BY <1>1 DEF Alone, IsDaemon, Background!TypeOK
  <2> QED
    BY <2>1, <2>2
<1>2. CASE \E p \in Pids : Background!Spawn(p, "forked")
  <2>1. PICK p \in Pids : Background!Spawn(p, "forked")
    BY <1>2
  <2> USE <2>1 DEF Background!Spawn
  <2>2. Background!TypeOK'
    BY DEF Background!TypeOK
  <2>3. Pursued' /\ StrangersSafe' /\ InFront'
    BY DEF Pursued, StrangersSafe, InFront, Background!TypeOK
  <2>4. Alone'
    BY DEF Alone, IsDaemon, Background!TypeOK
  <2> QED
    BY <2>2, <2>3, <2>4
<1> QED
  BY <1>1, <1>2

\* The daemon names itself in the file, or it can be lost.
LEMMA WritePidStep == ASSUME StartsBounded, DaemonInv, NEW p \in Pids, Background!WritePid(p) PROVE DaemonInv'
<1> USE DEF StartsBounded, DaemonInv, Background!WritePid
<1>1. Background!TypeOK'
  BY DEF Background!TypeOK
<1>2. Pursued' /\ StrangersSafe' /\ InFront'
  BY DEF Pursued, StrangersSafe, InFront, Background!TypeOK
<1>3. Alone'
  BY DEF Alone, IsDaemon, Background!TypeOK, InFront
<1> QED
  BY <1>1, <1>2, <1>3

\* A server in the foreground.
LEMMA ForegroundStep == ASSUME StartsBounded, DaemonInv, Background!Foreground PROVE DaemonInv'
<1> USE DEF StartsBounded, DaemonInv, Background!Foreground, Background!Spawn
<1>1. Background!TypeOK'
  BY DEF Background!TypeOK
<1>2. Pursued' /\ StrangersSafe' /\ InFront'
  BY DEF Pursued, StrangersSafe, InFront, Background!TypeOK
<1>3. Alone'
  BY DEF Alone, IsDaemon, Background!TypeOK
<1> QED
  BY <1>1, <1>2, <1>3

\* The end of a process leaves the others as they are.
LEMMA EndStep ==
  ASSUME StartsBounded, DaemonInv, NEW p \in Pids, Background!End(p),
         UNCHANGED <<pidfile, starting, stop, reused, harmed, raced>>
  PROVE  DaemonInv'
<1> USE DEF StartsBounded, DaemonInv, Background!End
<1>1. Background!TypeOK'
  BY DEF Background!TypeOK
<1>2. Pursued' /\ StrangersSafe' /\ InFront'
  BY DEF Pursued, StrangersSafe, InFront, Background!TypeOK, Background!Idle
<1>3. Alone'
  BY DEF Alone, IsDaemon, Background!TypeOK
<1> QED
  BY <1>1, <1>2, <1>3

\* The port is had, or the process ends.
LEMMA BindStep == ASSUME StartsBounded, DaemonInv, NEW p \in Pids, Background!Bind(p) PROVE DaemonInv'
<1> USE DEF StartsBounded, Background!Bind
<1>1. CASE \E q \in Pids : proc[q] = "serving"
  BY <1>1, EndStep
<1>2. CASE ~\E q \in Pids : proc[q] = "serving"
  <2> USE DEF DaemonInv
  <2>1. Background!TypeOK'
    BY <1>2 DEF Background!TypeOK
  <2>2. Pursued' /\ StrangersSafe' /\ InFront'
    BY <1>2 DEF Pursued, StrangersSafe, InFront, Background!TypeOK
  <2>3. Alone'
    BY <1>2 DEF Alone, IsDaemon, Background!TypeOK
  <2> QED
    BY <2>1, <2>2, <2>3
<1> QED
  BY <1>1, <1>2

\* Another program.
LEMMA StrangerStep == ASSUME StartsBounded, DaemonInv, NEW p \in Pids, Background!Stranger(p) PROVE DaemonInv'
<1> USE DEF StartsBounded, DaemonInv, Background!Stranger, Background!Spawn, Background!Strangers
<1>1. Background!TypeOK'
  BY DEF Background!TypeOK
<1>2. Pursued' /\ StrangersSafe' /\ InFront'
  BY DEF Pursued, StrangersSafe, InFront, Background!TypeOK
<1>3. Alone'
  BY DEF Alone, IsDaemon, Background!TypeOK
<1> QED
  BY <1>1, <1>2, <1>3

\* stop looks at the process in the file.
LEMMA StopChecksStep == ASSUME StartsBounded, DaemonInv, Background!StopChecks PROVE DaemonInv'
<1> USE DEF StartsBounded, DaemonInv, Background!StopChecks
<1>1. Background!TypeOK'
  BY DEF Background!TypeOK, Background!Running
<1>2. Pursued' /\ StrangersSafe' /\ InFront'
  BY DEF Pursued, StrangersSafe, InFront, Background!CmdlineMatch, Background!Readings
<1>3. Alone'
  BY DEF Alone, IsDaemon
<1> QED
  BY <1>1, <1>2, <1>3

\* The first signal.
LEMMA SendTermStep == ASSUME StartsBounded, DaemonInv, Background!SendTerm PROVE DaemonInv'
<1> USE DEF StartsBounded, DaemonInv, Background!SendTerm
<1>1. stop \in [at : {"checked", "grace"}, pid : Pids] /\ stop # Background!Idle
  BY DEF Background!TypeOK, Background!Idle
<1>2. stop'.pid = stop.pid /\ stop' \in [at : {"checked", "grace"}, pid : Pids]
  BY <1>1
<1>3. StrangersSafe' /\ harmed' \in {"never", "reused", "looks", "checked"}
  BY <1>1 DEF Background!Hit, Background!Strangers, StrangersSafe, Pursued, Background!TypeOK
<1>4. Background!TypeOK'
  BY <1>2, <1>3 DEF Background!TypeOK
<1>5. Pursued' /\ InFront' /\ Alone'
  BY <1>1, <1>2 DEF Pursued, InFront, Alone, IsDaemon
<1> QED
  BY <1>3, <1>4, <1>5

\* stop ends: the process it pursued is gone, and with it the daemon the file may have named.
LEMMA UnlinkStep ==
  ASSUME StartsBounded, DaemonInv, Background!Unlink, stop # Background!Idle, UNCHANGED starting,
         fore' = fore \/ fore' = fore \ {stop.pid},
         proc' = [proc EXCEPT ![stop.pid] = "free"], stop.pid \in fore => fore' = fore \ {stop.pid},
         StrangersSafe', harmed' \in {"never", "reused", "looks", "checked"}
  PROVE  DaemonInv'
<1> USE DEF StartsBounded, DaemonInv, Background!Unlink
<1>1. stop.pid \in Pids
  BY DEF Background!TypeOK
<1>2. Background!TypeOK'
  BY DEF Background!TypeOK
<1>3. Pursued' /\ InFront'
  BY <1>1 DEF Pursued, InFront, Background!TypeOK
<1>4. \A q \in Pids : IsDaemon(q)' => IsDaemon(q) /\ q # stop.pid /\ proc'[q] = proc[q]
  BY <1>1 DEF IsDaemon, Background!TypeOK
<1>5. Alone'
  <2>1. CASE UNCHANGED <<pidfile, raced>>
    BY <1>4, <2>1 DEF Alone
  <2>2. CASE pidfile' = NoPid /\ raced' = (raced \/ pidfile \notin {stop.pid, NoPid})
    <3> SUFFICES ASSUME ~raced' PROVE Alone'
      BY DEF Alone
    <3>1. ~raced /\ pidfile \in {stop.pid, NoPid}
      BY <2>2
    <3>2. \A q \in Pids : ~(IsDaemon(q)' /\ proc'[q] # "forked")
      BY <3>1, <1>4 DEF Alone
    <3>3. \A p, q \in Pids : IsDaemon(p)' /\ IsDaemon(q)' /\ proc'[p] = "forked" => p = q
      BY <3>1, <1>4 DEF Alone
    <3>4. starting' <= 1 /\ (starting' > 0 => \A p \in Pids : ~IsDaemon(p)')
      BY <3>1, <1>4 DEF Alone
    <3> QED
      BY <3>2, <3>3, <3>4 DEF Alone
  <2> QED
    BY <2>1, <2>2
<1> QED
  BY <1>2, <1>3, <1>5

\* The process has ended.
LEMMA GoneStep == ASSUME StartsBounded, DaemonInv, Background!Gone PROVE DaemonInv'
<1> USE DEF StartsBounded, Background!Gone
<1>1. proc' = [proc EXCEPT ![stop.pid] = "free"] /\ stop.pid \notin fore
  BY DEF DaemonInv, Background!TypeOK, InFront
<1>2. StrangersSafe' /\ harmed' \in {"never", "reused", "looks", "checked"}
  BY DEF DaemonInv, StrangersSafe, Background!TypeOK
<1> QED
  BY <1>1, <1>2, UnlinkStep

\* stop ends half-way.
LEMMA StopDiesStep == ASSUME StartsBounded, DaemonInv, Background!StopDies PROVE DaemonInv'
<1> USE DEF StartsBounded, DaemonInv, Background!StopDies
<1>1. Background!TypeOK'
  BY DEF Background!TypeOK
<1>2. Pursued' /\ StrangersSafe' /\ InFront'
  BY DEF Pursued, StrangersSafe, InFront
<1>3. Alone'
  BY DEF Alone, IsDaemon
<1> QED
  BY <1>1, <1>2, <1>3

\* The second signal.
LEMMA SendKillStep == ASSUME StartsBounded, DaemonInv, Background!SendKill PROVE DaemonInv'
<1> USE DEF StartsBounded, Background!SendKill
<1>1. stop # Background!Idle
  BY DEF Background!Idle
<1>2. StrangersSafe' /\ harmed' \in {"never", "reused", "looks", "checked"}
  BY <1>1 DEF Background!Hit, Background!Strangers, DaemonInv, StrangersSafe, Pursued, Background!TypeOK
<1> QED
  BY <1>1, <1>2, UnlinkStep DEF Background!End

-----------------------------------------------------------------------------
\* The theorems

\* The inductive invariant: until starts overlap there is one daemon, and stop pursues no process
\* whose command line is not a server's, unless the id was given out again.
THEOREM DaemonInvariance == ASSUME StartsBounded PROVE Background!Spec => []DaemonInv
<1>1. Background!Init => DaemonInv
  BY NothingRuns
<1>2. DaemonInv /\ [Background!Next]_(Background!vars) => DaemonInv'
  <2> SUFFICES ASSUME DaemonInv, [Background!Next]_(Background!vars) PROVE DaemonInv'
    OBVIOUS
  <2>1. CASE Background!Start \/ Background!Fork \/ Background!Foreground
    BY <2>1, StartStep, ForkStep, ForegroundStep
  <2>2. CASE \/ Background!StopChecks \/ Background!SendTerm \/ Background!Gone
             \/ Background!SendKill \/ Background!StopDies
    BY <2>2, StopChecksStep, SendTermStep, GoneStep, SendKillStep, StopDiesStep
  <2>3. CASE \E p \in Pids : \/ Background!WritePid(p) \/ Background!Bind(p)
                           \/ Background!Exits(p) \/ Background!Stranger(p)
    BY <2>3, WritePidStep, BindStep, EndStep, StrangerStep DEF Background!Exits
  <2>4. CASE UNCHANGED Background!vars
    BY <2>4 DEF Background!vars, DaemonInv, Background!TypeOK, Pursued, StrangersSafe, InFront, Alone, IsDaemon
  <2> QED
    BY <2>1, <2>2, <2>3, <2>4 DEF Background!Next
<1> QED
  BY <1>1, <1>2, PTL DEF Background!Spec

\* `serve --stop` signals a process that is not the server's only if that process took the id
\* after the command line was checked, or has a command line that reads like the server's.
THEOREM Strangers == ASSUME StartsBounded PROVE Background!Spec => []StrangersSafe
<1>1. DaemonInv => StrangersSafe
  BY DEF DaemonInv
<1> QED
  BY <1>1, DaemonInvariance, PTL

\* A daemon that serves is the one the pid file names, unless starts overlapped, one could not read
\* the daemon's command line, the file could not be written, or stop unlinked the file of a newer daemon.
THEOREM Findable == ASSUME StartsBounded PROVE Background!Spec => []DaemonFindable
<1>1. DaemonInv => DaemonFindable
  BY DEF DaemonInv, DaemonFindable, Alone, IsDaemon
<1> QED
  BY <1>1, DaemonInvariance, PTL

-----------------------------------------------------------------------------
(* The configuration.  [outcome] is the told of Configuration.              *)

\* The bound on edits is a number.
EditsBounded == MaxEdits \in Nat

\* The settings and what the runtime has read of them are what they may be.
ConfigTyped ==
  /\ Config!TypeOK
  /\ runtime \in [state : {"none", "failed", "built"}, mode : {"none"} \union Config!Modes,
                  agent : {"none", "claude_code"} \union Config!AgentSettings,
                  init : {"none", "codex", "opencode"}]

\* A server that is down keeps nothing of the files.
Forgotten == server = "down" => runtime = Config!NotBuilt /\ ~sdk /\ outcome = "none" /\ ~changed

\* What is on disk passes the check, until it changes.
Checked == server = "up" /\ ~changed => Config!LoadGlobal(disk) # "error" /\ Config!Precheck(disk)

\* The runtime has read what is on disk, until it changes.
ReadThen ==
  /\ outcome # "none" => runtime.state = "built"
  /\ runtime.state = "built" => runtime.mode \in Config!Modes
  /\ runtime.state = "built" /\ ~changed =>
       /\ Config!Load(disk) # "error"
       /\ runtime.mode = disk.mode /\ runtime.agent = Config!DefaultAgent(disk) /\ runtime.init = disk.init
  /\ sdk /\ ~changed => Config!Buildable(disk)

ConfigInv == ConfigTyped /\ Forgotten /\ Checked /\ ReadThen /\ CheckedServerAnalyzes

\* The files say only what the mode needs, no server runs.
LEMMA NothingConfigured == ASSUME EditsBounded, Config!Init PROVE ConfigInv
<1> USE DEF Config!Init
<1>1. disk \in Config!Attributes
  <2>1. PICK mode \in Config!Modes : disk = Config!Fresh(mode)
    OBVIOUS
  <2> QED
    BY <2>1 DEF Config!Attributes, Config!Fresh, Config!Settings, Config!Kinds, Config!Modes,
                Config!AgentSettings, Config!LegacySettings, Config!Models, Config!Providers
<1>2. runtime = [state |-> "none", mode |-> "none", agent |-> "none", init |-> "none"]
  BY DEF Config!NotBuilt
<1>2a. ConfigTyped
  <2>1. edits \in 0..MaxEdits
    BY DEF EditsBounded
  <2>1a. runtime.state = "none" /\ server = "down" /\ outcome = "none" /\ changed = FALSE /\ sdk = FALSE
    BY <1>2
  <2> HIDE DEF Config!Init
  <2>2. Config!TypeOK
    BY <1>1, <2>1, <2>1a DEF Config!TypeOK
  <2>3. runtime \in [state : {"none", "failed", "built"}, mode : {"none"} \union Config!Modes,
                     agent : {"none", "claude_code"} \union Config!AgentSettings,
                     init : {"none", "codex", "opencode"}]
    BY <1>2
  <2> QED
    BY <2>2, <2>3 DEF ConfigTyped
<1>3. Forgotten /\ Checked /\ ReadThen /\ CheckedServerAnalyzes
  BY DEF Forgotten, Checked, ReadThen, Config!NotBuilt, CheckedServerAnalyzes, Config!CheckedServerAnalyzes
<1> QED
  BY <1>2a, <1>3 DEF ConfigInv

\* Somebody changes one setting: with a server up, that is noticed of the disk only.
LEMMA EditStep == ASSUME EditsBounded, ConfigInv, Config!Edit PROVE ConfigInv'
<1> USE DEF Config!Edit
<1>0. disk \in Config!Attributes
  BY DEF ConfigInv, ConfigTyped, Config!TypeOK
<1>1. disk' \in Config!Attributes
  <2>1. \A k \in Config!Kinds : [disk EXCEPT !.kind = k] \in Config!Attributes
    BY <1>0 DEF Config!Attributes
  <2>2. \A s \in Config!Settings : [disk EXCEPT !.project = s] \in Config!Attributes
    BY <1>0 DEF Config!Attributes
  <2>3. \A s \in Config!Settings : [disk EXCEPT !.global = s] \in Config!Attributes
    BY <1>0 DEF Config!Attributes
  <2>4. \A m \in Config!Modes \union {"other"} : [disk EXCEPT !.mode = m] \in Config!Attributes
    BY <1>0 DEF Config!Attributes
  <2>5. \A a \in Config!AgentSettings : [disk EXCEPT !.agent = a] \in Config!Attributes
    BY <1>0 DEF Config!Attributes
  <2>6. \A a \in Config!LegacySettings : [disk EXCEPT !.legacy = a] \in Config!Attributes
    BY <1>0 DEF Config!Attributes
  <2>7. [disk EXCEPT !.program = ~@] \in Config!Attributes /\ [disk EXCEPT !.primary = ~@] \in Config!Attributes
    BY <1>0 DEF Config!Attributes
  <2>7a. [disk EXCEPT !.oddFallback = ~@] \in Config!Attributes /\ [disk EXCEPT !.readFile = ~@] \in Config!Attributes
    BY <1>0 DEF Config!Attributes
  <2>8. \A m \in Config!Models : [disk EXCEPT !.model = m] \in Config!Attributes
    BY <1>0 DEF Config!Attributes
  <2>8a. \A m \in Config!Models : [disk EXCEPT !.agentModel = m] \in Config!Attributes
    BY <1>0 DEF Config!Attributes
  <2>9. \A k \in SUBSET Config!Providers : [disk EXCEPT !.keys = k] \in Config!Attributes
    BY <1>0 DEF Config!Attributes
  <2>10. \A i \in {"none", "codex", "opencode"} : [disk EXCEPT !.init = i] \in Config!Attributes
    BY <1>0 DEF Config!Attributes
  <2> QED
    BY <2>1, <2>2, <2>3, <2>4, <2>5, <2>6, <2>7, <2>7a, <2>8, <2>8a, <2>9, <2>10
<1>2. ConfigTyped'
  BY <1>1 DEF EditsBounded, ConfigInv, ConfigTyped, Config!TypeOK
<1>3. Forgotten' /\ Checked'
  BY DEF ConfigInv, Forgotten, Checked
<1>4. server = "up" \/ (outcome = "none" /\ runtime.state = "none" /\ ~sdk)
  BY DEF ConfigInv, ConfigTyped, Config!TypeOK, Forgotten, Config!NotBuilt
<1>4a. changed' \/ (runtime'.state = "none" /\ ~sdk')
  BY <1>4
<1>4b. /\ outcome' # "none" => runtime'.state = "built"
       /\ runtime'.state = "built" => runtime'.mode \in Config!Modes
  BY DEF ConfigInv, ReadThen
<1>5. ReadThen'
  BY <1>4a, <1>4b DEF ReadThen
<1>6. CheckedServerAnalyzes'
  BY <1>4 DEF CheckedServerAnalyzes, Config!CheckedServerAnalyzes
<1> QED
  BY <1>2, <1>3, <1>5, <1>6 DEF ConfigInv

\* The server starts on files that pass its check.
LEMMA ServeStep == ASSUME ConfigInv, Config!Serve PROVE ConfigInv'
<1> USE DEF Config!Serve, ConfigInv
<1>1. ConfigTyped'
  BY DEF ConfigTyped, Config!TypeOK
<1>2. Forgotten' /\ Checked'
  BY DEF Forgotten, Checked
<1>3. ReadThen' /\ CheckedServerAnalyzes'
  BY DEF Forgotten, ReadThen, Config!NotBuilt, CheckedServerAnalyzes, Config!CheckedServerAnalyzes
<1> QED
  BY <1>1, <1>2, <1>3

\* It stops.
LEMMA StopStep == ASSUME ConfigInv, Config!Stop PROVE ConfigInv'
<1> USE DEF Config!Stop, ConfigInv
<1>1. ConfigTyped'
  BY DEF ConfigTyped, Config!TypeOK, Config!NotBuilt
<1>2. Forgotten' /\ Checked' /\ ReadThen' /\ CheckedServerAnalyzes'
  BY DEF Forgotten, Checked, ReadThen, Config!NotBuilt, CheckedServerAnalyzes, Config!CheckedServerAnalyzes
<1> QED
  BY <1>1, <1>2

\* Whatever the files say, a runtime that is built has a mode.
LEMMA Loaded == ASSUME Config!Load(disk) # "error" PROVE disk.mode \in Config!Modes
  BY DEF Config!Load, Config!Build

\* The runtime is built from the files as they are.
LEMMA BuildRuntimeStep == ASSUME ConfigInv, Config!BuildRuntime PROVE ConfigInv'
<1> USE DEF Config!BuildRuntime, ConfigInv
<1>0. outcome = "none" /\ disk \in Config!Attributes
  BY DEF ReadThen, Config!NotBuilt, ConfigTyped, Config!TypeOK
<1>1. CASE Config!Load(disk) = "error"
  <2>1. runtime' = [state |-> "failed", mode |-> "none", agent |-> "none", init |-> "none"]
    BY <1>1 DEF Config!NotBuilt
  <2>2. ConfigTyped'
    BY <2>1 DEF ConfigTyped, Config!TypeOK
  <2>3. Forgotten' /\ Checked' /\ ReadThen' /\ CheckedServerAnalyzes'
    BY <1>0, <2>1 DEF Forgotten, Checked, ReadThen, CheckedServerAnalyzes, Config!CheckedServerAnalyzes
  <2> QED
    BY <2>2, <2>3
<1>2. CASE Config!Load(disk) # "error"
  <2>1. runtime' = [state |-> "built", mode |-> disk.mode, agent |-> Config!DefaultAgent(disk), init |-> disk.init]
    BY <1>2
  <2>2. disk.mode \in Config!Modes /\ disk.init \in {"none", "codex", "opencode"}
    BY <1>0, <1>2, Loaded DEF Config!Attributes
  <2>3. Config!DefaultAgent(disk) \in {"none", "claude_code"} \union Config!AgentSettings
    BY <1>0 DEF Config!DefaultAgent, Config!AgentSettings, Config!Attributes
  <2>4. ConfigTyped'
    BY <2>1, <2>2, <2>3 DEF ConfigTyped, Config!TypeOK
  <2>5. Forgotten' /\ Checked'
    BY DEF Forgotten, Checked
  <2>6. runtime'.state = "built" /\ runtime'.mode = disk.mode /\ runtime'.agent = Config!DefaultAgent(disk)
          /\ runtime'.init = disk.init
    BY <2>1
  <2>7. ReadThen' /\ CheckedServerAnalyzes'
    BY <1>0, <1>2, <2>2, <2>6 DEF ReadThen, CheckedServerAnalyzes, Config!CheckedServerAnalyzes
  <2> QED
    BY <2>4, <2>5, <2>7
<1> QED
  BY <1>1, <1>2

\* The program that is asked for is the one the check found.
LEMMA AskProgramStep == ASSUME ConfigInv, Config!AskProgram PROVE ConfigInv'
<1> USE DEF Config!AskProgram, Config!Analyze, ConfigInv
<1>1. ConfigTyped' /\ Forgotten' /\ Checked'
  BY DEF ConfigTyped, Config!TypeOK, Forgotten, Checked
<1>2. ReadThen'
  BY DEF ReadThen
<1>3. ASSUME ~changed
      PROVE  Config!Effective(runtime.agent, runtime.init) \in Config!Supported /\ disk.program
  BY <1>3 DEF Checked, ReadThen, Config!Precheck, Config!CheckCli
<1>4. CheckedServerAnalyzes'
  BY <1>3 DEF CheckedServerAnalyzes, Config!CheckedServerAnalyzes
<1> QED
  BY <1>1, <1>2, <1>4

\* The SDK's agent is built, if it can be.
LEMMA AskModelStep == ASSUME ConfigInv, Config!AskModel PROVE ConfigInv'
<1> USE DEF Config!AskModel, Config!Analyze, ConfigInv
<1>1. ConfigTyped' /\ Forgotten' /\ Checked'
  BY DEF ConfigTyped, Config!TypeOK, Forgotten, Checked
<1>2. runtime.mode = "sdk" /\ (~changed => Config!Load(disk) # "error" /\ (sdk => Config!Buildable(disk)))
  BY DEF ReadThen
<1>2a. ReadThen' /\ (~changed => (sdk' <=> Config!Buildable(disk)))
  BY <1>2 DEF ReadThen
<1>3. CheckedServerAnalyzes'
  BY <1>2, <1>2a DEF CheckedServerAnalyzes, Config!CheckedServerAnalyzes
<1> QED
  BY <1>1, <1>2a, <1>3

\* The inductive invariant: a server that is up has passed its check, and the runtime has read what the
\* check saw, until the disk changes.
THEOREM ConfigInvariance == ASSUME EditsBounded PROVE Config!Spec => []ConfigInv
<1>1. Config!Init => ConfigInv
  BY NothingConfigured
<1>2. ConfigInv /\ [Config!Next]_(Config!vars) => ConfigInv'
  <2> SUFFICES ASSUME ConfigInv, [Config!Next]_(Config!vars) PROVE ConfigInv'
    OBVIOUS
  <2>1. CASE Config!Edit \/ Config!Serve \/ Config!Stop
    BY <2>1, EditStep, ServeStep, StopStep
  <2>2. CASE Config!BuildRuntime \/ Config!AskProgram \/ Config!AskModel
    BY <2>2, BuildRuntimeStep, AskProgramStep, AskModelStep
  <2>3. CASE UNCHANGED Config!vars
    BY <2>3 DEF Config!vars, ConfigInv, ConfigTyped, Config!TypeOK, Forgotten, Checked, ReadThen,
                CheckedServerAnalyzes, Config!CheckedServerAnalyzes
  <2> QED
    BY <2>1, <2>2, <2>3 DEF Config!Next
<1> QED
  BY <1>1, <1>2, PTL DEF Config!Spec

\* As long as nothing on disk changes, a server that passed its check finds the program of every
\* analysis, and with the SDK finds its model if and only if the selected model has a key, no fallback is
\* of an unknown name, and [analysis.read_project_file] is well-formed.
THEOREM CheckedAnalyzes == ASSUME EditsBounded PROVE Config!Spec => []CheckedServerAnalyzes
<1>1. ConfigInv => CheckedServerAnalyzes
  BY DEF ConfigInv
<1> QED
  BY <1>1, ConfigInvariance, PTL

\* What the loader takes of a setting of [retention]: a proper value of the first layer that has one.
LEMMA Taken ==
  ASSUME NEW f \in Config!Attributes, f.kind \in {"positive", "switch"}, Config!Load(f) # "error"
  PROVE  /\ f.project # "unset" /\ f.global # "unset"
         /\ Config!Load(f) = Config!From(f, {"absent"})
         /\ f.project # "absent" => f.project \in Config!Allowed(f)
         /\ f.project = "absent" /\ f.global # "absent" => f.global \in Config!Allowed(f)
<1>1. f.project # "unset" /\ f.global # "unset"
  BY DEF Config!Load, Config!Unreadable, Config!Layers
<1>2. Config!Load(f) = Config!Resolve(f)
  BY DEF Config!Load, Config!Build
<1>3. f.kind # "repairs" /\ f.kind # "number"
  OBVIOUS
<1> DEFINE layer == Config!From(f, {"absent"})
<1>4. Config!Resolve(f) = IF layer \in Config!Layers /\ f[layer] \notin Config!Allowed(f) THEN "error" ELSE layer
  BY <1>3 DEF Config!Resolve
<1>5. Config!Load(f) = layer /\ (layer \in Config!Layers => f[layer] \in Config!Allowed(f))
  BY <1>2, <1>4
<1>6. f.project # "absent" => layer = "project"
  BY DEF Config!From
<1>7. f.project = "absent" /\ f.global # "absent" => layer = "global"
  BY DEF Config!From
<1> QED
  BY <1>1, <1>5, <1>6, <1>7 DEF Config!Layers

\* `config show` and `config validate` agree with the loader on every setting of [retention] it takes.
LEMMA Shown == ASSUME disk \in Config!Attributes PROVE ShownIsLoaded
<1> SUFFICES ASSUME disk.kind \in {"positive", "switch"}, Config!Load(disk) # "error"
             PROVE  /\ Config!Show(disk) = Config!Load(disk) /\ Config!Validates(disk)
                    /\ disk.global # "variable" => Config!Label(disk) = Config!Load(disk)
  BY DEF ShownIsLoaded, Config!ShownIsLoaded
<1>1. Config!Show(disk) = Config!Load(disk)
  BY Taken DEF Config!Show, Config!Unreadable, Config!Layers
<1>2. \A layer \in Config!Layers : Config!Load(disk) = layer => disk[layer] \in Config!Allowed(disk)
  BY Taken DEF Config!Layers, Config!From
<1>3. Config!Validates(disk)
  BY <1>1, <1>2 DEF Config!Validates, Config!Allowed
<1>4. ASSUME disk.global # "variable" PROVE Config!Label(disk) = Config!Load(disk)
  BY <1>4, Taken DEF Config!Label, Config!From, Config!Layers, Config!Allowed
<1> QED
  BY <1>1, <1>3, <1>4

\* Whatever the two files say of a setting of [retention], `config show` shows the value the loader takes
\* and the layer it is from, and `config validate` does not reject it.
THEOREM ShownAsLoaded == ASSUME EditsBounded PROVE Config!Spec => []ShownIsLoaded
<1>1. ConfigInv => ShownIsLoaded
  BY Shown DEF ConfigInv, ConfigTyped, Config!TypeOK
<1> QED
  BY <1>1, ConfigInvariance, PTL

-----------------------------------------------------------------------------
(* The requests about directives.  [answer] is the told of                  *)
(* DirectiveRequests.                                                       *)

\* There are finitely many directives, and time for the first of them.
DirectivesBounded == IsFiniteSet(Ids) /\ MaxClock \in Nat \ {0}

\* The rows, and the clock that is ahead of every time that was written and of the tags taken from them.
Times ==
  /\ status \in [Ids -> {"active", "disabled", "obsolete"}] /\ updated \in [Ids -> 1..MaxClock]
  /\ clock \in 1..MaxClock /\ began \in 0..clock
  /\ written \in [Ids -> 1..MaxClock] /\ \A d \in Ids : written[d] \in updated[d]..clock
  /\ etag \in Nat \X Nat /\ etag[1] <= clock
  /\ polled \in Nat \X Nat /\ polled[1] <= clock
  /\ kept \subseteq Ids \X (1..MaxClock) /\ torn \in BOOLEAN

\* Of a list that was read with its tag the client has every directive that was not written since, and
\* as many as the tag says.
Current ==
  etag # Requests!NoTag /\ ~torn =>
    /\ \A d \in Requests!Listed : <<d, written[d]>> \in kept \/ written[d] > etag[1]
    /\ IsFiniteSet(kept) /\ Cardinality(kept) = etag[2]

ListInv == Times /\ Current

\* The command and its request are of their forms.
Commands ==
  /\ command \in [id : Ids, want : {"disabled", "active"}, at : {"ask", "wait", "look", "write"}]
                 \union {Requests!NoCommand}
  /\ request \subseteq Ids \X {"disabled", "active"}
  /\ answer \in {"none", "changed", "no_change", "failed"} /\ handled \in {0, 1}

\* A request is under way until it is handled, whether or not the command still waits for it.
UnderWay ==
  /\ request # {} => handled = 0 /\ command.at \in {"wait", "idle"} /\ answer # "changed"
  /\ command # Requests!NoCommand => answer = "none"
  /\ command.at \in {"ask", "look", "write"} => request = {} /\ handled = 0
  /\ command.at = "wait" => request # {}
  /\ answer = "changed" => handled = 1

CommandInv == Commands /\ UnderWay

\* DirectiveRequests counts as everyone does.
LEMMA SameCount == ASSUME NEW S PROVE Requests!Cardinality(S) = Cardinality(S)
  BY DEF Requests!Cardinality, Cardinality

\* Natural numbers do not descend for ever.
LEMMA NoDescent == IsWellFoundedOn({p \in Nat \X Nat : p[1] < p[2]}, Nat)
  BY NatLessThanWellFounded DEF OpToRel

\* The times of the listed rows have a latest one, which the tag names.
LEMMA Latest ==
  ASSUME NEW S \in SUBSET Nat, S # {}, NEW m \in Nat, \A x \in S : x <= m
  PROVE  Requests!Max(S) \in S /\ \A y \in S : Requests!Max(S) >= y
<1> DEFINE D == {m - x : x \in S}
<1> DEFINE R == {p \in Nat \X Nat : p[1] < p[2]}
<1>1. D \subseteq Nat /\ D # {}
  <2>1. \A x \in S : x \in Nat /\ x <= m
    OBVIOUS
  <2>2. \A x \in S : m - x \in Nat
    BY <2>1
  <2> QED
    BY <2>2
<1>2. PICK n \in D : \A k \in D : n <= k
  <2>1. PICK n \in D : \A k \in D : <<k, n>> \notin R
    BY <1>1, NoDescent, WFMin, Zenon
  <2>2. \A k \in D : n \in Nat /\ k \in Nat /\ ~(k < n)
    BY <1>1, <2>1
  <2> QED
    BY <2>2
<1>3. PICK x \in S : n = m - x
  BY <1>2
<1>4. \A y \in S : x >= y
  <2> SUFFICES ASSUME NEW y \in S PROVE x >= y
    OBVIOUS
  <2>1. m - x <= m - y
    BY <1>2, <1>3
  <2> QED
    BY <2>1
<1> QED
  BY <1>4 DEF Requests!Max

\* Rows are counted alike by themselves and as the client lists them.
LEMMA ListingCounts ==
  ASSUME DirectivesBounded
  PROVE  /\ IsFiniteSet(Requests!Listed) /\ IsFiniteSet(Requests!Listing)
         /\ Cardinality(Requests!Listing) = Cardinality(Requests!Listed)
<1>1. IsFiniteSet(Requests!Listed)
  BY FS_Subset DEF DirectivesBounded, Requests!Listed
<1> DEFINE f == [d \in Requests!Listed |-> <<d, written[d]>>]
<1>2. f \in [Requests!Listed -> Requests!Listing]
  BY DEF Requests!Listing
<1>3. f \in Injection(Requests!Listed, Requests!Listing)
  BY <1>2 DEF Injection, IsInjective
<1>4. f \in Surjection(Requests!Listed, Requests!Listing)
  BY <1>2 DEF Surjection, Requests!Listing
<1>5. ExistsBijection(Requests!Listed, Requests!Listing)
  BY <1>3, <1>4 DEF ExistsBijection, Bijection
<1> QED
  BY <1>1, <1>5, FS_Bijection

\* The tag of a list that is not empty.
LEMMA Tagged ==
  ASSUME DirectivesBounded, Times
  PROVE  /\ Requests!Listed = {} => Requests!Tag = Requests!NoTag
         /\ Requests!Tag \in Nat \X Nat /\ Requests!Tag[1] <= clock
         /\ Requests!Listed # {} => /\ Requests!Tag[2] = Cardinality(Requests!Listed)
                                    /\ \A d \in Requests!Listed : updated[d] <= Requests!Tag[1]
<1>1. CASE Requests!Listed = {}
  BY <1>1 DEF Requests!Tag, Requests!NoTag, Times, DirectivesBounded
<1>2. CASE Requests!Listed # {}
  <2> DEFINE S == {updated[d] : d \in Requests!Listed}
  <2>1. S \in SUBSET Nat /\ S # {} /\ clock \in Nat /\ \A x \in S : x <= clock
    BY <1>2 DEF Times, Requests!Listed, DirectivesBounded
  <2>2. Requests!Max(S) \in S /\ \A y \in S : Requests!Max(S) >= y
    BY <2>1, Latest
  <2>3. Requests!Tag = <<Requests!Max(S), Cardinality(Requests!Listed)>>
    BY <1>2, SameCount DEF Requests!Tag
  <2>4. Cardinality(Requests!Listed) \in Nat
    BY ListingCounts, FS_CardinalityType
  <2> QED
    BY <1>2, <2>1, <2>2, <2>3, <2>4
<1> QED
  BY <1>1, <1>2

\* Nobody has asked for anything.
LEMMA NothingAsked == ASSUME DirectivesBounded, Requests!Init PROVE ListInv /\ CommandInv
<1> USE DEF Requests!Init
<1>1. Times
  <2>1. 1 \in 1..MaxClock /\ clock = 1 /\ etag = <<0, 0>> /\ polled = <<0, 0>>
    BY DEF DirectivesBounded, Requests!NoTag
  <2>2. status \in [Ids -> {"active", "disabled", "obsolete"}] /\ torn \in BOOLEAN
    OBVIOUS
  <2>3. updated \in [Ids -> 1..MaxClock] /\ written \in [Ids -> 1..MaxClock]
          /\ \A d \in Ids : written[d] = 1 /\ updated[d] = 1
    BY <2>1
  <2>4. began \in 0..clock /\ kept \subseteq Ids \X (1..MaxClock)
    BY <2>1
  <2>5. etag \in Nat \X Nat /\ etag[1] = 0 /\ polled \in Nat \X Nat /\ polled[1] = 0
    BY <2>1
  <2> HIDE DEF Requests!Init
  <2> QED
    BY <2>1, <2>2, <2>3, <2>4, <2>5 DEF Times
<1>2. Current
  BY DEF Current
<1>3. Commands /\ UnderWay
  BY DEF Commands, UnderWay, Requests!NoCommand
<1> QED
  BY <1>1, <1>2, <1>3 DEF ListInv, CommandInv

\* A written row is newer than every tag.
LEMMA WriteStep ==
  ASSUME DirectivesBounded, ListInv, NEW d \in Ids, NEW s \in {"active", "disabled", "obsolete"},
         NEW at \in 1..(clock + 1), Requests!Write(d, s, at), UNCHANGED Requests!client
  PROVE  ListInv'
<1> USE DEF ListInv, Requests!Write, Requests!Now, Requests!client
<1>0. clock \in Nat /\ MaxClock \in Nat /\ clock' = clock + 1 /\ clock' <= MaxClock /\ etag[1] \in Nat
        /\ etag[1] <= clock
  BY DEF DirectivesBounded, Times
<1>1. Times'
  <2>1. status' \in [Ids -> {"active", "disabled", "obsolete"}]
    BY DEF Times
  <2>2. updated' \in [Ids -> 1..MaxClock]
    BY <1>0 DEF Times
  <2>3. clock' \in 1..MaxClock /\ began' \in 0..clock'
    BY <1>0 DEF Times
  <2>4. written' \in [Ids -> 1..MaxClock] /\ \A e \in Ids : written'[e] \in updated'[e]..clock'
    BY <1>0 DEF Times
  <2> QED
    BY <1>0, <2>1, <2>2, <2>3, <2>4 DEF Times
<1>2. Current'
  <2>1. \A e \in Requests!Listed' : (e \in Requests!Listed /\ written'[e] = written[e]) \/ written'[e] > etag[1]
    BY <1>0 DEF Requests!Listed, Times
  <2> QED
    BY <2>1 DEF Current
<1> QED
  BY <1>1, <1>2

\* An aggregation writes rows, now or as of its beginning; the client and the command stay.
LEMMA AggregationStep ==
  ASSUME DirectivesBounded, ListInv,
         \/ Requests!Aggregate \/ Requests!AggregationEnds
         \/ \E d \in Ids : Requests!Judge(d) \/ Requests!Reword(d)
  PROVE  ListInv' /\ UNCHANGED Requests!cli
<1> USE DEF ListInv
<1>0. clock \in Nat /\ clock >= 1 /\ MaxClock \in Nat /\ began \in 0..clock
  BY DEF DirectivesBounded, Times
<1>1. CASE Requests!Aggregate
  <2> USE <1>1 DEF Requests!Aggregate, Requests!Now, Requests!client
  <2>1. Times'
    BY <1>0 DEF Times
  <2>2. Current'
    BY DEF Current, Requests!Listed
  <2> QED
    BY <2>1, <2>2
<1>2. CASE Requests!AggregationEnds
  <2> USE <1>2 DEF Requests!AggregationEnds, Requests!client
  <2>1. Times'
    BY <1>0 DEF Times
  <2>2. Current'
    BY DEF Current, Requests!Listed
  <2> QED
    BY <2>1, <2>2
<1>3. ASSUME NEW d \in Ids, Requests!Judge(d) PROVE ListInv' /\ UNCHANGED Requests!cli
  <2>1. clock + 1 \in 1..(clock + 1)
    BY <1>0
  <2> QED
    BY <1>3, <2>1, WriteStep DEF Requests!Judge, Requests!Now
<1>4. ASSUME NEW d \in Ids, Requests!Reword(d) PROVE ListInv' /\ UNCHANGED Requests!cli
  <2>1. began \in 1..(clock + 1) /\ status[d] \in {"active", "disabled", "obsolete"}
    BY <1>0, <1>4 DEF Requests!Reword, Times
  <2> QED
    BY <1>4, <2>1, WriteStep DEF Requests!Reword
<1> QED
  BY <1>1, <1>2, <1>3, <1>4

\* The client takes the list with the tag that was computed before it.
LEMMA KeepStep ==
  ASSUME DirectivesBounded, ListInv, NEW tag \in Nat \X Nat, tag[1] <= clock,
         Requests!Keep(tag, Requests!Listing), tag = Requests!Tag => Requests!Listed # {}, UNCHANGED Requests!rows
  PROVE  ListInv'
<1> USE DEF ListInv, Requests!Keep, Requests!rows
<1>1. Requests!Listing \subseteq Ids \X (1..MaxClock)
  BY DEF Requests!Listing, Requests!Listed, Times
<1>2. Times'
  <2>1. etag' = tag /\ polled' = <<0, 0>> /\ torn' \in BOOLEAN /\ 0 <= clock
    BY DEF Requests!NoTag, Times
  <2> QED
    BY <1>1, <2>1 DEF Times
<1>3. ASSUME ~torn' PROVE \A d \in Requests!Listed' : <<d, written'[d]>> \in kept'
  BY DEF Requests!Listed, Requests!Listing
<1>4. ASSUME ~torn' PROVE IsFiniteSet(kept') /\ Cardinality(kept') = etag'[2]
  BY <1>4, ListingCounts, Tagged
<1>5. Current'
  BY <1>3, <1>4 DEF Current
<1> QED
  BY <1>2, <1>5

\* The client polls, and lists.
LEMMA ClientStep ==
  ASSUME DirectivesBounded, ListInv, Requests!Poll \/ Requests!List
  PROVE  ListInv' /\ UNCHANGED Requests!cli
<1>1. CASE Requests!List
  <2>1. polled \in Nat \X Nat /\ polled[1] <= clock /\ polled # Requests!NoTag
    BY <1>1 DEF ListInv, Times, Requests!List
  <2>2. polled = Requests!Tag => Requests!Listed # {}
    BY <2>1, Tagged DEF ListInv
  <2> QED
    BY <1>1, <2>1, <2>2, KeepStep DEF Requests!List
<1>2. CASE Requests!Poll /\ Requests!Listed # {}
  <2>1. polled' = Requests!Tag /\ UNCHANGED <<etag, kept, torn, status, updated, written, clock, began>>
    BY <1>2 DEF Requests!Poll, Requests!rows
  <2>2. Times'
    BY <2>1, Tagged DEF ListInv, Times
  <2>3. Current'
    BY <2>1 DEF ListInv, Current, Requests!Listed
  <2> QED
    BY <1>2, <2>2, <2>3 DEF ListInv, Requests!Poll
<1>3. CASE Requests!Poll /\ Requests!Listed = {}
  <2>1. /\ etag' = <<0, 0>> /\ polled' = <<0, 0>> /\ kept' = {} /\ torn' \in BOOLEAN
        /\ UNCHANGED <<status, updated, written, clock, began>>
    BY <1>3 DEF Requests!Poll, Requests!Keep, Requests!NoTag, Requests!rows
  <2>2. Times'
    BY <2>1 DEF ListInv, Times
  <2>3. Current'
    BY <2>1 DEF Current, Requests!NoTag
  <2> QED
    BY <1>3, <2>2, <2>3 DEF ListInv, Requests!Poll
<1> QED
  BY <1>1, <1>2, <1>3

\* The command begins, and goes on by itself or through the server; it writes nothing yet.
LEMMA CommandStep ==
  ASSUME CommandInv,
         \/ Requests!Run \/ Requests!NoServer \/ Requests!Ask \/ Requests!AskTimesOut \/ Requests!Look
         \/ Requests!Refuse
  PROVE  CommandInv' /\ UNCHANGED Requests!rows /\ UNCHANGED Requests!client
<1> USE DEF CommandInv
<1> DEFINE Forms == [id : Ids, want : {"disabled", "active"}, at : {"ask", "wait", "look", "write"}]
<1>0. Requests!NoCommand \notin Forms /\ Requests!NoCommand.at = "idle"
  BY DEF Requests!NoCommand
<1>0a. command \in Forms \/ command = Requests!NoCommand
  BY DEF Commands
<1>0b. \A place \in {"ask", "wait", "look", "write"} : command \in Forms /\ Requests!At(place) =>
          command' \in Forms /\ command'.at = place
  BY DEF Requests!At
<1>1. CASE Requests!Run
  <2>1. command' \in Forms /\ command'.at \in {"ask", "look"} /\ request = {} /\ request' = {}
          /\ handled' = 0 /\ answer' = "none"
    BY <1>1 DEF Requests!Run
  <2>2. Commands' /\ UnderWay'
    BY <1>0, <2>1 DEF Commands, UnderWay
  <2> QED
    BY <1>1, <2>2 DEF Requests!Run
<1>2. CASE Requests!NoServer
  <2>1. command \in Forms /\ command' \in Forms /\ command'.at = "look" /\ UNCHANGED <<request, handled, answer>>
    BY <1>0, <1>0a, <1>0b, <1>2 DEF Requests!NoServer
  <2>2. Commands' /\ UnderWay'
    BY <1>0, <1>2, <2>1 DEF Commands, UnderWay, Requests!NoServer
  <2> QED
    BY <1>2, <2>2 DEF Requests!NoServer
<1>3. CASE Requests!Ask
  <2>1. command \in Forms /\ command' \in Forms /\ command'.at = "wait" /\ UNCHANGED <<handled, answer>>
    BY <1>0, <1>0a, <1>0b, <1>3 DEF Requests!Ask
  <2>2. request' # {} /\ request' \subseteq Ids \X {"disabled", "active"}
    BY <1>3, <2>1 DEF Requests!Ask
  <2>3. Commands' /\ UnderWay'
    BY <1>0, <1>3, <2>1, <2>2 DEF Commands, UnderWay, Requests!Ask
  <2> QED
    BY <1>3, <2>3 DEF Requests!Ask
<1>4. CASE Requests!AskTimesOut
  <2>1. command' = Requests!NoCommand /\ answer' = "failed" /\ UNCHANGED <<request, handled>>
    BY <1>4 DEF Requests!AskTimesOut, Requests!AfterTimeout, Requests!Tell
  <2>2. Commands' /\ UnderWay'
    BY <1>0, <1>4, <2>1 DEF Commands, UnderWay, Requests!AskTimesOut
  <2> QED
    BY <1>4, <2>2 DEF Requests!AskTimesOut
<1>5. CASE Requests!Look
  <2>1. \/ command' \in Forms /\ command'.at = "write" /\ answer' = answer
        \/ command' = Requests!NoCommand /\ answer' \in {"no_change", "failed"}
    BY <1>0, <1>0a, <1>0b, <1>5 DEF Requests!Look, Requests!Tell
  <2>2. command.at = "look" /\ UNCHANGED <<request, handled>>
    BY <1>5 DEF Requests!Look
  <2>3. Commands' /\ UnderWay'
    BY <1>0, <2>1, <2>2 DEF Commands, UnderWay
  <2> QED
    BY <1>5, <2>3 DEF Requests!Look
<1>6. CASE Requests!Refuse
  <2>1. /\ request # {} /\ request' = {} /\ handled' = handled
        /\ \/ command.at = "wait" /\ command' = Requests!NoCommand /\ answer' = "failed"
           \/ command.at # "wait" /\ UNCHANGED <<command, answer>>
    BY <1>6 DEF Requests!Refuse, Requests!Tell
  <2>2. Commands'
    BY <2>1 DEF Commands
  <2>3. UnderWay'
    <3>1. CASE command.at = "wait"
      BY <1>0, <2>1, <3>1 DEF UnderWay
    <3>2. CASE command.at # "wait"
      BY <2>1, <3>2 DEF UnderWay
    <3> QED
      BY <3>1, <3>2
  <2> QED
    BY <1>6, <2>2, <2>3 DEF Requests!Refuse
<1> QED
  BY <1>1, <1>2, <1>3, <1>4, <1>5, <1>6

\* The server changes the row, and says so to a command that still waits.
LEMMA PatchStep ==
  ASSUME DirectivesBounded, ListInv, CommandInv, Requests!Patch PROVE ListInv' /\ CommandInv'
<1>1. PICK d \in Ids, want \in {"disabled", "active"} :
        <<d, want>> \in request /\ (Requests!Write(d, want, Requests!Now) \/ UNCHANGED Requests!rows)
  BY DEF Requests!Patch
<1>2. UNCHANGED Requests!client
  BY DEF Requests!Patch
<1>3. ListInv'
  <2>1. CASE Requests!Write(d, want, Requests!Now)
    <3>1. Requests!Now \in 1..(clock + 1)
      BY DEF ListInv, Times, Requests!Now, DirectivesBounded
    <3> QED
      BY <1>2, <2>1, <3>1, WriteStep
  <2>2. CASE UNCHANGED Requests!rows
    BY <1>2, <2>2 DEF Requests!client, Requests!rows, ListInv, Times, Current, Requests!Listed
  <2> QED
    BY <1>1, <2>1, <2>2
<1>4. /\ request # {} /\ request' = {} /\ handled' = handled + 1
        /\ \/ command.at = "wait" /\ command' = Requests!NoCommand /\ answer' = "changed"
           \/ command.at # "wait" /\ UNCHANGED <<command, answer>>
  BY <1>1 DEF Requests!Patch, Requests!Tell
<1>5. handled = 0 /\ handled' = 1 /\ Requests!NoCommand.at = "idle" /\ command.at \in {"wait", "idle"}
  BY <1>4 DEF CommandInv, Commands, UnderWay, Requests!NoCommand
<1>6. Commands'
  BY <1>4, <1>5 DEF CommandInv, Commands
<1>7. UnderWay'
  <2>1. CASE command.at = "wait"
    BY <1>4, <1>5, <2>1 DEF UnderWay
  <2>2. CASE command.at # "wait"
    BY <1>4, <1>5, <2>2 DEF CommandInv, UnderWay
  <2> QED
    BY <2>1, <2>2
<1> QED
  BY <1>3, <1>6, <1>7 DEF CommandInv

\* The command writes the row by itself.
LEMMA SetStep ==
  ASSUME DirectivesBounded, ListInv, CommandInv, Requests!Set PROVE ListInv' /\ CommandInv'
<1>1. command.id \in Ids /\ command.want \in {"disabled", "active"} /\ Requests!Now \in 1..(clock + 1)
  BY DEF CommandInv, Commands, Requests!Set, Requests!NoCommand, ListInv, Times, Requests!Now, DirectivesBounded
<1>2. ListInv'
  BY <1>1, WriteStep DEF Requests!Set
<1>3. command.at = "write" /\ command' = Requests!NoCommand /\ answer' = "changed" /\ handled' = handled + 1
        /\ request' = request
  BY DEF Requests!Set, Requests!Tell
<1>4. CommandInv'
  BY <1>3 DEF CommandInv, Commands, UnderWay, Requests!NoCommand
<1> QED
  BY <1>2, <1>4

\* The inductive invariants: what the client has of the list that its tag names, and where the command's
\* one request is.
THEOREM RequestsInvariance == ASSUME DirectivesBounded PROVE Requests!Spec => [](ListInv /\ CommandInv)
<1>1. Requests!Init => ListInv /\ CommandInv
  BY NothingAsked
<1>2. ListInv /\ CommandInv /\ [Requests!Next]_(Requests!vars) => (ListInv /\ CommandInv)'
  <2> SUFFICES ASSUME ListInv, CommandInv, [Requests!Next]_(Requests!vars) PROVE ListInv' /\ CommandInv'
    OBVIOUS
  <2>0. UNCHANGED Requests!cli => CommandInv'
    BY DEF Requests!cli, CommandInv, Commands, UnderWay
  <2>1. UNCHANGED Requests!rows /\ UNCHANGED Requests!client => ListInv'
    BY DEF Requests!rows, Requests!client, ListInv, Times, Current, Requests!Listed
  <2>2. CASE \/ Requests!Aggregate \/ Requests!AggregationEnds
             \/ \E d \in Ids : Requests!Judge(d) \/ Requests!Reword(d)
    BY <2>0, <2>2, AggregationStep
  <2>3. CASE Requests!Poll \/ Requests!List
    BY <2>0, <2>3, ClientStep
  <2>4. CASE \/ Requests!Run \/ Requests!NoServer \/ Requests!Ask \/ Requests!AskTimesOut \/ Requests!Look
             \/ Requests!Refuse
    BY <2>1, <2>4, CommandStep
  <2>5. CASE Requests!Patch \/ Requests!Set
    BY <2>5, PatchStep, SetStep
  <2>6. CASE UNCHANGED Requests!vars
    BY <2>0, <2>1, <2>6 DEF Requests!vars, Requests!rows, Requests!client, Requests!cli
  <2> QED
    BY <2>2, <2>3, <2>4, <2>5, <2>6 DEF Requests!Next
<1> QED
  BY <1>1, <1>2, PTL DEF Requests!Spec

\* A poll answered "not modified" hides a change only of a row an aggregation stamped with an earlier
\* time, or of a list that was read after it: an equal tag names as many rows, none of them later.
THEOREM PollsNotModified == ASSUME DirectivesBounded PROVE Requests!Spec => []NotModified
<1>1. ListInv => NotModified
  <2> SUFFICES ASSUME ListInv, etag # Requests!NoTag, Requests!Tag = etag, ~torn,
                      \A d \in Requests!Listed : ~(updated[d] < written[d])
               PROVE  kept = Requests!Listing
    BY DEF NotModified, Requests!NotModified
  <2>1. Requests!Listed # {}
    BY Tagged DEF ListInv
  <2>2. \A d \in Requests!Listed : <<d, written[d]>> \in kept
    <3> SUFFICES ASSUME NEW d \in Requests!Listed PROVE <<d, written[d]>> \in kept
      OBVIOUS
    <3>1. updated[d] <= etag[1]
      BY <2>1, Tagged DEF ListInv
    <3>2. d \in Ids /\ written[d] \in Nat /\ updated[d] \in Nat /\ etag[1] \in Nat /\ written[d] <= updated[d]
      BY DEF ListInv, Times, Requests!Listed, DirectivesBounded
    <3>3. ~(written[d] > etag[1])
      BY <3>1, <3>2
    <3> QED
      BY <3>3 DEF ListInv, Current
  <2>3. Requests!Listing \subseteq kept
    BY <2>2 DEF Requests!Listing
  <2>4. IsFiniteSet(kept) /\ Cardinality(kept) = Cardinality(Requests!Listing)
    BY <2>1, Tagged, ListingCounts DEF ListInv, Current
  <2> QED
    BY <2>3, <2>4, FS_Subset
<1> QED
  BY <1>1, RequestsInvariance, PTL

\* Whether the server answers, refuses, is late or is not there, a command is carried out at most once, and
\* one that says it has changed the directive was carried out.
THEOREM CommandsHandledOnce == ASSUME DirectivesBounded PROVE Requests!Spec => []HandledOnce
<1>1. CommandInv => HandledOnce
  BY DEF CommandInv, Commands, UnderWay, HandledOnce, Requests!HandledOnce
<1> QED
  BY <1>1, RequestsInvariance, PTL

-----------------------------------------------------------------------------
(* The components side by side.  What is proved of each by itself holds of  *)
(* the composition, which takes its steps or leaves its variables alone.    *)

Routing == INSTANCE LLMRouter_proofs
Dispatching == INSTANCE CLIAgent_proofs WITH user <- program, prompts <- asked, told <- result
Purging == INSTANCE Retention_proofs
Caching == INSTANCE LazyCache_proofs

\* The constants are as each component takes them.
LEMMA Assumed ==
  /\ Routing!Bounds /\ Prompts > 0 /\ Dispatching!Bounds /\ Purging!Apart /\ Caching!Apart
  /\ StartsBounded /\ EditsBounded /\ DirectivesBounded
  BY ComponentsAssumption DEF Routing!Bounds, Dispatching!Bounds, Purging!Apart, Purging!NoSession, Caching!Apart,
       StartsBounded, EditsBounded, DirectivesBounded

\* The composition implements the router.
LEMMA RouterWithin == Spec => Routing!Spec
<1>1. Init => Routing!Init
  BY DEF Init, Router!Init, Router!NoError, Router!NotTold, Routing!Init, Routing!NoError, Routing!NotTold
<1>2. Router!Next => Routing!Next
  BY DEF Router!Next, Router!Construct, Router!FactoryFails, Router!AttemptFails, Router!AttemptTimesOut,
         Router!AttemptSucceeds, Router!DispatcherBegins, Router!AgentBegins, Router!Providers, Router!Raise,
         Router!Asked, Router!Errors, Router!Limit, Router!Classify, Router!AttemptClass, Router!NextModel,
         Router!NoError, Router!StartChain, Router!EndChain, Router!NotTold, Router!Names, Router!Begin,
         Router!SelectModel, Router!ShouldRetry, Router!Fails, Router!Budget, Router!AuthSigns,
         Router!TimeoutSigns, Router!RateSigns, Router!Constructs, Router!NoRouter, Router!RetryMode,
         Router!Reason, Router!Repairable, Router!Transport,
         Routing!Next, Routing!Construct, Routing!FactoryFails, Routing!AttemptFails, Routing!AttemptTimesOut,
         Routing!AttemptSucceeds, Routing!DispatcherBegins, Routing!AgentBegins, Routing!Providers, Routing!Raise,
         Routing!Asked, Routing!Errors, Routing!Limit, Routing!Classify, Routing!AttemptClass, Routing!NextModel,
         Routing!NoError, Routing!StartChain, Routing!EndChain, Routing!NotTold, Routing!Names, Routing!Begin,
         Routing!SelectModel, Routing!ShouldRetry, Routing!Fails, Routing!Budget, Routing!AuthSigns,
         Routing!TimeoutSigns, Routing!RateSigns, Routing!Constructs, Routing!NoRouter, Routing!RetryMode,
         Routing!Reason, Routing!Repairable, Routing!Transport
<1>3. [Next]_vars => [Routing!Next]_(Routing!vars)
  BY <1>2 DEF Next, vars, router, Routing!vars
<1> QED
  BY <1>1, <1>3, PTL DEF Spec, Routing!Spec

\* The composition implements an agent's program, but for the fairness of its dispatcher.
LEMMA ProgramWithin == Spec => Dispatching!Init /\ [][Dispatching!Next]_(Dispatching!vars)
<1>1. Init => Dispatching!Init
  BY DEF Init, CLI!Init, CLI!Nothing, CLI!NotTold, Dispatching!Init, Dispatching!Nothing, Dispatching!NotTold
<1>2. CLI!Next => Dispatching!Next
  BY DEF CLI!Next, CLI!Begin, CLI!Spawn, CLI!SpawnFails, CLI!Collect, CLI!TimesOut, CLI!GraceEnds,
         CLI!CollectLate, CLI!ProgramEnds, CLI!HelperEnds, CLI!Adapters, CLI!ResolveAgent, CLI!NotTold,
         CLI!Nothing, CLI!Return, CLI!Cleanup, CLI!Communicated, CLI!Judge, CLI!Kill, CLI!Outcomes,
         CLI!AgentAnswer, CLI!Claims, CLI!Claimed, CLI!Failed, CLI!Class, CLI!Accept, CLI!Again,
         CLI!ShouldRetry, CLI!Reason, CLI!ExitClass, CLI!RetryMode, CLI!AuthSigns, CLI!RateSigns,
         CLI!Repairable, CLI!Transport, Dispatching!Next, Dispatching!Begin, Dispatching!Spawn,
         Dispatching!SpawnFails, Dispatching!Collect, Dispatching!TimesOut, Dispatching!GraceEnds,
         Dispatching!CollectLate, Dispatching!ProgramEnds, Dispatching!HelperEnds, Dispatching!Adapters,
         Dispatching!ResolveAgent, Dispatching!NotTold, Dispatching!Nothing, Dispatching!Return,
         Dispatching!Cleanup, Dispatching!Communicated, Dispatching!Judge, Dispatching!Kill,
         Dispatching!Outcomes, Dispatching!AgentAnswer, Dispatching!Claims, Dispatching!Claimed,
         Dispatching!Failed, Dispatching!Class, Dispatching!Accept, Dispatching!Again,
         Dispatching!ShouldRetry, Dispatching!Reason, Dispatching!ExitClass, Dispatching!RetryMode,
         Dispatching!AuthSigns, Dispatching!RateSigns, Dispatching!Repairable, Dispatching!Transport
<1>3. [Next]_vars => [Dispatching!Next]_(Dispatching!vars)
  BY <1>2 DEF Next, vars, cli, Dispatching!vars
<1> QED
  BY <1>1, <1>3, PTL DEF Spec

\* The composition implements the retention.
LEMMA RetentionWithin == Spec => Purging!Spec
<1>1. Init => Purging!Init
  BY DEF Init, Purge!Init, Purge!NoSession, Purge!NoJob, Purging!Init, Purging!NoSession, Purging!NoJob
<1>2. Purge!Next => Purging!Next
  BY DEF Purge!Next, Purge!Enumerate, Purge!PurgeRows, Purge!TracesDone, Purge!PurgeReport,
         Purge!CommandEnds, Purge!WriteFlags, Purge!WriteReport, Purge!PurgeAfter, Purge!PurgeAfterRows,
         Purge!JobEnds, Purge!WriteTrace, Purge!WriteRow, Purge!PurgeTraces, Purge!PurgeFlags, Purge!Load,
         Purge!Expired, Purge!Outdated, Purge!store, Purge!ingest, Purge!analysis, Purge!NoSession,
         Purge!PurgeSecond, Purge!command, Purge!NoJob, Purge!PurgeFirst, Purge!InHand, Purge!FlagsGo,
         Purge!FirstStore, Purge!Delete, Purging!Next, Purging!Enumerate, Purging!PurgeRows,
         Purging!TracesDone, Purging!PurgeReport, Purging!CommandEnds, Purging!WriteFlags,
         Purging!WriteReport, Purging!PurgeAfter, Purging!PurgeAfterRows, Purging!JobEnds,
         Purging!WriteTrace, Purging!WriteRow, Purging!PurgeTraces, Purging!PurgeFlags, Purging!Load,
         Purging!Expired, Purging!Outdated, Purging!store, Purging!ingest, Purging!analysis,
         Purging!NoSession, Purging!PurgeSecond, Purging!command, Purging!NoJob, Purging!PurgeFirst,
         Purging!InHand, Purging!FlagsGo, Purging!FirstStore, Purging!Delete
<1>3. [Next]_vars => [Purging!Next]_(Purging!vars)
  BY <1>2 DEF Next, vars, purge, Purging!vars
<1> QED
  BY <1>1, <1>3, PTL DEF Spec, Purging!Spec

\* The composition implements the cache.
LEMMA CacheWithin == Spec => Caching!Spec
<1>1. Init => Caching!Init
  BY DEF Init, Cache!Init, Caching!Init
<1>2. Cache!Next => Caching!Next
  BY DEF Cache!Next, Cache!Wake, Cache!BuildEnds, Cache!BuildFails, Cache!Invalidate, Cache!Close,
         Cache!Get, Cache!FoundAgain, Cache!Waiters, Cache!Refused, Caching!Next, Caching!Wake,
         Caching!BuildEnds, Caching!BuildFails, Caching!Invalidate, Caching!Close, Caching!Get,
         Caching!FoundAgain, Caching!Waiters, Caching!Refused
<1>3. [Next]_vars => [Caching!Next]_(Caching!vars)
  BY <1>2 DEF Next, vars, cache, Caching!vars
<1> QED
  BY <1>1, <1>3, PTL DEF Spec, Caching!Spec

\* The composition implements the daemon.
LEMMA DaemonWithin == Spec => Background!Spec
<1>1. Init => Background!Init
  BY DEF Init
<1>2. [Next]_vars => [Background!Next]_(Background!vars)
  BY DEF Next, vars, daemon, Background!vars
<1> QED
  BY <1>1, <1>2, PTL DEF Spec, Background!Spec

\* The composition implements the configuration.
LEMMA ConfigWithin == Spec => Config!Spec
<1>1. Init => Config!Init
  BY DEF Init
<1>2. [Next]_vars => [Config!Next]_(Config!vars)
  BY DEF Next, vars, config, Config!vars
<1> QED
  BY <1>1, <1>2, PTL DEF Spec, Config!Spec

\* The composition implements the requests about directives.
LEMMA RequestsWithin == Spec => Requests!Spec
<1>1. Init => Requests!Init
  BY DEF Init
<1>2. [Next]_vars => [Requests!Next]_(Requests!vars)
  BY DEF Next, vars, requests, Requests!vars
<1> QED
  BY <1>1, <1>2, PTL DEF Spec, Requests!Spec

\* Side by side, the variables of every component have their types.
THEOREM TypesCorrect == Spec => []TypeOK
<1>1. Spec => []Router!TypeOK
  <2>1. Routing!TypeOK => Router!TypeOK
    BY DEF Routing!TypeOK, Router!TypeOK, Routing!Names, Router!Names, Routing!Providers, Router!Providers
  <2>2. Routing!Spec => []Routing!TypeOK
    BY Assumed, Routing!TypeCorrect
  <2> QED
    BY <2>1, <2>2, RouterWithin, PTL
<1>2. Spec => []CLI!TypeOK
  <2>1. Dispatching!IInv => CLI!TypeOK
    BY DEF Dispatching!IInv, Dispatching!TypeOK, CLI!TypeOK, Dispatching!Outcomes, CLI!Outcomes,
           Dispatching!Claims, CLI!Claims, Dispatching!Nothing, CLI!Nothing
  <2>2. Dispatching!Init /\ [][Dispatching!Next]_(Dispatching!vars) => []Dispatching!IInv
    BY Assumed, Dispatching!SafelyDispatched
  <2> QED
    BY <2>1, <2>2, ProgramWithin, PTL
<1>3. Spec => []Purge!TypeOK
  <2>1. Purging!IInv => Purge!TypeOK
    BY DEF Purging!IInv, Purging!TypeOK, Purge!TypeOK, Purging!NoSession, Purge!NoSession, Purging!Age,
           Purge!Age
  <2>2. Purging!Spec => []Purging!IInv
    BY Assumed, Purging!Invariance
  <2> QED
    BY <2>1, <2>2, RetentionWithin, PTL
<1>4. Spec => []Cache!TypeOK
  <2>1. Caching!IInv => Cache!TypeOK
    BY DEF Caching!IInv, Caching!TypeOK, Cache!TypeOK
  <2>2. Caching!Spec => []Caching!IInv
    BY Assumed, Caching!Invariance
  <2> QED
    BY <2>1, <2>2, CacheWithin, PTL
<1>5. Spec => []Background!TypeOK
  <2>1. DaemonInv => Background!TypeOK
    BY DEF DaemonInv
  <2>2. Background!Spec => []DaemonInv
    BY Assumed, DaemonInvariance
  <2> QED
    BY <2>1, <2>2, DaemonWithin, PTL
<1>6. Spec => []Config!TypeOK
  <2>1. ConfigInv => Config!TypeOK
    BY DEF ConfigInv, ConfigTyped
  <2>2. Config!Spec => []ConfigInv
    BY Assumed, ConfigInvariance
  <2> QED
    BY <2>1, <2>2, ConfigWithin, PTL
<1>7. Spec => []Requests!TypeOK
  <2>1. ListInv /\ CommandInv => Requests!TypeOK
    <3> SUFFICES ASSUME ListInv, CommandInv PROVE Requests!TypeOK
      OBVIOUS
    <3>1. clock \in Nat /\ began \in 0..MaxClock
      BY Assumed DEF ListInv, Times, DirectivesBounded
    <3>2. command.at \in {"idle", "ask", "wait", "look", "write"}
      BY DEF CommandInv, Commands, Requests!NoCommand
    <3> QED
      BY <3>1, <3>2 DEF ListInv, Times, CommandInv, Commands, Requests!TypeOK
  <2>2. Requests!Spec => [](ListInv /\ CommandInv)
    BY Assumed, RequestsInvariance
  <2> QED
    BY <2>1, <2>2, RequestsWithin, PTL
<1> QED
  BY <1>1, <1>2, <1>3, <1>4, <1>5, <1>6, <1>7, PTL DEF TypeOK

\* Side by side, the components keep every promise that is checked of them, but that an analysis ends.
THEOREM PromisesKept ==
  Spec => /\ [](WithinBudget /\ NothingLeft)
          /\ [](FilesStayFindable /\ FlagsStayFindable /\ UnreadOnlyIfLate)
          /\ [](OneValue /\ LittleLeftOpen /\ StrangersSafe /\ DaemonFindable)
          /\ [](ShownIsLoaded /\ CheckedServerAnalyzes /\ NotModified /\ HandledOnce)
          /\ NoCostLeak /\ RepairsOnlyAnswers /\ OnlyAnswersRepaired
<1>1. Spec => []WithinBudget /\ NoCostLeak /\ RepairsOnlyAnswers
  <2>1. Routing!WithinBudget => WithinBudget
    BY DEF Routing!WithinBudget, WithinBudget, Routing!Budget, Budget
  <2>2. Routing!NoCostLeak => NoCostLeak
    BY DEF Routing!NoCostLeak, NoCostLeak
  <2>3. Routing!RepairsOnlyAnswers => RepairsOnlyAnswers
    BY DEF Routing!RepairsOnlyAnswers, RepairsOnlyAnswers, Routing!NotTold, NotTold
  <2> QED
    BY <2>1, <2>2, <2>3, Assumed, RouterWithin, Routing!ChainTime, Routing!AnswersEndChains,
       Routing!BoundedRepairs, PTL
<1>2. Spec => []NothingLeft /\ OnlyAnswersRepaired
  <2>1. Dispatching!IInv => NothingLeft
    BY DEF Dispatching!IInv, Dispatching!NothingLeft, NothingLeft
  <2>2. Dispatching!OnlyAnswersRepaired => OnlyAnswersRepaired
    BY DEF Dispatching!OnlyAnswersRepaired, OnlyAnswersRepaired
  <2> QED
    BY <2>1, <2>2, Assumed, ProgramWithin, Dispatching!SafelyDispatched, Dispatching!SafelyRepaired, PTL
<1>3. Spec => [](FilesStayFindable /\ FlagsStayFindable /\ UnreadOnlyIfLate)
  <2>1. Purging!FilesStayFindable /\ Purging!FlagsStayFindable /\ Purging!UnreadOnlyIfLate
          => FilesStayFindable /\ FlagsStayFindable /\ UnreadOnlyIfLate
    BY DEF Purging!FilesStayFindable, Purging!FlagsStayFindable, Purging!UnreadOnlyIfLate,
           FilesStayFindable, FlagsStayFindable, UnreadOnlyIfLate
  <2> QED
    BY <2>1, Assumed, RetentionWithin, Purging!Files, Purging!Flags, Purging!Unread, PTL
<1>4. Spec => [](OneValue /\ LittleLeftOpen)
  <2>1. Caching!OneValue /\ Caching!LittleLeftOpen => OneValue /\ LittleLeftOpen
    BY DEF Caching!OneValue, Caching!LittleLeftOpen, OneValue, LittleLeftOpen
  <2> QED
    BY <2>1, Assumed, CacheWithin, Caching!Sharing, Caching!Disposal, PTL
<1>5. Spec => [](StrangersSafe /\ DaemonFindable)
  BY Assumed, DaemonWithin, Strangers, Findable, PTL
<1>6. Spec => [](ShownIsLoaded /\ CheckedServerAnalyzes)
  BY Assumed, ConfigWithin, ShownAsLoaded, CheckedAnalyzes, PTL
<1>7. Spec => [](NotModified /\ HandledOnce)
  BY Assumed, RequestsWithin, PollsNotModified, CommandsHandledOnce, PTL
<1> QED
  BY <1>1, <1>2, <1>3, <1>4, <1>5, <1>6, <1>7, PTL
==================================================================================
