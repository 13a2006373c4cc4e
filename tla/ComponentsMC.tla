----------------------------- MODULE ComponentsMC -----------------------------
(***************************************************************************)
(* The components that keep no state in common, each checked by itself in  *)
(* one run: a behaviour chooses a component and takes its steps only; the  *)
(* others stay as they begin.                                              *)
(***************************************************************************)
EXTENDS RouterPromises, AgentPromises, RetentionPromises, CachePromises, DaemonPromises, FiniteSets

CONSTANTS Prompts, MaxFallbacks, NoOne, NoPid, MaxStarts, MaxEdits, Ids, MaxClock

\* What the components take for granted of their constants.
ASSUME ComponentsAssumption ==
    /\ Timeout \in Nat \ {0} /\ Prompts \in Nat \ {0}
    /\ {Repairs, MaxFallbacks, MaxStarts, MaxEdits} \subseteq Nat /\ MaxClock \in Nat \ {0}
    /\ NoOne \notin Callers /\ Callers \cap {"nothing", "closed", "failed"} = {}
    /\ NoPid \notin Pids /\ "none" \notin Sessions /\ IsFiniteSet(Ids)

VARIABLES
    part,
    user, chain, keys, prompts, seen,
    program, agent, asked, helper, result,
    arriving, stage, expired, outdated, current, job, read,
    cached, holder, waiting,
    starting, stop, reused,
    disk, edits, server, changed, runtime, sdk, outcome,
    status, updated, written, clock, began, etag, polled, kept, torn, command, request, handled, answer

Router == INSTANCE LLMRouter
CLI == INSTANCE CLIAgent WITH user <- program, prompts <- asked, told <- result
Purge == INSTANCE Retention
Cache == INSTANCE LazyCache
Background == INSTANCE Daemon
Config == INSTANCE Configuration WITH told <- outcome
Requests == INSTANCE DirectiveRequests WITH told <- answer

router == <<user, chain, keys, attempt, prompts, idx, elapsed, seen, last, told>>
cli == <<program, agent, run, asked, phase, child, helper, ended, tmp, result>>
purge == <<files, rows, arriving, came, report, flags, stage, expired, outdated, current, job, read, analysed>>
cache == <<closed, cached, holder, waiting, got, open, broken, dropped, inside>>
daemon == <<proc, fore, pidfile, starting, stop, reused, harmed, raced>>
config == <<disk, edits, server, changed, runtime, sdk, outcome>>
requests == <<status, updated, written, clock, began, etag, polled, kept, torn, command, request, handled, answer>>
vars == <<part, router, cli, purge, cache, daemon, config, requests>>

Init ==
    /\ part \in {"router", "cli", "purge", "cache", "daemon", "config", "requests"}
    /\ Router!Init /\ CLI!Init /\ Purge!Init /\ Cache!Init /\ Background!Init /\ Config!Init /\ Requests!Init

Next ==
    /\ UNCHANGED part
    /\ IF part = "router" THEN Router!Next ELSE UNCHANGED router
    /\ IF part = "cli" THEN CLI!Next ELSE UNCHANGED cli
    /\ IF part = "purge" THEN Purge!Next ELSE UNCHANGED purge
    /\ IF part = "cache" THEN Cache!Next ELSE UNCHANGED cache
    /\ IF part = "daemon" THEN Background!Next ELSE UNCHANGED daemon
    /\ IF part = "config" THEN Config!Next ELSE UNCHANGED config
    /\ IF part = "requests" THEN Requests!Next ELSE UNCHANGED requests

\* Only the dispatcher of an agent's program has steps that must happen.
Spec == Init /\ [][Next]_vars /\ WF_cli(part = "cli" /\ CLI!Dispatches)

-------------------------------------------------------------------------------
\* The variables of every component have their types.
TypeOK ==
    /\ Router!TypeOK /\ CLI!TypeOK /\ Purge!TypeOK /\ Cache!TypeOK /\ Background!TypeOK /\ Config!TypeOK
    /\ Requests!TypeOK

\* An analysis by an agent's program ends, however long that program runs.
AnalysisEnds == CLI!AnalysisEnds

\* A retention setting is shown from the layer it is loaded from.
ShownIsLoaded == Config!ShownIsLoaded

\* A server that passed its check finds the program of every analysis while nothing on disk changes, and
\* with the SDK its model if that can be built.
CheckedServerAnalyzes == Config!CheckedServerAnalyzes

\* A poll answered "not modified" hides no change but those named there.
NotModified == Requests!NotModified

\* A command about a directive is carried out at most once.
HandledOnce == Requests!HandledOnce
===============================================================================
