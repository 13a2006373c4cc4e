--------------------------------- MODULE Daemon ---------------------------------
(***************************************************************************)
(* The background server (daemon.py) and the commands that start and stop  *)
(* it (cli/serve.py): they know it by the process id in a file only.       *)
(* Processes end and their ids are given out again at any time; the        *)
(* system's processes and the server's port are external.                  *)
(***************************************************************************)
EXTENDS DaemonPromises, Naturals

CONSTANTS NoPid,
          MaxStarts  \* bound on the starts that are under way at once

\* The others are those of DaemonPromises.
VARIABLES starting,  \* `serve --daemon` commands between their check and their fork
          stop,      \* `serve --stop`: [at : "idle", "checked", "grace"; pid]
          reused     \* the process id the stop has checked was given out again

vars == <<proc, fore, pidfile, starting, stop, reused, harmed, raced>>

\* A namesake is a program with the server's words in its command line: an editor of server.log, a
\* `serve --stop`, the server of another home.
Strangers == {"stranger", "namesake"}

Idle == [at |-> "idle", pid |-> NoPid]

Init ==
    /\ proc = [p \in Pids |-> "free"] /\ fore = {} /\ pidfile = NoPid
    /\ starting = 0 /\ stop = Idle /\ reused = FALSE /\ harmed = "never" /\ raced = FALSE

-------------------------------------------------------------------------------
\* What daemon_status tells of the process in the file.
Running(p) == p /= NoPid /\ proc[p] /= "free"

\* The command line that is read, by what it is of.  /proc or ps may fail, or ps take too long.  A
\* forked child has that of `serve --daemon` from its first instruction on.
Readings(p) == {"unread"} \union {proc[q] : q \in {p} \ {NoPid}}

\* Mutant: a process is taken for the daemon by its id.
CmdlineAny(line) == TRUE

\* Two words are looked for anywhere in the line: a namesake's has them too.
CmdlineMatch(line) == line \notin {"stranger", "unread"}

\* Mutant: the start does not look for a daemon.
AlreadyRunningNever(line) == FALSE

AlreadyRunning(line) == Running(pidfile) /\ CmdlineMatch(line)

\* `serve --daemon`: the start-up check, which may end the command, and the look at the file.
Start ==
    /\ starting < MaxStarts
    /\ \E line \in Readings(pidfile) :
         /\ ~AlreadyRunning(line)
         /\ raced' = \/ raced
                     \/ starting > 0
                     \/ \E p \in Pids \ fore : proc[p] = "forked"
                     \/ line = "unread" /\ Running(pidfile) /\ proc[pidfile] \notin Strangers
    /\ starting' = starting + 1
    /\ UNCHANGED <<proc, fore, pidfile, stop, reused, harmed>>

\* An id is given to a new process.
Spawn(p, kind) ==
    /\ proc[p] = "free" /\ proc' = [proc EXCEPT ![p] = kind]
    /\ reused' = (reused \/ p = stop.pid)

\* The command forks twice and says "Daemon started.", whether or not a second fork failed.
Fork ==
    /\ starting > 0 /\ starting' = starting - 1
    /\ \/ \E p \in Pids : Spawn(p, "forked")
       \/ UNCHANGED <<proc, reused>>
    /\ UNCHANGED <<fore, pidfile, stop, harmed, raced>>

\* The daemon writes its own id, by renaming a file over the old one; a failure is only logged.
WritePid(p) ==
    /\ proc[p] = "forked" /\ proc' = [proc EXCEPT ![p] = "booting"]
    /\ \/ pidfile' = p /\ UNCHANGED raced
       \/ raced' = TRUE /\ UNCHANGED pidfile
    /\ UNCHANGED <<fore, starting, stop, reused, harmed>>

\* `serve`, without a look at the file.
Foreground ==
    /\ \E p \in Pids : Spawn(p, "booting") /\ fore' = fore \union {p}
    /\ UNCHANGED <<pidfile, starting, stop, harmed, raced>>

End(p) == proc' = [proc EXCEPT ![p] = "free"] /\ fore' = fore \ {p}

\* The port goes to one process; another ends, and the file is left as it is.
Bind(p) ==
    /\ proc[p] = "booting"
    /\ IF \E q \in Pids : proc[q] = "serving" THEN End(p)
       ELSE proc' = [proc EXCEPT ![p] = "serving"] /\ UNCHANGED fore
    /\ UNCHANGED <<pidfile, starting, stop, reused, harmed, raced>>

\* Any process may end, by itself or at a signal; none removes the file.
Exits(p) == proc[p] /= "free" /\ End(p) /\ UNCHANGED <<pidfile, starting, stop, reused, harmed, raced>>

Stranger(p) ==
    /\ \E kind \in Strangers : Spawn(p, kind)
    /\ UNCHANGED <<fore, pidfile, starting, stop, harmed, raced>>

-------------------------------------------------------------------------------
\* `serve --stop`: nothing runs, or the command line is a stranger's or not read: no signal, and the
\* file stays.
StopChecks ==
    /\ stop = Idle /\ Running(pidfile) /\ \E line \in Readings(pidfile) : CmdlineMatch(line)
    /\ stop' = [at |-> "checked", pid |-> pidfile]
    /\ UNCHANGED <<proc, fore, pidfile, starting, reused, harmed, raced>>

\* The file goes, whatever it says by now, unless it cannot be removed.
Unlink ==
    /\ \/ pidfile' = NoPid /\ raced' = (raced \/ pidfile \notin {stop.pid, NoPid})
       \/ UNCHANGED <<pidfile, raced>>
    /\ stop' = Idle /\ reused' = FALSE

\* Who gets the signal is whoever has the id.
Hit ==
    harmed' = CASE proc[stop.pid] \notin Strangers -> harmed
                [] proc[stop.pid] \in Strangers /\ reused -> "reused"
                [] proc[stop.pid] = "namesake" /\ ~reused -> "looks"
                [] OTHER -> "checked"

SendTerm ==
    /\ stop.at = "checked" /\ proc[stop.pid] /= "free"
    /\ stop' = [stop EXCEPT !.at = "grace"] /\ Hit
    /\ UNCHANGED <<proc, fore, pidfile, starting, reused, raced>>

\* The id is free before the first signal or at a poll.
Gone ==
    /\ stop /= Idle /\ proc[stop.pid] = "free"
    /\ Unlink
    /\ UNCHANGED <<proc, fore, starting, harmed>>

\* After the grace the signal is sent without another look.
SendKill ==
    /\ stop.at = "grace"
    /\ Hit /\ End(stop.pid) /\ Unlink
    /\ UNCHANGED starting

\* The signal is not permitted, or the command is interrupted.
StopDies ==
    /\ stop /= Idle /\ stop' = Idle /\ reused' = FALSE
    /\ UNCHANGED <<proc, fore, pidfile, starting, harmed, raced>>

Next ==
    \/ Start \/ Fork \/ Foreground \/ StopChecks \/ SendTerm \/ Gone \/ SendKill \/ StopDies
    \/ \E p \in Pids : WritePid(p) \/ Bind(p) \/ Exits(p) \/ Stranger(p)

Spec == Init /\ [][Next]_vars

-------------------------------------------------------------------------------
TypeOK ==
    /\ proc \in [Pids -> {"free", "forked", "booting", "serving"} \union Strangers] /\ fore \subseteq Pids
    /\ pidfile \in Pids \union {NoPid} /\ starting \in 0..MaxStarts
    /\ stop \in [at : {"checked", "grace"}, pid : Pids] \union {Idle}
    /\ reused \in BOOLEAN /\ raced \in BOOLEAN /\ harmed \in {"never", "reused", "looks", "checked"}
===============================================================================
