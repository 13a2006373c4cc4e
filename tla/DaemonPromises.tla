---------------------------- MODULE DaemonPromises ----------------------------
(***************************************************************************)
(* What Daemon promises of the processes that stop signals, and of those   *)
(* that serve.                                                             *)
(***************************************************************************)
CONSTANT Pids

VARIABLES proc,      \* [Pids -> "free", "forked", "booting", "serving"; "stranger", "namesake"]
          fore,      \* the processes that run `serve` in the foreground
          pidfile,   \* the process id in the file, or NoPid
          harmed,    \* how another program got a signal: "never", "reused", "looks", "checked"
          raced      \* what can lose a daemon has happened

\* A process that is not the server's gets a signal only if it took the id after stop had checked it,
\* or if its command line reads like a server's; never when the command line could not be read.
StrangersSafe == harmed /= "checked"

\* A daemon that serves can be found, and so stopped, through the file; only starts that overlap, a
\* start that cannot read the daemon's command line, a file that cannot be written, and a stop that
\* unlinks a newer daemon's file lose it.
DaemonFindable == \A p \in Pids \ fore : proc[p] = "serving" => pidfile = p \/ raced
===============================================================================
