---------------------------- MODULE AgentPromises -----------------------------
(***************************************************************************)
(* What CLIAgent promises of the program it runs, and of running it again. *)
(***************************************************************************)
EXTENDS Naturals

VARIABLES run,       \* the run of the program for this prompt, from 1
          phase,     \* "idle", "spawn", "running", "grace" (after SIGTERM), "killed" (after SIGKILL)
          child,     \* the program: "none", "running", "exited"
          ended,     \* what it ended with
          tmp        \* the directory of its answer's file exists

\* Whatever a run ended with, once the user has returned, and before the program is run again, the
\* program is gone and so is its directory.
NothingLeft == phase \in {"idle", "spawn"} => child = "none" /\ ~tmp

\* The program is run again for a prompt only because its answer was bad or asked for it; a limit, an
\* error of the program and a timeout are never repeated.
OnlyAnswersRepaired ==
    [][run' = run + 1 /\ run > 0 =>
        ended.exit = 0 /\ ended.answer \in {"invalid", "empty", "failure_repair"}]_<<run, ended>>
===============================================================================
