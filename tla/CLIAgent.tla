------------------------------- MODULE CLIAgent -------------------------------
(***************************************************************************)
(* A model behind a coding agent's program, run once per attempt: the      *)
(* dispatcher of a whole session (analysis/cli_dispatcher.py) and the      *)
(* agent that asks one prompt after another (analysis/cli_agent.py).  The  *)
(* program and the processes it leaves behind are external.                *)
(***************************************************************************)
EXTENDS OutputRecovery, AgentPromises

CONSTANTS Repairs, Prompts  \* as in LLMRouter

\* The others are those of AgentPromises.
VARIABLES user,      \* who runs the program: "none", "dispatcher", "agent"
          agent,     \* the program
          prompts,   \* prompts still to answer
          helper,    \* a process it started holds its pipes open
          told       \* what the user returned

vars == <<user, agent, run, prompts, phase, child, helper, ended, tmp, told>>

Adapters == {"claude_code", "codex"}
NotTold == [status |-> "none", reason |-> "none", retries |-> 0]

\* An answer that satisfies the schema carries a status of its own, which is taken as the run's; a
\* failure it claims may ask for a repair.
Claims == {"success", "unknown", "failure", "failure_repair"}
Outcomes == [exit : {1}, answer : {"auth", "rate_limit", "other"}]
                \union [exit : {0}, answer : Claims \union {"invalid", "empty", "no_file"}]
Nothing == [exit |-> 0, answer |-> "none"]

Init ==
    /\ user = "none" /\ agent = "none" /\ run = 0 /\ prompts = 0
    /\ phase = "idle" /\ child = "none" /\ helper = FALSE /\ ended = Nothing /\ tmp = FALSE
    /\ told = NotTold

\* "auto" is the agent the installation was made for, if its state is there.
ResolveAgent(default, init) == IF default = "auto" THEN init ELSE default

\* An unknown agent, opencode, or no state for "auto": nothing is run.
Begin ==
    /\ user = "none"
    /\ user' \in {"dispatcher", "agent"}
    /\ \E default \in Adapters \union {"auto", "opencode", "other"}, init \in Adapters \union {"opencode", "none"} :
        agent' = ResolveAgent(default, init)
    /\ IF agent' \in Adapters
       THEN phase' = "spawn" /\ run' = 1 /\ UNCHANGED told
       ELSE told' = [NotTold EXCEPT !.status = "failure", !.reason = "fatal_execution_error"]
            /\ UNCHANGED <<phase, run>>
    /\ \E p \in 1..Prompts : prompts' = IF user' = "agent" THEN p ELSE 1
    /\ UNCHANGED <<child, helper, ended, tmp>>

-------------------------------------------------------------------------------
\* Mutant: only a run that ended well removes its directory.
CleanupOnSuccess == tmp' = (tmp /\ ended.exit /= 0)

Cleanup == tmp' = FALSE

Return(status, reason, retries) ==
    /\ told' = [status |-> status, reason |-> reason, retries |-> retries]
    /\ phase' = "idle" /\ UNCHANGED <<run, prompts>>

Again == run' = run + 1 /\ phase' = "spawn" /\ UNCHANGED <<prompts, told>>

\* The dispatcher's loop after a failed run.
Failed(class) ==
    IF user = "dispatcher" /\ ShouldRetry(class, run, Repairs + 1) THEN Again
    ELSE Return("failure", IF user = "dispatcher" THEN Reason(class, run, Repairs + 1) ELSE class, run - 1)

\* A class no evidence of which allows a repair, the bad answers, and the file that is not there.
Class ==
    IF ended.exit /= 0 THEN ExitClass(ended.answer)
    ELSE IF ended.answer = "no_file" THEN "fatal_execution_error" ELSE "invalid_output"

Accept ==
    IF prompts > 1
    THEN prompts' = prompts - 1 /\ run' = 1 /\ phase' = "spawn" /\ UNCHANGED told
    ELSE Return("success", "none", run - 1)

\* A claimed failure that asks for a repair is repaired; after the last attempt the loop is left.
Claimed ==
    IF ended.answer = "success" THEN Accept
    ELSE IF ended.answer = "failure_repair"
    THEN IF run <= Repairs THEN Again ELSE Return("failure", "fatal_execution_error", 0)
    ELSE Return(ended.answer, "claimed", 0)

\* The agent asks for its own schema, which has no status, and repairs what does not fit it.
AgentAnswer ==
    IF ended.exit /= 0 \/ ended.answer = "no_file" THEN Failed(Class)
    ELSE IF ended.answer \in Claims THEN Accept
    ELSE IF run <= Repairs THEN Again ELSE Failed("invalid_output")

Judge ==
    IF user = "agent" THEN AgentAnswer
    ELSE IF ended.exit = 0 /\ ended.answer \in Claims THEN Claimed ELSE Failed(Class)

-------------------------------------------------------------------------------
\* The file's directory is made first, for the adapter that writes a file.
Spawn ==
    /\ phase = "spawn"
    /\ phase' = "running" /\ child' = "running" /\ tmp' = (agent = "codex")
    /\ ended' = Nothing
    /\ UNCHANGED <<user, agent, run, prompts, helper, told>>

SpawnFails ==
    /\ phase = "spawn"
    /\ Return("failure", "fatal_execution_error", run - 1) /\ Cleanup
    /\ UNCHANGED <<user, agent, child, helper, ended>>

\* communicate() returns when the program has ended and nobody holds its pipes.
Communicated == child = "exited" /\ ~helper

Collect ==
    /\ phase = "running" /\ Communicated
    /\ Judge /\ Cleanup
    /\ child' = "none"
    /\ UNCHANGED <<user, agent, helper, ended>>

\* timeout_seconds have passed: SIGTERM.
TimesOut ==
    /\ phase = "running" /\ ~Communicated
    /\ phase' = "grace"
    /\ UNCHANGED <<user, agent, run, prompts, child, helper, ended, tmp, told>>

\* Mutant: the second signal is not sent.
KillNever == UNCHANGED <<child, helper>>

\* SIGKILL: the program ends if it had not, a process of its own may stay behind.
Kill == child' = "exited" /\ helper' \in {helper, helper \/ child = "running"}

GraceEnds ==
    /\ phase = "grace" /\ ~Communicated
    /\ phase' = "killed" /\ Kill
    /\ UNCHANGED <<user, agent, run, prompts, ended, tmp, told>>

\* A run out of time is not repeated; its outcome is not known.
CollectLate ==
    /\ phase \in {"grace", "killed"} /\ Communicated
    /\ Return(IF user = "dispatcher" THEN "unknown" ELSE "failure", "transport_timeout", 0) /\ Cleanup
    /\ child' = "none"
    /\ UNCHANGED <<user, agent, helper, ended>>

\* The program ends, by itself or at SIGTERM, with or without a process of its own left behind.
ProgramEnds ==
    /\ child = "running"
    /\ child' = "exited" /\ helper' \in BOOLEAN
    /\ ended' \in {o \in Outcomes : o.answer = "no_file" => agent = "codex"}
    /\ UNCHANGED <<user, agent, run, prompts, phase, tmp, told>>

HelperEnds == helper /\ helper' = FALSE
              /\ UNCHANGED <<user, agent, run, prompts, phase, child, ended, tmp, told>>

Next == Begin \/ Spawn \/ SpawnFails \/ Collect \/ TimesOut \/ GraceEnds \/ CollectLate
            \/ ProgramEnds \/ HelperEnds

\* The event loop runs what is due, and its timers fire; a program need not end, nor a helper.
Dispatches == Spawn \/ SpawnFails \/ Collect \/ TimesOut \/ GraceEnds \/ CollectLate

Spec == Init /\ [][Next]_vars /\ WF_vars(Dispatches)

-------------------------------------------------------------------------------
TypeOK ==
    /\ user \in {"none", "dispatcher", "agent"} /\ run \in 0..(Repairs + 1) /\ prompts \in 0..Prompts
    /\ phase \in {"idle", "spawn", "running", "grace", "killed"}
    /\ child \in {"none", "running", "exited"} /\ helper \in BOOLEAN /\ tmp \in BOOLEAN
    /\ ended \in Outcomes \union {Nothing}
    /\ told.status \in {"none", "success", "failure", "unknown"} /\ told.retries \in 0..Repairs

\* An analysis ends however long the program runs and whatever signals it ignores, unless a process it
\* left behind holds its pipes for good.
AnalysisEnds == []<>~helper => (user /= "none" ~> told.status /= "none")
===============================================================================
