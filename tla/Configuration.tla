----------------------------- MODULE Configuration -----------------------------
(***************************************************************************)
(* The configuration: how a setting of two files is resolved (config/      *)
(* loader.py, storage/retention.py) and shown (cli/config_cmd.py), the     *)
(* check before the server starts (config/precheck.py, cli/serve.py), and  *)
(* what the running server keeps of the files it read (analysis/           *)
(* runtime.py) while they are edited.                                      *)
(***************************************************************************)
EXTENDS Naturals

CONSTANT MaxEdits  \* bound on the edits of the files

VARIABLES disk,     \* what is on disk: the settings below, state.json, the programs on PATH
          edits,    \* edits so far
          server,   \* "down", "up"
          changed,  \* the disk has changed since the server started
          runtime,  \* the project's runtime: "none", "failed", or what it has read
          sdk,      \* the runtime keeps an agent of the SDK
          told      \* what the last analysis ended with: "none", "asked", "refused"

vars == <<disk, edits, server, changed, runtime, sdk, told>>

\* A setting in a file: not there, "", a ${VARIABLE} (which expands to a string), a variable that is not
\* set, of a wrong type, zero or false, or a proper one.
Settings == {"absent", "blank", "variable", "unset", "wrong", "low", "high"}
Layers == {"project", "global"}
\* Numbers of days and budgets must be positive, switches are Booleans, the numbers of
\* directive_lifecycle are anything; those of the repairs of an answer count in the global file only.
Kinds == {"positive", "switch", "number", "repairs"}
Modes == {"cli", "sdk"}
\* The agent of the [cli] section: "absent" without the section, "auto" also for a section that names
\* none; "other" is a name that is not known.  The legacy key is default_agent of [analysis] itself.
AgentSettings == {"absent", "auto", "codex", "opencode", "other"}
LegacySettings == {"absent", "auto", "claude_code", "codex", "other"}
\* What has a key.  "custom" serves no model.
Providers == {"anthropic", "openai", "custom"}
\* Models are named for the provider their prefix tells; there is no key for "google", and "odd" tells none.
Models == {"none", "anthropic", "openai", "google", "odd"}

\* [primary]: [analysis.sdk].primary_model is not empty.  [model]: the project's model.  [agentModel]:
\* that of [analysis.models] for the agent in question.  [oddFallback]: one of the fallbacks is odd.
\* [readFile]: [analysis.read_project_file] of the project is well-formed, which the loader ignores.
Attributes ==
    [kind : Kinds, project : Settings, global : Settings, mode : Modes \union {"other"},
     agent : AgentSettings, legacy : LegacySettings, primary : BOOLEAN, model : Models, agentModel : Models,
     oddFallback : BOOLEAN, readFile : BOOLEAN, keys : SUBSET Providers,
     init : {"none", "codex", "opencode"}, program : BOOLEAN]

\* Files of a user who has set nothing but the mode and what it needs.
Fresh(mode) ==
    [kind |-> "switch", project |-> "absent", global |-> "absent", mode |-> mode, agent |-> "absent",
     legacy |-> "absent", primary |-> mode = "sdk", model |-> "none", agentModel |-> "none", oddFallback |-> FALSE,
     readFile |-> TRUE, keys |-> IF mode = "sdk" THEN {"anthropic"} ELSE {}, init |-> "codex", program |-> TRUE]

NotBuilt == [state |-> "none", mode |-> "none", agent |-> "none", init |-> "none"]

Init ==
    /\ disk \in {Fresh(mode) : mode \in Modes}
    /\ edits = 0 /\ server = "down" /\ changed = FALSE /\ runtime = NotBuilt /\ sdk = FALSE /\ told = "none"

-------------------------------------------------------------------------------
\* The layer a setting is taken from, "error", or "builtin".
From(f, skipped) ==
    IF f.project \notin skipped THEN "project"
    ELSE IF f.global \notin skipped THEN "global" ELSE "builtin"

Allowed(f) ==
    IF f.kind = "positive" THEN {"high"} ELSE {"low", "high"}

GlobalOnly(f) == [f EXCEPT !.project = "absent"]

\* A present setting counts, but for the numbers a blank one does not.
Resolve(f) ==
    LET layer == From(IF f.kind = "repairs" THEN GlobalOnly(f) ELSE f,
                      IF f.kind = "number" THEN {"absent", "blank"} ELSE {"absent"}) IN
    IF layer \in Layers /\ f[layer] \notin Allowed(f) THEN "error" ELSE layer

\* A variable that is not set, wherever it is, makes its file unreadable.
Unreadable(f, layers) == \E layer \in layers : f[layer] = "unset"

Build(f) == IF f.mode \notin Modes THEN "error" ELSE Resolve(f)

Load(f) == IF Unreadable(f, Layers) THEN "error" ELSE Build(f)

LoadGlobal(f) == IF Unreadable(f, {"global"}) THEN "error" ELSE Build(GlobalOnly(f))

\* Mutant: a setting that is false or zero is taken for one that is not there.
ShowTruthy(f) == IF Unreadable(f, Layers) THEN "error" ELSE From(f, {"absent", "blank", "low"})

\* `config show` resolves the settings of [retention] by itself, ...
Show(f) == IF Unreadable(f, Layers) THEN "error" ELSE From(f, {"absent"})

\* ... and says where a value is from by another rule, variables first.
Label(f) ==
    IF \E layer \in Layers : f[layer] = "variable" THEN "interpolation" ELSE From(f, {"absent", "blank"})

\* `config validate` looks at the type of the numbers it would show, not at their range.
Validates(f) ==
    LET layer == Show(f) IN
    layer /= "error" /\ (f.kind = "positive" /\ layer \in Layers => f[layer] \in {"low", "high"})

\* The agent's setting: the legacy key without a [cli] section is ignored, but for the built-in.
DefaultAgent(d) ==
    IF d.agent /= "absent" THEN d.agent ELSE IF d.legacy /= "absent" THEN "claude_code" ELSE "auto"

\* The SDK's agent has a setting of its own: the legacy key, ignored unless there is a [cli] section.
ModelAgent(d) == IF d.legacy /= "absent" /\ d.agent /= "absent" THEN d.legacy ELSE "claude_code"

\* The project's model, else the agent's, else the built-in one, which only claude_code has.  No event
\* tells the agent of its session, so "auto" finds none.
Selected(d) ==
    CASE d.model /= "none" -> d.model
      [] d.model = "none" /\ ModelAgent(d) \notin {"claude_code", "codex"} -> "none"
      [] d.model = "none" /\ ModelAgent(d) = "claude_code" /\ d.agentModel = "none" -> "anthropic"
      [] OTHER -> d.agentModel

\* The SDK's agent can be built of files that load.
Buildable(d) == d.readFile /\ ~d.oddFallback /\ Selected(d) \in d.keys

Effective(default, init) == IF default = "auto" THEN init ELSE default

Supported == {"claude_code", "codex"}

\* Mutant: an agent the dispatcher does not support passes the check.
CheckCliAny(d) == Effective(DefaultAgent(d), d.init) /= "none"

\* A state.json that cannot be read counts as none.
CheckCli(d) == Effective(DefaultAgent(d), d.init) \in Supported /\ d.program

\* Any provider's key passes; the primary model is not the one that is selected later.
CheckSdk(d) == d.primary /\ d.keys /= {}

Precheck(d) == IF d.mode = "cli" THEN CheckCli(d) ELSE CheckSdk(d)

-------------------------------------------------------------------------------
Edit ==
    /\ edits < MaxEdits /\ edits' = edits + 1
    /\ \/ \E k \in Kinds : disk' = [disk EXCEPT !.kind = k]
       \/ \E s \in Settings : disk' \in {[disk EXCEPT !.project = s], [disk EXCEPT !.global = s]}
       \/ \E m \in Modes \union {"other"} : disk' = [disk EXCEPT !.mode = m]
       \/ \E a \in AgentSettings : disk' = [disk EXCEPT !.agent = a]
       \/ \E a \in LegacySettings : disk' = [disk EXCEPT !.legacy = a]
       \/ disk' \in {[disk EXCEPT !.primary = ~@], [disk EXCEPT !.oddFallback = ~@],
                     [disk EXCEPT !.readFile = ~@], [disk EXCEPT !.program = ~@]}
       \/ \E m \in Models : disk' \in {[disk EXCEPT !.model = m], [disk EXCEPT !.agentModel = m]}
       \/ \E k \in SUBSET Providers : disk' = [disk EXCEPT !.keys = k]
       \/ \E i \in {"none", "codex", "opencode"} : disk' = [disk EXCEPT !.init = i]
    /\ changed' = (server = "up")
    /\ UNCHANGED <<server, runtime, sdk, told>>

\* `serve`: the global file alone is loaded and checked; with an error the server does not start.
Serve ==
    /\ server = "down" /\ LoadGlobal(disk) /= "error" /\ Precheck(disk)
    /\ server' = "up" /\ changed' = FALSE
    /\ UNCHANGED <<disk, edits, runtime, sdk, told>>

Stop ==
    /\ server = "up" /\ server' = "down"
    /\ changed' = FALSE /\ runtime' = NotBuilt /\ sdk' = FALSE /\ told' = "none"
    /\ UNCHANGED <<disk, edits>>

\* The first event of a project builds its runtime from the files as they are then; one that cannot be
\* built stays so.
BuildRuntime ==
    /\ server = "up" /\ runtime = NotBuilt
    /\ runtime' = IF Load(disk) = "error" THEN [NotBuilt EXCEPT !.state = "failed"]
                  ELSE [state |-> "built", mode |-> disk.mode, agent |-> DefaultAgent(disk), init |-> disk.init]
    /\ UNCHANGED <<disk, edits, server, changed, sdk, told>>

Analyze == server = "up" /\ runtime.state = "built"

\* The agent was read with the runtime, the program is looked for now.
AskProgram ==
    /\ Analyze /\ runtime.mode = "cli"
    /\ told' = IF Effective(runtime.agent, runtime.init) \in Supported /\ disk.program
               THEN "asked" ELSE "refused"
    /\ UNCHANGED <<disk, edits, server, changed, runtime, sdk>>

\* Until it has one, an analysis with the SDK reads the files once more and keeps the agent it could build.
AskModel ==
    /\ Analyze /\ runtime.mode = "sdk"
    /\ sdk' = (sdk \/ (Load(disk) /= "error" /\ Buildable(disk)))
    /\ told' = IF sdk' THEN "asked" ELSE "refused"
    /\ UNCHANGED <<disk, edits, server, changed, runtime>>

Next == Edit \/ Serve \/ Stop \/ BuildRuntime \/ AskProgram \/ AskModel

Spec == Init /\ [][Next]_vars

-------------------------------------------------------------------------------
TypeOK ==
    /\ disk \in Attributes /\ edits \in 0..MaxEdits /\ server \in {"down", "up"} /\ changed \in BOOLEAN
    /\ runtime.state \in {"none", "failed", "built"} /\ sdk \in BOOLEAN
    /\ told \in {"none", "asked", "refused"}

\* Whatever the two files say, of a setting of [retention] that the loader takes, `config show` shows
\* the value the loader takes and, unless a variable is involved, the layer it is from, and `config
\* validate` does not reject it.
ShownIsLoaded ==
    disk.kind \in {"positive", "switch"} /\ Load(disk) /= "error" =>
        /\ Show(disk) = Load(disk) /\ Validates(disk)
        /\ disk.global /= "variable" => Label(disk) = Load(disk)

\* The check at the start, the runtime and the analyses read the files and resolve agents, models and
\* keys by code of their own.  As long as nothing on disk has changed, a server that passed the check
\* asks the agent's program in every analysis, and with the SDK a model unless it is one of the things
\* the check does not look at: the selected model, the fallbacks and [analysis.read_project_file].
CheckedServerAnalyzes ==
    told /= "none" /\ ~changed => (told = "asked" <=> runtime.mode = "cli" \/ Buildable(disk))
===============================================================================
