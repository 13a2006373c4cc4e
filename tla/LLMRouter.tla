------------------------------ MODULE LLMRouter ------------------------------
(***************************************************************************)
(* The models behind the SDK: which one is asked (sdk/model_selection.py), *)
(* the chain that falls back from one to the next (sdk/router.py), and its *)
(* two users: the dispatcher that repairs an invalid answer                *)
(* (analysis/sdk_dispatcher.py) and the agent that asks one prompt after   *)
(* another (sdk/agent.py).                                                 *)
(***************************************************************************)
EXTENDS OutputRecovery, RouterPromises, Sequences

CONSTANTS Prompts,      \* bound on the segments of a session
          MaxFallbacks  \* bound on the models of the agent's chain after the first

\* The others are those of RouterPromises.
VARIABLES user,     \* who built the router: "none", "dispatcher", "agent"
          chain,    \* the providers of [primary] + fallbacks
          keys,     \* the providers whose key is configured
          prompts,  \* prompts still to answer
          seen      \* providers that refused the key in this chain

vars == <<user, chain, keys, attempt, prompts, idx, elapsed, seen, last, told>>

Providers == {"anthropic", "openai"}
\* A model's name stands for the provider its prefix names; two are not served.
Names == Providers \union {"google", "unknown"}
NoError == [class |-> "none", invalid |-> FALSE]

\* The errors a request ends with; [invalid] tells that a ValidationError is
\* in the chain of causes and contexts, whatever the outermost error is.
Errors ==
    [class : {"ReadTimeout", "RateLimitError", "ConnectError", "ServerError", "AuthenticationError",
              "ClientError"}, invalid : {FALSE}]
        \union [class : {"UnexpectedModelBehavior", "ConnectError"}, invalid : {TRUE}]

Init ==
    /\ user = "none" /\ chain = <<>> /\ keys = {}
    /\ attempt = 0 /\ prompts = 0 /\ idx = 0 /\ elapsed = 0 /\ seen = {}
    /\ last = NoError /\ told = NotTold

-------------------------------------------------------------------------------
\* The model of the agent's chain: the project's own; else that of the configured agent, or of the
\* latest session's with "auto"; else the adapter's default, which only claude_code has.
SelectModel(project, default, detected, configured) ==
    IF project /= "" THEN project
    ELSE LET agent == IF default = "auto" THEN detected ELSE default IN
         IF agent \notin {"claude_code", "codex"} THEN "error"
         ELSE IF configured /= "" THEN configured
         ELSE IF agent = "claude_code" THEN "anthropic" ELSE "error"

\* A name no prefix of which is known, and a primary without a key, stop the construction.
Constructs(c, k) == "unknown" \notin {c[i] : i \in DOMAIN c} /\ c[1] \in k

NoRouter ==
    /\ told' = [NotTold EXCEPT !.status = "refused"]
    /\ UNCHANGED <<chain, keys, attempt, prompts>>

Begin(who, c, k, n) ==
    /\ user' = who
    /\ IF c[1] /= "error" /\ Constructs(c, k)
       THEN chain' = c /\ keys' = k /\ attempt' = 1 /\ prompts' = n /\ UNCHANGED told
       ELSE NoRouter
    /\ idx' = IF told' = NotTold THEN 1 ELSE 0
    /\ UNCHANGED <<elapsed, seen, last>>

DispatcherBegins ==
    \E primary \in Names, fallback \in Names \union {""}, k \in SUBSET Providers :
        Begin("dispatcher", IF fallback = "" THEN <<primary>> ELSE <<primary, fallback>>, k, 1)

AgentBegins ==
    \E project, configured \in Names \union {""}, n \in 0..MaxFallbacks, k \in SUBSET Providers,
       default \in {"auto", "claude_code", "codex"}, detected \in {"none", "claude_code", "codex"},
       p \in 1..Prompts :
        \E fallbacks \in [1..n -> Names] :
            Begin("agent", <<SelectModel(project, default, detected, configured)>> \o fallbacks, k, p)

Construct == user = "none" /\ (DispatcherBegins \/ AgentBegins)

-------------------------------------------------------------------------------
\* Mutant: the outermost error is looked at before the causes.
ClassifyOutermost(e) ==
    IF e.class \in {"ReadTimeout", "ConnectError", "RateLimitError", "ServerError"} THEN "fallback_eligible"
    ELSE IF e.invalid THEN "terminal"
    ELSE IF e.class = "AuthenticationError" THEN "auth_once" ELSE "terminal"

Classify(e) ==
    IF e.invalid THEN "terminal"
    ELSE IF e.class \in {"ReadTimeout", "ConnectError", "RateLimitError", "ServerError"} THEN "fallback_eligible"
    ELSE IF e.class = "AuthenticationError" THEN "auth_once" ELSE "terminal"

\* Mutant: each request may take its full time.
LimitPerCall == Timeout

\* What is left of the budget bounds a request.
Limit == IF Budget - elapsed < Timeout THEN Budget - elapsed ELSE Timeout

StartChain == idx' = 1 /\ elapsed' = 0 /\ seen' = {}

EndChain(t) == idx' = 0 /\ elapsed' = t /\ seen' = {}

\* The user returns; what it says of the fallback is read from the attempts the error carries.
Fails(class, tried, t) ==
    /\ told' = [status |-> "failure", class |-> class, fallback |-> user = "dispatcher" /\ tried > 1,
                retries |-> attempt - 1, reason |-> Reason(class, attempt, Repairs + 1)]
    /\ EndChain(t)
    /\ UNCHANGED <<attempt, prompts>>

\* The router raised: the dispatcher repairs an invalid answer from the primary on, the agent gives up.
Raise(class, tried, t) ==
    IF user = "dispatcher" /\ ShouldRetry(class, attempt, Repairs + 1)
    THEN attempt' = attempt + 1 /\ StartChain /\ UNCHANGED <<prompts, told>>
    ELSE Fails(class, tried, t)

\* After a failed attempt: the next model, unless there is none or the time is up.  The same look at
\* the clock is taken again before the next attempt.
NextModel(class, t) ==
    IF idx = Len(chain) THEN Raise(AttemptClass(class, FALSE), idx, t)
    ELSE IF t >= Budget THEN Raise("transport_timeout", 0, t)
    ELSE /\ idx' = idx + 1 /\ elapsed' = t
         /\ seen' = IF class = "AuthenticationError" THEN seen \union {chain[idx]} ELSE seen
         /\ UNCHANGED <<attempt, prompts, told>>

\* A provider the factory does not serve, or one whose key is missing, may stop the chain: no attempt
\* is recorded.
FactoryFails ==
    /\ idx > 0 /\ (chain[idx] \notin Providers \/ chain[idx] \notin keys)
    /\ last' = [class |-> "factory", invalid |-> FALSE]
    /\ Raise("fatal_auth_or_config", 0, elapsed)
    /\ UNCHANGED <<user, chain, keys>>

Asked == idx > 0 /\ chain[idx] \in Providers

AttemptFails ==
    /\ Asked
    /\ \E e \in Errors, d \in 0..Limit :
        LET t == elapsed + d IN
        /\ last' = e
        /\ CASE Classify(e) = "terminal" ->
                    Raise(IF e.invalid THEN "invalid_output" ELSE AttemptClass(e.class, TRUE), idx, t)
             [] Classify(e) = "auth_once" /\ chain[idx] \in seen ->
                    Raise(AttemptClass(e.class, FALSE), idx, t)
             [] OTHER -> NextModel(e.class, t)
    /\ UNCHANGED <<user, chain, keys>>

AttemptTimesOut ==
    /\ Asked
    /\ last' = [class |-> "TimeoutError", invalid |-> FALSE]
    /\ NextModel("TimeoutError", elapsed + Limit)
    /\ UNCHANGED <<user, chain, keys>>

\* The first model that answers ends the chain; the agent goes on to its next prompt.
AttemptSucceeds ==
    /\ Asked
    /\ prompts' = prompts - 1 /\ last' = NoError
    /\ IF prompts > 1
       THEN StartChain /\ UNCHANGED told
       ELSE /\ \E d \in 0..Limit : EndChain(elapsed + d)
            /\ told' = [NotTold EXCEPT !.status = "success", !.fallback = user = "dispatcher" /\ idx > 1,
                                       !.retries = attempt - 1]
    /\ UNCHANGED <<user, chain, keys, attempt>>

Next == Construct \/ FactoryFails \/ AttemptFails \/ AttemptTimesOut \/ AttemptSucceeds

Spec == Init /\ [][Next]_vars

-------------------------------------------------------------------------------
TypeOK ==
    /\ user \in {"none", "dispatcher", "agent"} /\ chain \in Seq(Names) /\ keys \subseteq Providers
    /\ attempt \in 0..(Repairs + 1) /\ prompts \in 0..Prompts
    /\ idx \in 0..Len(chain) /\ elapsed \in Nat /\ seen \subseteq Providers
    /\ told.status \in {"none", "refused", "failure", "success"}
===============================================================================
