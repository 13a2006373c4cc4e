---------------------------- MODULE OutputRecovery ----------------------------
(***************************************************************************)
(* How a failed answer of a model is classified, and whether it is asked   *)
(* again (analysis/output_recovery.py).  The taxonomy is shared by the     *)
(* SDK's dispatcher and by the dispatcher that runs an agent's program.    *)
(***************************************************************************)
EXTENDS Naturals

\* A failure's class.  Two kinds of defect of the answer itself (not JSON, not the schema) are one here.
Repairable == {"invalid_output"}
Transport == {"transport_timeout", "transport_rate_limit", "transport_api_error"}
Fatal == {"fatal_auth_or_config", "fatal_execution_error"}
FailureClass == Repairable \union Transport \union Fatal

\* Mutant: a transport failure is repaired as if the answer were bad.
RetryModeEager(class) ==
    IF class \in Repairable \union Transport THEN "output_repair" ELSE "none"

RetryMode(class) ==
    IF class \in Repairable THEN "output_repair"
    ELSE IF class \in Transport THEN "transport" ELSE "none"

\* Mutant: one attempt too many.
ShouldRetryOnceMore(class, attempt, max) == RetryMode(class) = "output_repair" /\ attempt <= max

ShouldRetry(class, attempt, max) == RetryMode(class) = "output_repair" /\ attempt < max

\* What is told of a failure: that its attempts ran out, or its class.
Reason(class, attempt, max) ==
    IF RetryMode(class) = "output_repair" /\ attempt >= max THEN "retry_exhausted" ELSE class

\* A status or the wording of a program's message, as the adapters and the SDK's
\* predicates read it, is a member of these sets.
AuthSigns == {"AuthenticationError", "auth"}
TimeoutSigns == {"TimeoutError", "ReadTimeout", "RouterChainTimeoutError"}
RateSigns == {"RateLimitError", "rate_limit"}

\* The class of a chain of attempts is the last attempt's.  (A later clause of the code, for a chain of
\* nothing but authentication errors, is never reached: the last attempt's error is the first clause's.)
AttemptClass(last, terminal) ==
    IF last \in AuthSigns THEN "fatal_auth_or_config"
    ELSE IF last \in TimeoutSigns THEN "transport_timeout"
    ELSE IF last \in RateSigns THEN "transport_rate_limit"
    ELSE IF terminal THEN "fatal_execution_error" ELSE "transport_api_error"

\* The class of a program that ended with an error, from what its output says.
ExitClass(sign) ==
    IF sign \in AuthSigns THEN "fatal_auth_or_config"
    ELSE IF sign \in RateSigns THEN "transport_rate_limit" ELSE "fatal_execution_error"
===============================================================================
