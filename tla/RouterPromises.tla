---------------------------- MODULE RouterPromises ----------------------------
(***************************************************************************)
(* What LLMRouter promises of the time a chain of models takes, of its     *)
(* fallbacks and of its repairs.                                           *)
(***************************************************************************)
EXTENDS Integers

CONSTANTS Timeout,      \* seconds one request may take
          Repairs       \* repairs of an invalid answer (0: retry disabled)

VARIABLES attempt,  \* the user's call of the router, from 1
          idx,      \* the model being asked (0: no call runs)
          elapsed,  \* seconds the chain has taken
          last,     \* the last error of this chain
          told      \* what the user returned

\* Timeouts are whole seconds; the chain's budget is half as much again.
Budget == (3 * Timeout) \div 2

\* The user has not returned.
NotTold == [status |-> "none", class |-> "none", fallback |-> FALSE, retries |-> 0, reason |-> "none"]

\* The requests of one chain together never take longer than the chain's budget.
WithinBudget == elapsed <= Budget

\* No model is paid to answer again a prompt whose answer another model of the chain got wrong: the
\* chain goes to its next model only after an error that is not about the answer.
NoCostLeak == [][idx > 0 /\ idx' = idx + 1 => ~last'.invalid]_<<idx, last>>

\* The dispatcher's repairs do not multiply the chain's fallbacks: the chain is started again only
\* because the answer was invalid, at most Repairs times, and never once it is told.
RepairsOnlyAnswers ==
    [][/\ attempt' > attempt /\ attempt > 0 => last'.invalid /\ attempt <= Repairs
       /\ told /= NotTold => UNCHANGED told]_<<attempt, last, told>>
===============================================================================
