------------------------------- MODULE IngestMC -------------------------------
(***************************************************************************)
(* Instances of Ingest for TLC: what the hook invocations are about.       *)
(***************************************************************************)
EXTENDS Ingest, TLC

CONSTANTS s1, s2, p1, p2, b1, f1, a1

Hook(s, k, a) == [session |-> s, kind |-> k, agent |-> a]

\* Two prompts of one session, the start of a sub-agent and its end.
Nested ==
  [e \in {p1, p2, b1, f1} |->
     Hook(s1, CASE e = b1 -> "sub_agent_start" [] e = f1 -> "sub_agent_end"
                [] OTHER -> "user_prompt", a1)]

\* A prompt in each of two sessions.
TwoSessions == [e \in {p1, p2} |-> Hook(IF e = p1 THEN s1 ELSE s2, "user_prompt", a1)]

\* Two prompts of one session.
TwoPrompts == [e \in {p1, p2} |-> Hook(s1, "user_prompt", a1)]

Symmetry == Permutations({p1, p2})

===============================================================================
