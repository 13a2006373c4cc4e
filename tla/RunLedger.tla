------------------------------ MODULE RunLedger ------------------------------
(***************************************************************************)
(* What the analysis_runs table promises to whoever reads it: an append-   *)
(* only audit of pipeline executions.  A run is inserted 'pending', walks  *)
(* the pipeline's stages in order, and ends 'summary_written' or 'failed', *)
(* after which its row is never written again.                             *)
(*                                                                         *)
(* The abstract specification of AnalysisDispatch.  It knows nothing of    *)
(* processes, locks, crashes or the agent: a run whose owner died simply   *)
(* takes no further step.                                                  *)
(***************************************************************************)
EXTENDS Naturals, Sequences

CONSTANT Sessions

VARIABLE ledger \* Seq of [session, stage], in started_at order

Stages == {"pending", "segmented", "behavior_done", "summary_written", "failed"}
Terminal == {"summary_written", "failed"}

Entry == [session : Sessions, stage : Stages]

Successor == [pending |-> "segmented",
              segmented |-> "behavior_done",
              behavior_done |-> "summary_written"]

-----------------------------------------------------------------------------

Init == ledger = <<>>

Start(s) == ledger' = Append(ledger, [session |-> s, stage |-> "pending"])

Move(i, to) == ledger' = [ledger EXCEPT ![i] = [session |-> ledger[i].session, stage |-> to]]

Advance(i) ==
  /\ ledger[i].stage \in DOMAIN Successor
  /\ Move(i, Successor[ledger[i].stage])

Fail(i) ==
  /\ ledger[i].stage \notin Terminal
  /\ Move(i, "failed")

Next ==
  \/ \E s \in Sessions : Start(s)
  \/ \E i \in 1..Len(ledger) : Advance(i) \/ Fail(i)

Spec == Init /\ [][Next]_ledger

=============================================================================
