------------------------------ MODULE EventStore ------------------------------
(***************************************************************************)
(* What the observation pipeline promises of an event the server has       *)
(* accepted: it reaches the database only by way of its raw trace, and     *)
(* once the trace is on disk the event can be put back into the database,  *)
(* whatever happens to either process.  Only an event that has no trace    *)
(* yet can be lost.                                                        *)
(*                                                                         *)
(* The abstract specification of Ingest.  It knows nothing of the tracker, *)
(* the sync log, or which process writes the row.                          *)
(***************************************************************************)
CONSTANT Events

VARIABLE status

Init == status = [e \in Events |-> "unseen"]

Among(s) == {e \in Events : status[e] = s}
Move(E, to) == status' = [e \in Events |-> IF e \in E THEN to ELSE status[e]]

Accept(e) == e \in Among("unseen") /\ Move({e}, "accepted")
Save(e) == e \in Among("accepted") /\ Move({e}, "traced")
Store(e) == e \in Among("traced") /\ Move({e}, "stored")

\* Some accepted events lose the task that was to write them; of those the
\* server was writing when it was told to stop, some may have got to disk.
Lose(E, saved) ==
  /\ E \subseteq Among("accepted") /\ saved \subseteq E
  /\ status' = [e \in Events |-> IF e \in saved THEN "traced"
                                 ELSE IF e \in E THEN "lost" ELSE status[e]]

\* The operator deletes the database: every row can be put back.
Drop == Move(Among("stored"), "traced")

Next ==
  \/ \E e \in Events : Accept(e) \/ Save(e) \/ Store(e)
  \/ \E E \in SUBSET Events : \E saved \in SUBSET E : Lose(E, saved)
  \/ Drop

Spec == Init /\ [][Next]_status

===============================================================================
