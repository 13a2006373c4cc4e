------------------------------- MODULE Retention -------------------------------
(***************************************************************************)
(* Deletion of what is past its time: the cleanup command (cli/cleanup.py) *)
(* with its two purgers (storage/retention.py, storage/analysis_           *)
(* retention.py), and the purge that follows an analysis when configured   *)
(* (analysis/post_analysis_cleanup.py), while the server records events    *)
(* and analyses sessions.  An event, a report and a flag are "old" at or   *)
(* before the command's cutoff, else "new".                                *)
(***************************************************************************)
EXTENDS RetentionPromises, FiniteSets

\* The others are those of RetentionPromises.
VARIABLES arriving, \* sessions an event of which is written to its file, not yet to the database
          stage,    \* the command: "idle", "raw", "raw_db", "analysis", "report"
          expired,  \* the sessions it will purge, as it listed them
          outdated, \* the sessions whose results it will purge, as it listed them
          current,  \* the session between its two deletions
          job,      \* the analysis: [at, session]
          read      \* what the analysis loaded

vars == <<files, rows, arriving, came, report, flags, stage, expired, outdated, current, job, read, analysed>>
store == <<files, rows, report, flags>>
command == <<stage, expired, outdated, current>>
ingest == <<arriving, came>>
analysis == <<job, read, analysed>>

Age == {"old", "new"}
NoSession == "none"
NoJob == [at |-> "none", session |-> NoSession]

\* Every session has an old event, and the results of an old analysis.
Init ==
    /\ files = [s \in Sessions |-> {"old"}] /\ rows = [s \in Sessions |-> {"old"}]
    /\ arriving = {} /\ came = [s \in Sessions |-> "no"] /\ analysed = {} /\ read = {}
    /\ report = [s \in Sessions |-> "old"] /\ flags = [s \in Sessions |-> {"old"}]
    /\ stage = "idle" /\ expired = {} /\ outdated = {} /\ current = NoSession /\ job = NoJob

\* A deletion that raises leaves a part, and the session counts as not deleted: what is asked of its files
\* is whether any are left.
Delete(f, s) == [f EXCEPT ![s] = {}]

-------------------------------------------------------------------------------
\* The server records an event: its raw trace first, then its row.
WriteTrace(s) ==
    /\ came[s] = "no" /\ s \notin arriving  \* one new event
    /\ files' = [files EXCEPT ![s] = @ \union {"new"}]
    /\ arriving' = arriving \union {s}
    /\ UNCHANGED <<rows, report, flags, came, command, analysis>>

InHand(s) == s \in expired \/ (stage = "raw_db" /\ s = current) \/ s = job.session

WriteRow(s) ==
    /\ s \in arriving /\ arriving' = arriving \ {s}
    /\ rows' = [rows EXCEPT ![s] = @ \union {"new"}]
    /\ came' = [came EXCEPT ![s] = IF InHand(s) THEN "late" ELSE "early"]
    /\ UNCHANGED <<files, report, flags, command, analysis>>

-------------------------------------------------------------------------------
\* Mutant: the first event of a session decides.
ExpiredByFirst == {s \in Sessions : "old" \in rows[s]}

\* enumerate_expired_sessions: the last event decides.
Expired == {s \in Sessions : rows[s] = {"old"}}

\* enumerate_expired_analyses.
Outdated == {s \in Sessions : report[s] = "old"}

\* Both lists are made before anything is deleted.  The second, of the results, may fail alone, and it may
\* miss a session analysed since the first: it is a part of what is outdated when the first is made, which
\* stands for the two reads.  A malformed configuration, a failure of the first list and --dry-run delete
\* nothing.
Enumerate ==
    /\ stage = "idle"
    /\ expired' = Expired /\ outdated' \in SUBSET Outdated
    /\ stage' = "raw"
    /\ UNCHANGED <<current, store, ingest, analysis>>

\* Mutant: the rows are deleted before the files.
FirstStoreRows == "rows"

\* The files go first: a session whose files remain is found again by its rows.
FirstStore == "files"

PurgeFirst(s) ==
    IF FirstStore = "files" THEN files' = Delete(files, s) /\ UNCHANGED rows
    ELSE rows' = Delete(rows, s) /\ UNCHANGED files

PurgeSecond(s) ==
    IF FirstStore = "files" THEN rows' = Delete(rows, s) /\ UNCHANGED files
    ELSE files' = Delete(files, s) /\ UNCHANGED rows

\* A failure leaves the session to the next run of the command.
PurgeTraces(s) ==
    /\ stage = "raw" /\ s \in expired /\ expired' = expired \ {s}
    /\ \/ PurgeFirst(s) /\ stage' = "raw_db" /\ current' = s
       \/ UNCHANGED <<files, rows, stage, current>>
    /\ UNCHANGED <<outdated, report, flags, ingest, analysis>>

PurgeRows ==
    /\ stage = "raw_db" /\ stage' = "raw" /\ current' = NoSession
    /\ PurgeSecond(current) \/ UNCHANGED <<files, rows>>
    /\ UNCHANGED <<expired, outdated, report, flags, ingest, analysis>>

\* All sessions' traces, then all sessions' results, whatever failed.
TracesDone ==
    /\ stage = "raw" /\ expired = {} /\ stage' = "analysis"
    /\ UNCHANGED <<expired, outdated, current, store, ingest, analysis>>

\* Mutant: the report is deleted with the flags still there.
FlagsGoLast(s) == UNCHANGED flags

FlagsGo(s) == flags' = Delete(flags, s)

PurgeFlags(s) ==
    /\ stage = "analysis" /\ s \in outdated /\ outdated' = outdated \ {s}
    /\ \/ FlagsGo(s) /\ stage' = "report" /\ current' = s
       \/ UNCHANGED <<flags, stage, current>>
    /\ UNCHANGED <<expired, files, rows, report, ingest, analysis>>

PurgeReport ==
    /\ stage = "report" /\ stage' = "analysis" /\ current' = NoSession
    /\ report' \in {report, [report EXCEPT ![current] = "none"]}
    /\ UNCHANGED <<expired, outdated, files, rows, flags, ingest, analysis>>

\* The command ends, or is killed between any two deletions.
CommandEnds ==
    /\ stage /= "idle"
    /\ stage' = "idle" /\ expired' = {} /\ outdated' = {} /\ current' = NoSession
    /\ UNCHANGED <<store, ingest, analysis>>

-------------------------------------------------------------------------------
\* The server analyses a session: it loads the events, then writes the flags, then the report.
Load(s) ==
    /\ job = NoJob /\ rows[s] /= {}
    /\ job' = [at |-> "loaded", session |-> s] /\ read' = rows[s]
    /\ UNCHANGED <<analysed, store, command, ingest>>

WriteFlags ==
    /\ job.at = "loaded" /\ job' = [job EXCEPT !.at = "flagged"]
    /\ flags' = [flags EXCEPT ![job.session] = @ \union {"new"}]
    /\ UNCHANGED <<files, rows, report, read, analysed, command, ingest>>

\* An upsert: the creation time of a report that is there is kept.  With cleanup_after_analysis the
\* purge of the session's traces follows, else the job is done.
WriteReport ==
    /\ job.at = "flagged"
    /\ report' = [report EXCEPT ![job.session] = IF @ = "none" THEN "new" ELSE @]
    /\ analysed' = IF "new" \in read THEN analysed \union {job.session} ELSE analysed
    /\ job' \in {NoJob, [job EXCEPT !.at = "complete"]}
    /\ read' = IF job' = NoJob THEN {} ELSE read
    /\ UNCHANGED <<files, rows, flags, command, ingest>>

\* The callback of the orchestrator: a session without events is left alone.
PurgeAfter ==
    /\ job.at = "complete" /\ rows[job.session] /= {}
    /\ PurgeFirst(job.session) /\ job' = [job EXCEPT !.at = "purging"]
    /\ UNCHANGED <<report, flags, read, analysed, command, ingest>>

PurgeAfterRows ==
    /\ job.at = "purging" /\ job' = NoJob /\ read' = {}
    /\ PurgeSecond(job.session) \/ UNCHANGED <<files, rows>>
    /\ UNCHANGED <<report, flags, analysed, command, ingest>>

\* The analysis fails, the callback has nothing to do or raises, or the server stops at any point.
JobEnds ==
    /\ job /= NoJob /\ job' = NoJob /\ read' = {}
    /\ UNCHANGED <<analysed, store, command, ingest>>

Next ==
    \/ Enumerate \/ PurgeRows \/ TracesDone \/ PurgeReport \/ CommandEnds
    \/ WriteFlags \/ WriteReport \/ PurgeAfter \/ PurgeAfterRows \/ JobEnds
    \/ \E s \in Sessions : WriteTrace(s) \/ WriteRow(s) \/ PurgeTraces(s) \/ PurgeFlags(s) \/ Load(s)

Spec == Init /\ [][Next]_vars

-------------------------------------------------------------------------------
TypeOK ==
    /\ files \in [Sessions -> SUBSET Age] /\ rows \in [Sessions -> SUBSET Age]
    /\ report \in [Sessions -> Age \union {"none"}] /\ flags \in [Sessions -> SUBSET Age]
    /\ arriving \subseteq Sessions /\ came \in [Sessions -> {"no", "early", "late"}] /\ analysed \subseteq Sessions
    /\ read \subseteq Age
    /\ stage \in {"idle", "raw", "raw_db", "analysis", "report"}
    /\ expired \subseteq Sessions /\ outdated \subseteq Sessions /\ current \in Sessions \union {NoSession}
    /\ job.at \in {"none", "loaded", "flagged", "complete", "purging"} /\ job.session \in Sessions \union {NoSession}
===============================================================================
