--------------------------- MODULE Retention_proofs ---------------------------
(***************************************************************************)
(* Proofs about Retention, for any set of sessions.                        *)
(***************************************************************************)
EXTENDS Retention, TLAPS

\* The absence of a session is none.
Apart == NoSession \notin Sessions

-----------------------------------------------------------------------------
\* The inductive invariant

\* The analysis has a session in hand.
JobOK ==
  /\ job \in [at : {"none", "loaded", "flagged", "complete", "purging"}, session : Sessions \union {NoSession}]
  /\ job.at # "none" => job.session \in Sessions

\* What the new event says, if it came in time, has been read by an analysis.
Dispensable(s) == came[s] # "early" \/ s \in analysed

\* Between its two deletions a purge has left nothing in the store it went to first.
Halfway ==
  /\ stage = "raw_db" => current \in Sessions /\ "old" \notin files[current]
  /\ stage = "report" => current \in Sessions /\ "old" \notin flags[current]
  /\ job.at = "purging" => "old" \notin files[job.session]

\* What the purges have in hand is dispensable; an analysis has it, or will once it completes.
Hands ==
  /\ \A s \in expired : Dispensable(s)
  /\ stage = "raw_db" => Dispensable(current)
  /\ job.at \in {"complete", "purging"} => Dispensable(job.session)
  /\ job.at \in {"loaded", "flagged"} => Dispensable(job.session) \/ "new" \in read

Findable == FilesStayFindable /\ FlagsStayFindable

IInv == TypeOK /\ JobOK /\ Halfway /\ Hands /\ Findable /\ UnreadOnlyIfLate

-----------------------------------------------------------------------------
\* One step each

\* Nothing is in hand at first.
LEMMA Start == ASSUME Apart, Init PROVE IInv
<1> USE DEF Init, Age, NoJob
<1>1. TypeOK
  BY DEF TypeOK
<1>2. JobOK /\ Halfway /\ Hands
  BY DEF JobOK, Halfway, Hands
<1>3. Findable /\ UnreadOnlyIfLate
  BY DEF Findable, FilesStayFindable, FlagsStayFindable, UnreadOnlyIfLate
<1> QED
  BY <1>1, <1>2, <1>3 DEF IInv

\* The trace of a new event makes nothing old.
LEMMA WriteTraceStep == ASSUME Apart, IInv, NEW s \in Sessions, WriteTrace(s) PROVE IInv'
<1> USE DEF Apart, IInv, WriteTrace, store, command, ingest, analysis
<1>1. TypeOK'
  BY DEF TypeOK, JobOK, Age
<1>2. JobOK'
  BY DEF JobOK, TypeOK
<1>3. Halfway'
  BY DEF Halfway, TypeOK, JobOK
<1>4. Hands'
  BY DEF Hands, Dispensable, TypeOK, JobOK, UnreadOnlyIfLate
<1>5. Findable'
  BY DEF Findable, FilesStayFindable, FlagsStayFindable, Halfway, TypeOK, JobOK
<1>6. UnreadOnlyIfLate'
  BY DEF UnreadOnlyIfLate, Hands, Dispensable, Halfway, TypeOK, JobOK
<1> QED
  BY <1>1, <1>2, <1>3, <1>4, <1>5, <1>6

\* The row of a new event comes early only if no purge and no analysis has the session in hand.
LEMMA WriteRowStep == ASSUME Apart, IInv, NEW s \in Sessions, WriteRow(s) PROVE IInv'
<1> USE DEF Apart, IInv, WriteRow, InHand, store, command, ingest, analysis
<1>1. TypeOK'
  BY DEF TypeOK, JobOK, Age
<1>2. JobOK'
  BY DEF JobOK, TypeOK
<1>3. Halfway'
  BY DEF Halfway, TypeOK, JobOK
<1>4. Hands'
  BY DEF Hands, Dispensable, TypeOK, JobOK, UnreadOnlyIfLate
<1>5. Findable'
  BY DEF Findable, FilesStayFindable, FlagsStayFindable, Halfway, TypeOK, JobOK
<1>6. UnreadOnlyIfLate'
  BY DEF UnreadOnlyIfLate, Hands, Dispensable, Halfway, TypeOK, JobOK
<1> QED
  BY <1>1, <1>2, <1>3, <1>4, <1>5, <1>6

\* The sessions that are listed have no new event.
LEMMA EnumerateStep == ASSUME Apart, IInv, Enumerate PROVE IInv'
<1> USE DEF Apart, IInv, Enumerate, Expired, Outdated, store, command, ingest, analysis
<1>1. TypeOK'
  BY DEF TypeOK, JobOK, Age
<1>2. JobOK'
  BY DEF JobOK, TypeOK
<1>3. Halfway'
  BY DEF Halfway, TypeOK, JobOK
<1>4. Hands'
  BY DEF Hands, Dispensable, TypeOK, JobOK, UnreadOnlyIfLate
<1>5. Findable'
  BY DEF Findable, FilesStayFindable, FlagsStayFindable, Halfway, TypeOK, JobOK
<1>6. UnreadOnlyIfLate'
  BY DEF UnreadOnlyIfLate, Hands, Dispensable, Halfway, TypeOK, JobOK
<1> QED
  BY <1>1, <1>2, <1>3, <1>4, <1>5, <1>6

\* The files of a session go.
LEMMA PurgeTracesStep == ASSUME Apart, IInv, NEW s \in Sessions, PurgeTraces(s) PROVE IInv'
<1> USE DEF Apart, IInv, PurgeTraces, PurgeFirst, FirstStore, Delete, store, command, ingest, analysis
<1>1. TypeOK'
  BY DEF TypeOK, JobOK, Age
<1>2. JobOK'
  BY DEF JobOK, TypeOK
<1>3. Halfway'
  BY DEF Halfway, TypeOK, JobOK
<1>4. Hands'
  BY DEF Hands, Dispensable, TypeOK, JobOK, UnreadOnlyIfLate
<1>5. Findable'
  BY DEF Findable, FilesStayFindable, FlagsStayFindable, Halfway, TypeOK, JobOK
<1>6. UnreadOnlyIfLate'
  BY DEF UnreadOnlyIfLate, Hands, Dispensable, Halfway, TypeOK, JobOK
<1> QED
  BY <1>1, <1>2, <1>3, <1>4, <1>5, <1>6

\* The rows follow the files.
LEMMA PurgeRowsStep == ASSUME Apart, IInv, PurgeRows PROVE IInv'
<1> USE DEF Apart, IInv, PurgeRows, PurgeSecond, FirstStore, Delete, store, command, ingest, analysis
<1>1. TypeOK'
  BY DEF TypeOK, JobOK, Age
<1>2. JobOK'
  BY DEF JobOK, TypeOK
<1>3. Halfway'
  BY DEF Halfway, TypeOK, JobOK
<1>4. Hands'
  BY DEF Hands, Dispensable, TypeOK, JobOK, UnreadOnlyIfLate
<1>5. Findable'
  BY DEF Findable, FilesStayFindable, FlagsStayFindable, Halfway, TypeOK, JobOK
<1>6. UnreadOnlyIfLate'
  BY DEF UnreadOnlyIfLate, Hands, Dispensable, Halfway, TypeOK, JobOK
<1> QED
  BY <1>1, <1>2, <1>3, <1>4, <1>5, <1>6

\* The traces are done.
LEMMA TracesDoneStep == ASSUME Apart, IInv, TracesDone PROVE IInv'
<1> USE DEF Apart, IInv, TracesDone, store, command, ingest, analysis
<1>1. TypeOK'
  BY DEF TypeOK, JobOK, Age
<1>2. JobOK'
  BY DEF JobOK, TypeOK
<1>3. Halfway'
  BY DEF Halfway, TypeOK, JobOK
<1>4. Hands'
  BY DEF Hands, Dispensable, TypeOK, JobOK, UnreadOnlyIfLate
<1>5. Findable'
  BY DEF Findable, FilesStayFindable, FlagsStayFindable, Halfway, TypeOK, JobOK
<1>6. UnreadOnlyIfLate'
  BY DEF UnreadOnlyIfLate, Hands, Dispensable, Halfway, TypeOK, JobOK
<1> QED
  BY <1>1, <1>2, <1>3, <1>4, <1>5, <1>6

\* The flags of a session go.
LEMMA PurgeFlagsStep == ASSUME Apart, IInv, NEW s \in Sessions, PurgeFlags(s) PROVE IInv'
<1> USE DEF Apart, IInv, PurgeFlags, FlagsGo, Delete, store, command, ingest, analysis
<1>1. TypeOK'
  BY DEF TypeOK, JobOK, Age
<1>2. JobOK'
  BY DEF JobOK, TypeOK
<1>3. Halfway'
  BY DEF Halfway, TypeOK, JobOK
<1>4. Hands'
  BY DEF Hands, Dispensable, TypeOK, JobOK, UnreadOnlyIfLate
<1>5. Findable'
  BY DEF Findable, FilesStayFindable, FlagsStayFindable, Halfway, TypeOK, JobOK
<1>6. UnreadOnlyIfLate'
  BY DEF UnreadOnlyIfLate, Hands, Dispensable, Halfway, TypeOK, JobOK
<1> QED
  BY <1>1, <1>2, <1>3, <1>4, <1>5, <1>6

\* The report follows the flags.
LEMMA PurgeReportStep == ASSUME Apart, IInv, PurgeReport PROVE IInv'
<1> USE DEF Apart, IInv, PurgeReport, store, command, ingest, analysis
<1>1. TypeOK'
  BY DEF TypeOK, JobOK, Age
<1>2. JobOK'
  BY DEF JobOK, TypeOK
<1>3. Halfway'
  BY DEF Halfway, TypeOK, JobOK
<1>4. Hands'
  BY DEF Hands, Dispensable, TypeOK, JobOK, UnreadOnlyIfLate
<1>5. Findable'
  BY DEF Findable, FilesStayFindable, FlagsStayFindable, Halfway, TypeOK, JobOK
<1>6. UnreadOnlyIfLate'
  BY DEF UnreadOnlyIfLate, Hands, Dispensable, Halfway, TypeOK, JobOK
<1> QED
  BY <1>1, <1>2, <1>3, <1>4, <1>5, <1>6

\* The command ends or is killed.
LEMMA CommandEndsStep == ASSUME Apart, IInv, CommandEnds PROVE IInv'
<1> USE DEF Apart, IInv, CommandEnds, store, command, ingest, analysis
<1>1. TypeOK'
  BY DEF TypeOK, JobOK, Age
<1>2. JobOK'
  BY DEF JobOK, TypeOK
<1>3. Halfway'
  BY DEF Halfway, TypeOK, JobOK
<1>4. Hands'
  BY DEF Hands, Dispensable, TypeOK, JobOK, UnreadOnlyIfLate
<1>5. Findable'
  BY DEF Findable, FilesStayFindable, FlagsStayFindable, Halfway, TypeOK, JobOK
<1>6. UnreadOnlyIfLate'
  BY DEF UnreadOnlyIfLate, Hands, Dispensable, Halfway, TypeOK, JobOK
<1> QED
  BY <1>1, <1>2, <1>3, <1>4, <1>5, <1>6

\* The analysis loads what is recorded.
LEMMA LoadStep == ASSUME Apart, IInv, NEW s \in Sessions, Load(s) PROVE IInv'
<1> USE DEF Apart, IInv, Load, store, command, ingest, analysis
<1>1. TypeOK'
  BY DEF TypeOK, JobOK, Age
<1>2. JobOK'
  BY DEF JobOK, TypeOK
<1>3. Halfway'
  BY DEF Halfway, TypeOK, JobOK
<1>4. Hands'
  BY DEF Hands, Dispensable, TypeOK, JobOK, UnreadOnlyIfLate
<1>5. Findable'
  BY DEF Findable, FilesStayFindable, FlagsStayFindable, Halfway, TypeOK, JobOK
<1>6. UnreadOnlyIfLate'
  BY DEF UnreadOnlyIfLate, Hands, Dispensable, Halfway, TypeOK, JobOK
<1> QED
  BY <1>1, <1>2, <1>3, <1>4, <1>5, <1>6

\* The flags of a new analysis are new.
LEMMA WriteFlagsStep == ASSUME Apart, IInv, WriteFlags PROVE IInv'
<1> USE DEF Apart, IInv, WriteFlags, store, command, ingest, analysis
<1>1. TypeOK'
  BY DEF TypeOK, JobOK, Age
<1>2. JobOK'
  BY DEF JobOK, TypeOK
<1>3. Halfway'
  BY DEF Halfway, TypeOK, JobOK
<1>4. Hands'
  BY DEF Hands, Dispensable, TypeOK, JobOK, UnreadOnlyIfLate
<1>5. Findable'
  BY DEF Findable, FilesStayFindable, FlagsStayFindable, Halfway, TypeOK, JobOK
<1>6. UnreadOnlyIfLate'
  BY DEF UnreadOnlyIfLate, Hands, Dispensable, Halfway, TypeOK, JobOK
<1> QED
  BY <1>1, <1>2, <1>3, <1>4, <1>5, <1>6

\* A completed analysis has read what it loaded.
LEMMA WriteReportStep == ASSUME Apart, IInv, WriteReport PROVE IInv'
<1> USE DEF Apart, IInv, WriteReport, NoJob, store, command, ingest, analysis
<1>1. TypeOK'
  BY DEF TypeOK, JobOK, Age
<1>2. JobOK'
  BY DEF JobOK, TypeOK
<1>3. Halfway'
  BY DEF Halfway, TypeOK, JobOK
<1>4. Hands'
  BY DEF Hands, Dispensable, TypeOK, JobOK, UnreadOnlyIfLate
<1>5. Findable'
  BY DEF Findable, FilesStayFindable, FlagsStayFindable, Halfway, TypeOK, JobOK
<1>6. UnreadOnlyIfLate'
  BY DEF UnreadOnlyIfLate, Hands, Dispensable, Halfway, TypeOK, JobOK
<1> QED
  BY <1>1, <1>2, <1>3, <1>4, <1>5, <1>6

\* The files of the analysed session go.
LEMMA PurgeAfterStep == ASSUME Apart, IInv, PurgeAfter PROVE IInv'
<1> USE DEF Apart, IInv, PurgeAfter, PurgeFirst, FirstStore, Delete, store, command, ingest, analysis
<1>1. TypeOK'
  BY DEF TypeOK, JobOK, Age
<1>2. JobOK'
  BY DEF JobOK, TypeOK
<1>3. Halfway'
  BY DEF Halfway, TypeOK, JobOK
<1>4. Hands'
  BY DEF Hands, Dispensable, TypeOK, JobOK, UnreadOnlyIfLate
<1>5. Findable'
  BY DEF Findable, FilesStayFindable, FlagsStayFindable, Halfway, TypeOK, JobOK
<1>6. UnreadOnlyIfLate'
  BY DEF UnreadOnlyIfLate, Hands, Dispensable, Halfway, TypeOK, JobOK
<1> QED
  BY <1>1, <1>2, <1>3, <1>4, <1>5, <1>6

\* Its rows follow.
LEMMA PurgeAfterRowsStep == ASSUME Apart, IInv, PurgeAfterRows PROVE IInv'
<1> USE DEF Apart, IInv, PurgeAfterRows, PurgeSecond, FirstStore, Delete, NoJob, store, command, ingest, analysis
<1>1. TypeOK'
  BY DEF TypeOK, JobOK, Age
<1>2. JobOK'
  BY DEF JobOK, TypeOK
<1>3. Halfway'
  BY DEF Halfway, TypeOK, JobOK
<1>4. Hands'
  BY DEF Hands, Dispensable, TypeOK, JobOK, UnreadOnlyIfLate
<1>5. Findable'
  BY DEF Findable, FilesStayFindable, FlagsStayFindable, Halfway, TypeOK, JobOK
<1>6. UnreadOnlyIfLate'
  BY DEF UnreadOnlyIfLate, Hands, Dispensable, Halfway, TypeOK, JobOK
<1> QED
  BY <1>1, <1>2, <1>3, <1>4, <1>5, <1>6

\* The analysis ends at any point.
LEMMA JobEndsStep == ASSUME Apart, IInv, JobEnds PROVE IInv'
<1> USE DEF Apart, IInv, JobEnds, NoJob, store, command, ingest, analysis
<1>1. TypeOK'
  BY DEF TypeOK, JobOK, Age
<1>2. JobOK'
  BY DEF JobOK, TypeOK
<1>3. Halfway'
  BY DEF Halfway, TypeOK, JobOK
<1>4. Hands'
  BY DEF Hands, Dispensable, TypeOK, JobOK, UnreadOnlyIfLate
<1>5. Findable'
  BY DEF Findable, FilesStayFindable, FlagsStayFindable, Halfway, TypeOK, JobOK
<1>6. UnreadOnlyIfLate'
  BY DEF UnreadOnlyIfLate, Hands, Dispensable, Halfway, TypeOK, JobOK
<1> QED
  BY <1>1, <1>2, <1>3, <1>4, <1>5, <1>6

-----------------------------------------------------------------------------
\* The theorems

\* The inductive invariant: a purge between its two deletions strands nothing, and what it has in
\* hand has been read or came late.
THEOREM Invariance == ASSUME Apart PROVE Spec => []IInv
<1>1. Init => IInv
  BY Start
<1>2. IInv /\ [Next]_vars => IInv'
  <2> SUFFICES ASSUME IInv, [Next]_vars PROVE IInv'
    OBVIOUS
  <2>1. CASE Enumerate \/ PurgeRows \/ TracesDone \/ PurgeReport \/ CommandEnds
    BY <2>1, EnumerateStep, PurgeRowsStep, TracesDoneStep, PurgeReportStep, CommandEndsStep
  <2>2. CASE WriteFlags \/ WriteReport \/ PurgeAfter \/ PurgeAfterRows \/ JobEnds
    BY <2>2, WriteFlagsStep, WriteReportStep, PurgeAfterStep, PurgeAfterRowsStep, JobEndsStep
  <2>3. CASE \E s \in Sessions : WriteTrace(s) \/ WriteRow(s) \/ PurgeTraces(s) \/ PurgeFlags(s) \/ Load(s)
    BY <2>3, WriteTraceStep, WriteRowStep, PurgeTracesStep, PurgeFlagsStep, LoadStep
  <2>4. CASE UNCHANGED vars
    <3> USE <2>4 DEF vars, IInv
    <3>1. TypeOK' /\ JobOK' /\ Halfway'
      BY DEF TypeOK, JobOK, Halfway
    <3>2. Hands' /\ UnreadOnlyIfLate'
      BY DEF Hands, Dispensable, UnreadOnlyIfLate
    <3>3. Findable'
      BY DEF Findable, FilesStayFindable, FlagsStayFindable
    <3> QED
      BY <3>1, <3>2, <3>3
  <2> QED
    BY <2>1, <2>2, <2>3, <2>4 DEF Next
<1> QED
  BY <1>1, <1>2, PTL DEF Spec

\* Whatever fails or is killed between two deletions, and whatever is recorded and analysed meanwhile,
\* a session with expired files still has rows, by which the next cleanup finds it.
THEOREM Files == ASSUME Apart PROVE Spec => []FilesStayFindable
<1>1. IInv => FilesStayFindable
  BY DEF IInv, Findable
<1> QED
  BY <1>1, Invariance, PTL

\* Nor are the flags of an old analysis left without the report by which they are found.
THEOREM Flags == ASSUME Apart PROVE Spec => []FlagsStayFindable
<1>1. IInv => FlagsStayFindable
  BY DEF IInv, Findable
<1> QED
  BY <1>1, Invariance, PTL

\* With both purges running at once, an event is deleted unread only if it came while its session was
\* in the hands of a purge or an analysis.
THEOREM Unread == ASSUME Apart PROVE Spec => []UnreadOnlyIfLate
<1>1. IInv => UnreadOnlyIfLate
  BY DEF IInv
<1> QED
  BY <1>1, Invariance, PTL
===============================================================================
