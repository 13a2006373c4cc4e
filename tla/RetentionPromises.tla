-------------------------- MODULE RetentionPromises ---------------------------
(***************************************************************************)
(* What Retention promises of the stores that it deletes from.             *)
(***************************************************************************)
CONSTANT Sessions

VARIABLES files,    \* [Sessions -> SUBSET Age]: raw traces in the session's directory
          rows,     \* [Sessions -> SUBSET Age]: events in the database
          came,     \* [Sessions]: whether the new event's row came "early", or "late": while a purge or
                    \* an analysis had the session in hand
          report,   \* [Sessions -> "none" or Age]: by created_at
          flags,    \* [Sessions -> SUBSET Age]
          analysed  \* sessions whose new event an analysis that completed has read

\* Whatever fails or is killed half-way, expired files never outlive the rows by which the next run of
\* the command would find them.
FilesStayFindable == \A s \in Sessions : "old" \in files[s] => rows[s] /= {}

\* Nor do the flags of an old analysis outlive the report by which they would be found.
FlagsStayFindable == \A s \in Sessions : "old" \in flags[s] => report[s] /= "none"

\* A recorded event is deleted before any analysis has read it only if it came while a purge or an
\* analysis had its session in hand: that is the whole window, with both purges running at once.
UnreadOnlyIfLate ==
    \A s \in Sessions : came[s] = "early" /\ s \notin analysed => "new" \in rows[s]
===============================================================================
