-------------------------- MODULE DirectiveLifecycle --------------------------
(***************************************************************************)
(* One project's directives: the aggregations that create, rewrite, decay  *)
(* and retire them (aggregate_project_flags, run by the server after an    *)
(* analysis and by `secondsight analyze` in a process of its own), and the *)
(* users who disable and enable them (PATCH, `directive --disable`).       *)
(*                                                                         *)
(* A step is the code up to and including one transaction of its           *)
(* repositories; nothing holds a lock from a read to the write it decides. *)
(* The agent's answer is any set of patterns; what the similarity of two   *)
(* texts comes to is a constant.  identity_key and id of a directive map   *)
(* to each other and are one Id.  No code sets expires_at, so that         *)
(* enforce_expiry finds nothing; disabled_reason is written with the       *)
(* status, in one UPDATE, and is left out.  A pattern without a word in    *)
(* it, which deduplication skips, is one the agent does not report.        *)
(***************************************************************************)
EXTENDS Integers, FiniteSets

CONSTANTS
  Analyzers, Users, Ids, None,
  Patterns,      \* what the agent may report: [flag, text, source, topic]
  Flags, Texts, Sources, Topics,
  Similarity,    \* of two texts, in percent
  Length,        \* of a text
  Hint,          \* _REVISION_HINTS: a text for some of the flag types
  InitWeight, MaxWeight, BoostDelta, DecayDelta, MissGrace, ObsoleteThreshold,
  RevisionCap, CapacityCeiling,
  TopN,          \* patterns one aggregation considers
  Stored,        \* the patterns stored before we look
  MaxRuns,       \* bound: aggregations
  MaxEdits,      \* bound: requests of users
  MaxFaults      \* bound: failed writes and dead aggregations

ASSUME PolicyAssumption ==
  /\ {InitWeight, MaxWeight, BoostDelta, DecayDelta, MissGrace,
      ObsoleteThreshold, RevisionCap, CapacityCeiling} \subseteq Nat
  /\ InitWeight <= MaxWeight

ASSUME DataAssumption ==
  /\ Patterns \subseteq [flag : Flags, text : Texts, source : Sources, topic : Topics]
  /\ Patterns # {} /\ Stored \subseteq Patterns
  /\ Hint \in [Flags -> Texts \cup {None}]

ASSUME ActorAssumption ==
  /\ IsFiniteSet(Analyzers) /\ IsFiniteSet(Ids)
  /\ None \notin Ids \cup Analyzers

VARIABLES
  \* the table: which rows there are, and their columns
  rows, status, text, flag, source, weight, miss, revisions,
  ledger,        \* directive_revisions: [id, index, accepted]
  \* each aggregation: where it is; its patterns still to merge and the flag
  \* types of all of them; its copies of the rows (identity_scope_directives,
  \* active_conventions, run_identity_descriptors); the identities it promoted
  pc, queue, seen, scope, conventions, described, promoted,
  \* the pattern at hand, whom it matched, whom it supersedes; the rows the
  \* policy loop has still to do, the one at hand and what was read for it
  pattern, match, victim, todo, item, draft, index,
  surplus,       \* what it has still to retire to meet the ceiling
  ask,           \* a user's request in the making
  touched,       \* history: the rows others wrote since an aggregation began
  runs, edits, faults

rowVars == <<rows, status, text, flag, source, weight, miss, revisions>>
copyVars == <<seen, scope, conventions>>
mergeVars == <<queue, described, promoted, pattern, match, victim>>
policyVars == <<todo, item, draft, index, surplus>>
budgets == <<runs, edits, faults>>
vars == <<rowVars, ledger, pc, copyVars, mergeVars, policyVars, ask, touched,
          budgets>>

-----------------------------------------------------------------------------

Statuses == {"active", "disabled", "obsolete", "superseded", "stalled"}
\* Mutant: a superseded directive may be matched and evaluated.
ResolvableEvenReplaced == {"active", "obsolete", "stalled", "superseded"}

Resolvable == {"active", "obsolete", "stalled"}

\* What an aggregation uses of a row it has read: to merge, and in the policy loop.
Copy(d) == [id |-> d, status |-> status[d], text |-> text[d], flag |-> flag[d],
            source |-> source[d]]
PolicyCopy(d) == [id |-> d, status |-> status[d], flag |-> flag[d], weight |-> weight[d],
                  miss |-> miss[d], revisions |-> revisions[d]]
In(S) == {d \in rows : status[d] \in S}
Active == In({"active"})

Steps == {"conventions", "match", "supersede", "reactivate", "upsert", "readback",
          "policy", "refresh", "index", "append", "revise", "obsolete"}

Least(m, n) == IF m <= n THEN m ELSE n

\* The directive a copy is of.
IdOf(r) == IF r = None THEN None ELSE r.id

TypeOK ==
  /\ rows \subseteq Ids
  /\ status \in [Ids -> Statuses]
  /\ text \in [Ids -> Texts] /\ flag \in [Ids -> Flags]
  /\ source \in [Ids -> Sources]
  /\ weight \in [Ids -> 0..MaxWeight]
  /\ miss \in [Ids -> Nat] /\ revisions \in [Ids -> Nat]
  /\ ledger \subseteq [id : rows, index : Nat, accepted : BOOLEAN]
  /\ pc \in [Analyzers -> {"idle"} \cup Steps]
  /\ \A a \in Analyzers : IdOf(match[a]) \in rows \cup {None}
  /\ item \in [Analyzers -> rows \cup {None}]
  /\ \A a \in Analyzers : \A r \in scope[a] \cup conventions[a] : r.id \in rows

\* Earlier aggregations have stored some of the patterns and promoted them, have
\* revised some of those, and met some of these again.
Init ==
  /\ \E owner \in [Stored -> Ids], n \in 0..RevisionCap, revised \in BOOLEAN :
       LET of(d) == IF d \in rows THEN CHOOSE p \in Stored : owner[p] = d
                    ELSE CHOOSE p \in Patterns : TRUE
           hint(d) == Hint[of(d).flag]
           was(d) == d \in rows /\ hint(d) # None /\ n > 0
       IN /\ \A p, q \in Stored : owner[p] = owner[q] => p = q
          /\ rows = {owner[p] : p \in Stored}
          /\ text = [d \in Ids |-> IF was(d) /\ revised THEN hint(d) ELSE of(d).text]
          /\ flag = [d \in Ids |-> of(d).flag]
          /\ source = [d \in Ids |-> of(d).source]
          /\ weight = [d \in Ids |->
               IF d \in rows THEN Least(MaxWeight, InitWeight + BoostDelta) ELSE InitWeight]
          /\ revisions = [d \in Ids |-> IF was(d) THEN n ELSE 0]
          /\ ledger = [id : {d \in rows : was(d)}, index : 1..n, accepted : {TRUE}]
  /\ status = [d \in Ids |-> "active"]
  /\ miss = [d \in Ids |-> 0]
  /\ pc = [a \in Analyzers |-> "idle"]
  /\ match = [a \in Analyzers |-> None] /\ victim = match /\ pattern = match
  /\ item = match /\ draft = match
  /\ index = [a \in Analyzers |-> 0]
  /\ queue = [a \in Analyzers |-> {}] /\ seen = queue /\ scope = queue
  /\ conventions = queue /\ described = queue /\ promoted = queue /\ todo = queue
  /\ surplus = queue
  /\ touched = queue
  /\ ask = [u \in Users |-> None]
  /\ runs = 0 /\ edits = 0 /\ faults = 0

Goto(a, step) == pc' = [pc EXCEPT ![a] = step]
At(a, step) == pc[a] = step
\* a wrote row d, or a user did (a = None).
Touched(a, d) ==
  [b \in Analyzers |-> IF b = a \/ pc[b] = "idle" THEN touched[b] ELSE touched[b] \cup {d}]
Touch(a, d) == touched' = Touched(a, d)

-----------------------------------------------------------------------------
(* An aggregation, step 3: match, deduplicate and upsert its patterns.     *)

\* Steps 1 and 2 are over: the agent reported the patterns `all`.
Begin(a) ==
  /\ At(a, "idle") /\ runs < MaxRuns /\ runs' = runs + 1
  /\ \E all \in SUBSET Patterns : \E top \in SUBSET all :
       /\ Cardinality(top) = IF Cardinality(all) < TopN THEN Cardinality(all) ELSE TopN
       /\ queue' = [queue EXCEPT ![a] = top]
       /\ seen' = [seen EXCEPT ![a] = {p.flag : p \in all}]
  /\ scope' = [scope EXCEPT ![a] = {Copy(d) : d \in In(Resolvable)}]
  /\ touched' = [touched EXCEPT ![a] = {}]
  /\ Goto(a, "conventions")
  /\ UNCHANGED <<rowVars, ledger, conventions, described, promoted, pattern, match,
                 victim, policyVars, ask, edits, faults>>

\* get_active_conventions reads the 100 most frequent; we assume at most as many.
ReadConventions(a) ==
  /\ At(a, "conventions")
  /\ conventions' = [conventions EXCEPT ![a] = {Copy(d) : d \in Active}]
  /\ Goto(a, "match")
  /\ UNCHANGED <<rowVars, ledger, mergeVars, seen, scope, policyVars, ask, touched,
                 budgets>>

\* The rows of R closest to a text, if at least as close as the threshold.
Closest(t, R, threshold) ==
  {r \in R : /\ Similarity[t][r.text] >= threshold
             /\ \A q \in R : Similarity[t][q.text] <= Similarity[t][r.text]}

\* resolve_or_create_identity, after the descriptors of this run: the copies
\* whose identity the pattern may get ({None}: a new one; {}: ambiguous).
Identities(a, p) ==
  LET cached == {x \in described[a] : x.flag = p.flag /\ x.topic = p.topic}
      kin == {r \in scope[a] : r.flag = p.flag}
      sameEvidence == {r \in kin : r.source = p.source}
      sameMeaning == Closest(p.text, kin, 50)
  IN CASE cached # {} -> cached
       [] cached = {} /\ sameEvidence # {} -> sameEvidence
       [] cached = {} /\ sameEvidence = {} /\ sameMeaning = {} -> {None}
       [] OTHER -> IF Cardinality(sameMeaning) = 1 THEN sameMeaning ELSE {}

\* check_semantic_dedup: the conventions the text doubles, whose identity it
\* does not have; the longer text wins.
Doubles(a, p, r) == Closest(p.text, {c \in conventions[a] : c.id # IdOf(r)}, 66)
Longer(t, r) == Length[t] > Length[r.text]

\* What `matched_status` says, which is a copy's.
Write(a, r) == Goto(a, IF r # None /\ r.status = "obsolete" THEN "reactivate" ELSE "upsert")

Add(a) ==
  /\ At(a, "match")
  /\ \E p \in queue[a] : \E r \in Identities(a, p) :
       /\ Doubles(a, p, r) = {}
       /\ pattern' = [pattern EXCEPT ![a] = p]
       /\ match' = [match EXCEPT ![a] = r]
       /\ Write(a, r)
  /\ UNCHANGED <<rowVars, ledger, copyVars, queue, described, promoted, victim,
                 policyVars, ask, touched, budgets>>

AddLonger(a) ==
  /\ At(a, "match")
  /\ \E p \in queue[a] : \E r \in Identities(a, p) : \E c \in Doubles(a, p, r) :
       /\ Longer(p.text, c)
       /\ pattern' = [pattern EXCEPT ![a] = p]
       /\ match' = [match EXCEPT ![a] = r]
       /\ victim' = [victim EXCEPT ![a] = c.id]
  /\ Goto(a, "supersede")
  /\ UNCHANGED <<rowVars, ledger, copyVars, queue, described, promoted, policyVars, ask,
                 touched, budgets>>

\* SKIP, or an ambiguous identity.
Drop(a) ==
  /\ At(a, "match")
  /\ \E p \in queue[a] :
       /\ \/ Identities(a, p) = {}
          \/ \E r \in Identities(a, p) : \E c \in Doubles(a, p, r) : ~ Longer(p.text, c)
       /\ queue' = [queue EXCEPT ![a] = @ \ {p}]
  /\ UNCHANGED <<rowVars, ledger, pc, copyVars, described, promoted, pattern, match,
                 victim, policyVars, ask, touched, budgets>>

\* update_status, whatever the row says by now.
SetStatus(a, d, s) == status' = [status EXCEPT ![d] = s] /\ Touch(a, d)

Supersede(a) ==
  /\ At(a, "supersede")
  /\ SetStatus(a, victim[a], "superseded")
  /\ conventions' = [conventions EXCEPT ![a] = {r \in @ : r.id # victim[a]}]
  /\ scope' = [scope EXCEPT ![a] = {r \in @ : r.id # victim[a]}]
  /\ victim' = [victim EXCEPT ![a] = None]
  /\ Write(a, match[a])
  /\ UNCHANGED <<rows, text, flag, source, weight, miss, revisions, ledger, seen, queue,
                 described, promoted, pattern, match, policyVars, ask, budgets>>

\* The write fails; the aggregation goes on.
SupersedeFails(a) ==
  /\ At(a, "supersede") /\ faults < MaxFaults /\ faults' = faults + 1
  /\ victim' = [victim EXCEPT ![a] = None]
  /\ Write(a, match[a])
  /\ UNCHANGED <<rowVars, ledger, copyVars, queue, described, promoted, pattern, match,
                 policyVars, ask, touched, runs, edits>>

Reactivate(a) ==
  /\ At(a, "reactivate")
  /\ SetStatus(a, match[a].id, "active")
  /\ Goto(a, "upsert")
  /\ UNCHANGED <<rows, text, flag, source, weight, miss, revisions, ledger, copyVars,
                 mergeVars, policyVars, ask, budgets>>

\* The write fails; the pattern is given up.
ReactivateFails(a) ==
  /\ At(a, "reactivate") /\ faults < MaxFaults /\ faults' = faults + 1
  /\ queue' = [queue EXCEPT ![a] = @ \ {pattern[a]}]
  /\ pattern' = [pattern EXCEPT ![a] = None] /\ match' = [match EXCEPT ![a] = None]
  /\ Goto(a, "match")
  /\ UNCHANGED <<rowVars, ledger, copyVars, described, promoted, victim, policyVars, ask,
                 touched, runs, edits>>

\* ON CONFLICT DO UPDATE: instruction and sources change, the status does not.
UpsertOld(a) ==
  /\ At(a, "upsert") /\ match[a] # None
  /\ text' = [text EXCEPT ![match[a].id] = pattern[a].text]
  /\ source' = [source EXCEPT ![match[a].id] = pattern[a].source]
  /\ Touch(a, match[a].id)
  /\ Goto(a, "readback")
  /\ UNCHANGED <<rows, status, flag, weight, miss, revisions, ledger, copyVars,
                 mergeVars, policyVars, ask, budgets>>

\* Ids is a bound as well: without a free one we follow the aggregation no further.
UpsertNew(a) ==
  /\ At(a, "upsert") /\ match[a] = None
  /\ \E d \in Ids \ rows :
       /\ rows' = rows \cup {d}
       /\ status' = [status EXCEPT ![d] = "active"]
       /\ text' = [text EXCEPT ![d] = pattern[a].text]
       /\ flag' = [flag EXCEPT ![d] = pattern[a].flag]
       /\ source' = [source EXCEPT ![d] = pattern[a].source]
       /\ Touch(a, d)
       /\ match' = [match EXCEPT ![a] = [id |-> d, status |-> "active"]]
  /\ Goto(a, "readback")
  /\ UNCHANGED <<weight, miss, revisions, ledger, copyVars, queue, described, promoted,
                 pattern, victim, policyVars, ask, budgets>>

\* get_by_project_identity_key: the copies get what is stored by now.
ReadBack(a) ==
  LET d == match[a].id
      stored == Copy(d)
  IN /\ At(a, "readback")
     /\ promoted' = [promoted EXCEPT ![a] = @ \cup {d}]
     /\ scope' = [scope EXCEPT ![a] =
          {r \in @ : r.id # d} \cup IF \E r \in @ : r.id = d THEN {stored} ELSE {}]
     /\ described' = [described EXCEPT ![a] =
          {x \in @ : x.id # d} \cup
            {[id |-> d, status |-> status[d], flag |-> pattern[a].flag,
              topic |-> pattern[a].topic]}]
     /\ queue' = [queue EXCEPT ![a] = @ \ {pattern[a]}]
     /\ pattern' = [pattern EXCEPT ![a] = None] /\ match' = [match EXCEPT ![a] = None]
     /\ Goto(a, "match")
     /\ UNCHANGED <<rowVars, ledger, seen, conventions, victim, policyVars, ask, touched,
                    budgets>>

-----------------------------------------------------------------------------
(* The policy loop: every resolvable directive gets a new weight, miss     *)
(* streak and status, and may get a new instruction.                       *)

Less(m, n) == IF m >= n THEN m - n ELSE 0

\* Mutant: off by one at the cap.
StalledLate(r) == r.revisions > RevisionCap

\* evaluate_directive_policy_with_config, on the copy r.
Stalled(r) == r.revisions >= RevisionCap
Missed(r) == r.miss + 1
\* Mutant: no floor at 0.
DecayedUnfloored(r) == IF Missed(r) >= MissGrace THEN r.weight - DecayDelta ELSE r.weight

Decayed(r) == IF Missed(r) >= MissGrace THEN Less(r.weight, DecayDelta) ELSE r.weight
Policy(a, r) ==
  IF r.id \in promoted[a]
  THEN [status |-> "active", weight |-> Least(MaxWeight, r.weight + BoostDelta),
        miss |-> 0, revise |-> FALSE]
  ELSE IF r.flag \in seen[a]
  THEN [status |-> IF Stalled(r) THEN "stalled" ELSE r.status, weight |-> r.weight,
        miss |-> 0, revise |-> ~ Stalled(r)]
  ELSE [status |-> IF Decayed(r) < ObsoleteThreshold THEN "obsolete" ELSE r.status,
        weight |-> Decayed(r), miss |-> Missed(r), revise |-> FALSE]

\* list_for_identity_resolution, read again and once for the whole loop.  The
\* merge's copies have served.
ListForPolicy(a) ==
  /\ At(a, "match") /\ queue[a] = {}
  /\ todo' = [todo EXCEPT ![a] = {PolicyCopy(d) : d \in In(Resolvable)}]
  /\ scope' = [scope EXCEPT ![a] = {}] /\ conventions' = [conventions EXCEPT ![a] = {}]
  /\ described' = [described EXCEPT ![a] = {}]
  /\ Goto(a, "policy")
  /\ UNCHANGED <<rowVars, ledger, seen, queue, promoted, pattern, match, victim, item,
                 draft, index, surplus, ask, touched, budgets>>

\* update_policy_state, whatever the row says by now.
ApplyPolicy(a) ==
  /\ At(a, "policy")
  /\ \E r \in todo[a] :
       /\ todo' = [todo EXCEPT ![a] = @ \ {r}]
       /\ status' = [status EXCEPT ![r.id] = Policy(a, r).status]
       /\ weight' = [weight EXCEPT ![r.id] = Policy(a, r).weight]
       /\ miss' = [miss EXCEPT ![r.id] = Policy(a, r).miss]
       /\ Touch(a, r.id)
       /\ IF Policy(a, r).revise
          THEN item' = [item EXCEPT ![a] = r.id] /\ Goto(a, "refresh")
          ELSE UNCHANGED <<item, pc>>
  /\ UNCHANGED <<rows, text, flag, source, revisions, ledger, copyVars, mergeVars, draft,
                 index, surplus, ask, budgets>>

\* get_by_id
Refresh(a) ==
  /\ At(a, "refresh")
  /\ draft' = [draft EXCEPT ![a] = text[item[a]]]
  /\ Goto(a, "index")
  /\ UNCHANGED <<rowVars, ledger, copyVars, mergeVars, todo, item, index, surplus, ask,
                 touched, budgets>>

Revisions(d) == {e \in ledger : e.id = d}
NextIndex(d) == IF Revisions(d) = {} THEN 1
                ELSE (CHOOSE n \in {e.index : e \in Revisions(d)} :
                        \A e \in Revisions(d) : e.index <= n) + 1

ReadIndex(a) ==
  /\ At(a, "index")
  /\ index' = [index EXCEPT ![a] = NextIndex(item[a])]
  /\ Goto(a, "append")
  /\ UNCHANGED <<rowVars, ledger, copyVars, mergeVars, todo, item, draft, surplus, ask,
                 touched, budgets>>

HintOf(a) == Hint[flag[item[a]]]
Accepted(a) == HintOf(a) # None /\ HintOf(a) # draft[a]
\* Mutant: no unique index.
TakenNever(a) == a \notin Analyzers

Taken(a) == \E e \in Revisions(item[a]) : e.index = index[a]

NextRow(a) ==
  /\ item' = [item EXCEPT ![a] = None] /\ draft' = [draft EXCEPT ![a] = None]
  /\ index' = [index EXCEPT ![a] = 0]
  /\ Goto(a, "policy")

Append(a) ==
  /\ At(a, "append") /\ ~ Taken(a)
  /\ ledger' = ledger \cup {[id |-> item[a], index |-> index[a], accepted |-> Accepted(a)]}
  /\ IF Accepted(a) THEN Goto(a, "revise") /\ UNCHANGED <<item, draft, index>>
     ELSE NextRow(a)
  /\ UNCHANGED <<rowVars, copyVars, mergeVars, todo, surplus, ask, touched, budgets>>

\* apply_revision
Revise(a) ==
  /\ At(a, "revise")
  /\ text' = [text EXCEPT ![item[a]] = HintOf(a)]
  /\ revisions' = [revisions EXCEPT ![item[a]] = @ + 1]
  /\ Touch(a, item[a])
  /\ NextRow(a)
  /\ UNCHANGED <<rows, status, flag, source, weight, miss, ledger, copyVars, mergeVars,
                 todo, surplus, ask, budgets>>

-----------------------------------------------------------------------------
(* The ceiling, the end of an aggregation, and the users.                  *)

Ends(a) ==
  /\ Goto(a, "idle")
  /\ queue' = [queue EXCEPT ![a] = {}] /\ seen' = [seen EXCEPT ![a] = {}]
  /\ scope' = [scope EXCEPT ![a] = {}] /\ conventions' = [conventions EXCEPT ![a] = {}]
  /\ described' = [described EXCEPT ![a] = {}] /\ promoted' = [promoted EXCEPT ![a] = {}]
  /\ pattern' = [pattern EXCEPT ![a] = None] /\ match' = [match EXCEPT ![a] = None]
  /\ victim' = [victim EXCEPT ![a] = None] /\ todo' = [todo EXCEPT ![a] = {}]
  /\ item' = [item EXCEPT ![a] = None] /\ draft' = [draft EXCEPT ![a] = None]
  /\ index' = [index EXCEPT ![a] = 0] /\ surplus' = [surplus EXCEPT ![a] = {}]

Forget(a) == touched' = [touched EXCEPT ![a] = {}]

\* Mutant: sorted the other way round.
Heaviest(V) == \A v \in V, d \in Active \ V : weight[v] >= weight[d]

\* list_active_for_capacity: the lightest go, ties broken by age.
Lightest(V) == \A v \in V, d \in Active \ V : weight[v] <= weight[d]
ListForCapacity(a) ==
  /\ At(a, "policy") /\ todo[a] = {}
  /\ Cardinality(Active) > CapacityCeiling
  /\ \E V \in SUBSET Active :
       /\ Cardinality(V) = Cardinality(Active) - CapacityCeiling /\ Lightest(V)
       /\ surplus' = [surplus EXCEPT ![a] = V]
  /\ seen' = [seen EXCEPT ![a] = {}] /\ promoted' = [promoted EXCEPT ![a] = {}]
  /\ Goto(a, "obsolete")
  /\ UNCHANGED <<rowVars, ledger, scope, conventions, queue, described, pattern, match,
                 victim, todo, item, draft, index, ask, touched, budgets>>

BelowCapacity(a) ==
  /\ At(a, "policy") /\ todo[a] = {}
  /\ Cardinality(Active) <= CapacityCeiling
  /\ Ends(a) /\ Forget(a)
  /\ UNCHANGED <<rowVars, ledger, ask, budgets>>

\* update_status, whatever the row says by now.
Retire(a) ==
  /\ At(a, "obsolete")
  /\ \E d \in surplus[a] :
       /\ status' = [status EXCEPT ![d] = "obsolete"]
       /\ IF surplus[a] = {d}
          THEN Ends(a) /\ touched' = [Touched(a, d) EXCEPT ![a] = {}]
          ELSE /\ surplus' = [surplus EXCEPT ![a] = @ \ {d}]
               /\ Touch(a, d)
               /\ UNCHANGED <<pc, copyVars, mergeVars, todo, item, draft, index>>
  /\ UNCHANGED <<rows, text, flag, source, weight, miss, revisions, ledger, ask, budgets>>

\* UNIQUE(directive_id, revision_index): the aggregation raises.
AppendConflict(a) ==
  /\ At(a, "append") /\ Taken(a)
  /\ Ends(a) /\ Forget(a)
  /\ UNCHANGED <<rowVars, ledger, ask, budgets>>

\* A write fails elsewhere, or the process dies.
Abort(a) ==
  /\ pc[a] # "idle" /\ faults < MaxFaults /\ faults' = faults + 1
  /\ Ends(a) /\ Forget(a)
  /\ UNCHANGED <<rowVars, ledger, ask, runs, edits>>

\* compare_and_update_status, or the command's get_by_id and update_status:
\* the row is read outside the write's transaction.  Any row may be named.
AskFor(u) ==
  /\ ask[u] = None /\ edits < MaxEdits /\ edits' = edits + 1
  /\ \E d \in rows, to \in {"active", "disabled"} :
       status[d] # to /\ ask' = [ask EXCEPT ![u] = [id |-> d, to |-> to]]
  /\ UNCHANGED <<rowVars, ledger, pc, copyVars, mergeVars, policyVars, touched, runs,
                 faults>>

Patch(u) ==
  /\ ask[u] # None
  /\ SetStatus(None, ask[u].id, ask[u].to)
  /\ ask' = [ask EXCEPT ![u] = None]
  /\ UNCHANGED <<rows, text, flag, source, weight, miss, revisions, ledger, pc, copyVars,
                 mergeVars, policyVars, budgets>>

MergeStep(a) ==
  \/ Begin(a) \/ ReadConventions(a) \/ Add(a) \/ AddLonger(a) \/ Drop(a)
  \/ Supersede(a) \/ SupersedeFails(a) \/ Reactivate(a) \/ ReactivateFails(a)
  \/ UpsertOld(a) \/ UpsertNew(a) \/ ReadBack(a)

PolicyStep(a) ==
  \/ ListForPolicy(a) \/ ApplyPolicy(a) \/ Refresh(a) \/ ReadIndex(a) \/ Append(a)
  \/ AppendConflict(a) \/ Revise(a) \/ ListForCapacity(a) \/ BelowCapacity(a)
  \/ Retire(a) \/ Abort(a)

UserStep(u) == AskFor(u) \/ Patch(u)

Next ==
  \/ \E a \in Analyzers : MergeStep(a) \/ PolicyStep(a)
  \/ \E u \in Users : UserStep(u)

Spec == Init /\ [][Next]_vars

-----------------------------------------------------------------------------
(* Properties *)

Acts(a) == <<pc[a], queue[a], todo[a], surplus[a]>>' # <<pc[a], queue[a], todo[a], surplus[a]>>

\* VALID_TRANSITIONS
ValidTransitions ==
  {<<"active", s>> : s \in Statuses} \cup
  {<<s, "active">> : s \in {"disabled", "obsolete", "stalled"}}

\* "Terminal for analyzer - only user can re-enable" (lifecycle.py): disabling and
\* enabling are the user's.  The policy goes between obsolete and stalled, which
\* VALID_TRANSITIONS lacks.
AnalyzerTransitions ==
  {t \in ValidTransitions : t[1] # "disabled" /\ t[2] # "disabled"} \cup
  {<<"obsolete", "stalled">>, <<"stalled", "obsolete">>}

\* An aggregation keeps to its part of the lifecycle of lifecycle.py on every
\* directive no one else wrote since it read it: it leaves a disabled or superseded
\* one alone whatever it decided from its copies (aggregator.py, Step 3).
AnalyzerDefers ==
  [][\A a \in Analyzers, d \in rows :
       (Acts(a) /\ d \notin touched[a] /\ status'[d] # status[d]) =>
          <<status[d], status'[d]>> \in AnalyzerTransitions]_vars

\* An aggregation nobody disturbed ends with at most capacity_ceiling active
\* conventions, and has retired none that is heavier than one it kept.
CeilingMet ==
  [][\A a \in Analyzers :
       (Acts(a) /\ touched[a] = {}) =>
         /\ (pc[a] \in {"policy", "obsolete"} /\ pc'[a] = "idle" /\ faults' = faults) =>
              Cardinality(Active') <= CapacityCeiling
         /\ pc[a] = "obsolete" /\ faults' = faults =>
              \A d \in Active \ Active', e \in Active \ surplus[a] : weight[d] <= weight[e]]_vars

\* The ledger tells of every accepted revision: the indexes of a directive have
\* no gap though two processes draw them, and its revision_count falls short of
\* its accepted entries only by revisions under way and aggregations cut off
\* between the two writes.
AcceptedOf(d) == {e \in Revisions(d) : e.accepted}
Revising(d) == {a \in Analyzers : At(a, "revise") /\ item[a] = d}
LedgerMatches ==
  \A d \in rows :
    /\ {e.index : e \in Revisions(d)} = 1..Cardinality(Revisions(d))
    /\ revisions[d] + Cardinality(Revising(d)) <= Cardinality(AcceptedOf(d))
    /\ Cardinality(AcceptedOf(d)) <= revisions[d] + Cardinality(Revising(d)) + faults

\* revision_cap is looked up in a copy: an aggregation revises no directive past
\* it that no one else wrote meanwhile, and each other one may pass it once.
CapNearlyHolds ==
  [][\A a \in Analyzers, d \in rows :
       (Acts(a) /\ revisions'[d] # revisions[d]) =>
         revisions'[d] <= IF d \in touched[a] THEN RevisionCap + Cardinality(Analyzers) - 1
                          ELSE RevisionCap]_vars

\* lifecycle.py: a disabled directive is "terminal for analyzer - only user can
\* re-enable".
DisabledIsFirm ==
  [][\A a \in Analyzers, d \in rows :
       (Acts(a) /\ status[d] = "disabled") => status'[d] = "disabled"]_vars

===============================================================================
