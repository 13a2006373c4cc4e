----------------------- MODULE DirectiveLifecycle_proofs -----------------------
(***************************************************************************)
(* Proofs about DirectiveLifecycle, for any patterns, similarity, policy   *)
(* parameters, and any number of aggregations, users and directives.       *)
(*                                                                         *)
(* What an aggregation knows is local to it: Local(a) holds of every       *)
(* aggregation, a step of one preserves it for that one, and is Quiet for  *)
(* every other, of which it changes only rows that are then touched.       *)
(***************************************************************************)
EXTENDS DirectiveLifecycle, FiniteSetTheorems, TLAPS

-----------------------------------------------------------------------------
\* The inductive invariant

\* Which functions the variables are; ids are of rows that stay.
Shape ==
  /\ rows \subseteq Ids /\ DOMAIN status = Ids /\ DOMAIN weight = Ids /\ faults \in Nat
  /\ DOMAIN pc = Analyzers /\ DOMAIN touched = Analyzers
  /\ DOMAIN queue = Analyzers /\ DOMAIN scope = Analyzers /\ DOMAIN conventions = Analyzers
  /\ DOMAIN described = Analyzers /\ DOMAIN match = Analyzers /\ DOMAIN victim = Analyzers
  /\ DOMAIN todo = Analyzers /\ DOMAIN surplus = Analyzers /\ DOMAIN item = Analyzers
  /\ revisions \in [Ids -> Nat]

MergeSteps == {"conventions", "match", "supersede", "reactivate", "upsert", "readback"}
PolicySteps == {"policy", "refresh", "index", "append", "revise"}

\* What an aggregation holds at which of its steps.
Phase(a) ==
  /\ pc[a] \notin MergeSteps => scope[a] = {} /\ conventions[a] = {} /\ described[a] = {}
  /\ pc[a] \notin PolicySteps => todo[a] = {}
  /\ pc[a] # "obsolete" => surplus[a] = {}

\* Copies are of rows.
Known(a) ==
  /\ \A r \in scope[a] \cup conventions[a] \cup described[a] \cup todo[a] : r.id \in rows
  /\ surplus[a] \subseteq rows
  /\ pc[a] = "supersede" => victim[a] \in rows
  /\ pc[a] \in {"supersede", "reactivate", "upsert", "readback"} /\ match[a] # None => match[a].id \in rows
  /\ pc[a] = "reactivate" => match[a] # None /\ match[a].status = "obsolete"
  /\ pc[a] = "readback" => match[a].id \in rows

\* The row at hand was written and is not read back yet.
Written(a, d) == pc[a] \in {"upsert", "readback"} /\ match[a] # None /\ match[a].id = d

\* A copy of a row that no one else wrote says what the row says.
Fresh(a) ==
  /\ \A r \in scope[a] : r.id \notin touched[a] /\ ~Written(a, r.id) => r.status = status[r.id]
  /\ \A r \in conventions[a] : r.id \notin touched[a] => status[r.id] = "active"
  /\ \A x \in described[a] : x.id \notin touched[a] => x.status # "obsolete" /\ status[x.id] # "obsolete"
  /\ \A r \in todo[a] : r.id \notin touched[a] => r.status = status[r.id]
  /\ \A r \in todo[a] : r.status \in Resolvable
  /\ \A r, q \in todo[a] : r.id = q.id => r = q
  /\ \A d \in surplus[a] : d \notin touched[a] => status[d] = "active"

\* So do the rows at hand; a matched row that is written is no longer obsolete.
Hand(a) ==
  /\ pc[a] = "supersede" /\ victim[a] \notin touched[a] => status[victim[a]] = "active"
  /\ pc[a] = "supersede" /\ match[a] # None => victim[a] # match[a].id
  /\ pc[a] \in {"supersede", "reactivate"} /\ match[a] # None /\ match[a].id \notin touched[a]
       => (match[a].status = "obsolete" <=> status[match[a].id] = "obsolete")
  /\ pc[a] = "upsert" /\ match[a] # None /\ match[a].id \notin touched[a] => status[match[a].id] # "obsolete"
  /\ pc[a] = "readback" /\ match[a].id \notin touched[a] => status[match[a].id] # "obsolete"

\* What an undisturbed aggregation has still to retire is what exceeds the ceiling, the lightest.
Excess(a) ==
  touched[a] = {} /\ pc[a] = "obsolete" =>
    /\ surplus[a] \subseteq Active
    /\ Cardinality(Active \ surplus[a]) <= CapacityCeiling
    /\ \A v \in surplus[a], d \in Active \ surplus[a] : weight[v] <= weight[d]

\* The steps that revise the row at hand.
RevisionSteps == {"refresh", "index", "append", "revise"}

\* The policy's copies count the revisions of a row that no one else wrote; the row at hand has some left.
Stock(a) ==
  /\ \A r \in todo[a] : r.revisions \in Nat /\ (r.id \notin touched[a] => r.revisions = revisions[r.id])
  /\ pc[a] \in RevisionSteps =>
       /\ item[a] \in rows /\ \A r \in todo[a] : r.id # item[a]
       /\ item[a] \notin touched[a] => revisions[item[a]] < RevisionCap

Local(a) == Phase(a) /\ Known(a) /\ Fresh(a) /\ Hand(a) /\ Excess(a) /\ Stock(a)

\* What a has read lets it revise d.
May(a, d) ==
  \/ \E r \in todo[a] : r.id = d /\ r.revisions < RevisionCap
  \/ pc[a] \in RevisionSteps /\ item[a] = d

Pending(d) == {a \in Analyzers : May(a, d)}

\* At the cap, whoever may still revise a directive read it before it got there; not all did.
Capped ==
  \A d \in Ids : revisions[d] >= RevisionCap /\ Pending(d) # {} =>
    revisions[d] + Cardinality(Pending(d)) <= RevisionCap + Cardinality(Analyzers) - 1

IInv == Shape /\ (\A a \in Analyzers : Local(a)) /\ Capped

-----------------------------------------------------------------------------
\* Steps of others

\* A step leaves a's variables alone, and changes rows only if that is recorded for it.
Quiet(a) ==
  /\ pc'[a] = pc[a] /\ queue'[a] = queue[a] /\ scope'[a] = scope[a] /\ conventions'[a] = conventions[a]
  /\ described'[a] = described[a] /\ match'[a] = match[a] /\ victim'[a] = victim[a]
  /\ todo'[a] = todo[a] /\ surplus'[a] = surplus[a] /\ item'[a] = item[a]
  /\ rows \subseteq rows' /\ touched[a] \subseteq touched'[a]
  /\ \A d \in Ids : status'[d] # status[d] \/ revisions'[d] # revisions[d] => pc[a] = "idle" \/ d \in touched'[a]
  /\ pc[a] # "idle" /\ touched'[a] = {} => rows' = rows /\ status' = status /\ weight' = weight

\* A quiet step preserves what is local to a.
LEMMA QuietStep == ASSUME Shape, NEW a \in Analyzers, Local(a), Quiet(a) PROVE Local(a)'
<1> USE DEF Local, Quiet, Shape
<1>1. Phase(a)'
  BY DEF Phase
<1>2. Known(a)'
  BY DEF Known
<1>3. Fresh(a)'
  <2>0. pc[a] = "idle" => scope[a] = {} /\ conventions[a] = {} /\ described[a] = {} /\ todo[a] = {} /\ surplus[a] = {}
    BY DEF Phase, MergeSteps, PolicySteps
  <2>1. \A d \in rows : pc[a] # "idle" /\ d \notin touched'[a] => status'[d] = status[d] /\ d \notin touched[a]
    OBVIOUS
  <2> QED
    BY <2>0, <2>1 DEF Fresh, Known, Written
<1>4. Hand(a)'
  BY DEF Hand, Known
<1>5. Excess(a)'
  BY DEF Excess, Active, In
<1>6. Stock(a)'
  BY DEF Stock, Known, Phase, PolicySteps, RevisionSteps
<1> QED
  BY <1>1, <1>2, <1>3, <1>4, <1>5, <1>6

-----------------------------------------------------------------------------
\* What a reads

\* The identity of a pattern is new or that of a copy.
LEMMA IdentityOf ==
  \A a, p : \A r \in Identities(a, p) : r = None \/ r \in described[a] \/ r \in scope[a]
  BY DEF Identities, Closest

\* A pattern doubles conventions of another identity.
LEMMA DoubleOf ==
  \A a, p, r : \A c \in Doubles(a, p, r) : c \in conventions[a] /\ (r # None => c.id # r.id)
  BY DEF Doubles, Closest, IdOf

\* The policy moves a directive within its lifecycle.
LEMMA PolicyMoves ==
  \A a, r : r.status \in Resolvable =>
     /\ Policy(a, r).status \in {"active", "stalled", "obsolete"}
     /\ Policy(a, r).status # r.status => <<r.status, Policy(a, r).status>> \in AnalyzerTransitions
  BY DEF Policy, Resolvable, AnalyzerTransitions, ValidTransitions, Statuses

\* It revises only below the cap.
LEMMA PolicyRevises ==
  ASSUME NEW a, NEW r, r.revisions \in Nat, Policy(a, r).revise PROVE r.revisions < RevisionCap
<1>1. RevisionCap \in Nat
  BY PolicyAssumption
<1>2. ~Stalled(r)
  BY DEF Policy
<1> QED
  BY <1>1, <1>2 DEF Stalled

\* Another aggregation's write is recorded for all that run.
LEMMA TouchedOthers ==
  ASSUME Shape, NEW a, NEW d
  PROVE  \A b \in Analyzers : /\ touched[b] \subseteq Touched(a, d)[b]
                              /\ b # a /\ pc[b] # "idle" => d \in Touched(a, d)[b]
                              /\ b = a => Touched(a, d)[b] = touched[b]
  BY DEF Touched, Shape

\* A step leaves all of an aggregation alone but what is recorded for it.
Framed(a) ==
  /\ pc'[a] = pc[a] /\ queue'[a] = queue[a] /\ scope'[a] = scope[a] /\ conventions'[a] = conventions[a]
  /\ described'[a] = described[a] /\ match'[a] = match[a] /\ victim'[a] = victim[a]
  /\ todo'[a] = todo[a] /\ surplus'[a] = surplus[a] /\ item'[a] = item[a]
  /\ rows' = rows /\ weight' = weight /\ revisions' = revisions

\* A write of one row that is recorded is quiet.
LEMMA Recorded ==
  ASSUME NEW a, NEW d, Framed(a), touched[a] \subseteq touched'[a], pc[a] # "idle" => d \in touched'[a],
         \A e \in Ids : status'[e] # status[e] => e = d
  PROVE  Quiet(a)
  BY DEF Framed, Quiet

\* How many are left of a set.
LEMMA Remainder ==
  ASSUME NEW S, IsFiniteSet(S), NEW V \in SUBSET S
  PROVE  Cardinality(S \ V) = Cardinality(S) - Cardinality(V)
<1>1. S \cap V = V
  OBVIOUS
<1> QED
  BY <1>1, FS_Difference

\* A step of a defers, and it keeps to the ceiling.
Defers(a) ==
  \A d \in rows : d \notin touched[a] /\ status'[d] # status[d] => <<status[d], status'[d]>> \in AnalyzerTransitions
Meets(a) ==
  touched[a] = {} =>
    /\ (pc[a] \in {"policy", "obsolete"} /\ pc'[a] = "idle" /\ faults' = faults) =>
         Cardinality(Active') <= CapacityCeiling
    /\ pc[a] = "obsolete" /\ faults' = faults =>
         \A d \in Active \ Active', e \in Active \ surplus[a] : weight[d] <= weight[e]

\* A step of a revises what it had at hand, once, or gives it leave to revise what is below the cap.
Spends(a) ==
  /\ \A d \in Ids : revisions'[d] # revisions[d]
                      => pc[a] = "revise" /\ item[a] = d /\ revisions'[d] = revisions[d] + 1 /\ ~May(a, d)'
  /\ \A d \in Ids : May(a, d)' => May(a, d) \/ revisions[d] < RevisionCap

\* What is proved of every step of an aggregation.
Good(a) ==
  /\ Shape' /\ Local(a)' /\ \A b \in Analyzers \ {a} : Quiet(b)
  /\ Defers(a) /\ Meets(a) /\ Spends(a)

-----------------------------------------------------------------------------
\* Steps of an aggregation

\* The aggregation's copies are what the rows say.
LEMMA BeginStep == ASSUME Shape, NEW a \in Analyzers, Local(a), Begin(a) PROVE Good(a)
<1> USE DEF Begin, Copy, In, Resolvable, rowVars, copyVars, mergeVars, policyVars, budgets, Goto, At
<1>1. Shape'
  BY DEF Shape, Touched
<1>2. \A b \in Analyzers \ {a} : Quiet(b)
  BY DEF Shape, Quiet
<1>3. Phase(a)'
  BY DEF Shape, Local, Phase, MergeSteps, PolicySteps
<1>4. Known(a)'
  BY DEF Shape, Local, Known, Phase, MergeSteps, PolicySteps
<1>5. Fresh(a)'
  BY DEF Shape, Local, Fresh, Hand, Known, Phase, Written, MergeSteps, PolicySteps
<1>6. Hand(a)'
  BY DEF Shape, Local, Fresh, Hand, Known, Written
<1>7. Excess(a)'
  BY DEF Shape, Local, Excess, Active, In, Known
<1>8. Defers(a)
  BY DEF Shape, Defers, AnalyzerTransitions, ValidTransitions, Statuses, Local, Fresh, Hand, Known
<1>9. Meets(a)
  BY DEF Shape, Meets, Local, Excess, Active, In
<1>10. Stock(a)'
  BY DEF Shape, Local, Stock, Phase, Known, Fresh, PolicySteps, RevisionSteps
<1>11. Spends(a)
  BY DEF Shape, Local, Spends, May, Stock, Phase, PolicySteps, RevisionSteps
<1> QED
  BY <1>1, <1>2, <1>3, <1>4, <1>5, <1>6, <1>7, <1>8, <1>9, <1>10, <1>11 DEF Good, Local

\* The conventions are active.
LEMMA ReadConventionsStep == ASSUME Shape, NEW a \in Analyzers, Local(a), ReadConventions(a) PROVE Good(a)
<1> USE DEF ReadConventions, Copy, Active, In, rowVars, copyVars, mergeVars, policyVars, budgets, Goto, At
<1>1. Shape'
  BY DEF Shape, Touched
<1>2. \A b \in Analyzers \ {a} : Quiet(b)
  BY DEF Shape, Quiet
<1>3. Phase(a)'
  BY DEF Shape, Local, Phase, MergeSteps, PolicySteps
<1>4. Known(a)'
  BY DEF Shape, Local, Known, Phase, MergeSteps, PolicySteps
<1>5. Fresh(a)'
  BY DEF Shape, Local, Fresh, Hand, Known, Phase, Written, MergeSteps, PolicySteps
<1>6. Hand(a)'
  BY DEF Shape, Local, Fresh, Hand, Known, Written
<1>7. Excess(a)'
  BY DEF Shape, Local, Excess, Active, In, Known
<1>8. Defers(a)
  BY DEF Shape, Defers, AnalyzerTransitions, ValidTransitions, Statuses, Local, Fresh, Hand, Known
<1>9. Meets(a)
  BY DEF Shape, Meets, Local, Excess, Active, In
<1>10. Stock(a)'
  BY DEF Shape, Local, Stock, Phase, Known, Fresh, PolicySteps, RevisionSteps
<1>11. Spends(a)
  BY DEF Shape, Local, Spends, May, Stock, Phase, PolicySteps, RevisionSteps
<1> QED
  BY <1>1, <1>2, <1>3, <1>4, <1>5, <1>6, <1>7, <1>8, <1>9, <1>10, <1>11 DEF Good, Local

\* The pattern's identity is a copy's, and its status decides.
LEMMA AddStep == ASSUME Shape, NEW a \in Analyzers, Local(a), Add(a) PROVE Good(a)
<1> USE DEF Add, Write, rowVars, copyVars, mergeVars, policyVars, budgets, Goto, At
<1>1. Shape'
  BY IdentityOf DEF Shape, Touched
<1>2. \A b \in Analyzers \ {a} : Quiet(b)
  BY IdentityOf DEF Shape, Quiet
<1>3. Phase(a)'
  BY IdentityOf DEF Shape, Local, Phase, MergeSteps, PolicySteps
<1>4. Known(a)'
  BY IdentityOf DEF Shape, Local, Known, Phase, MergeSteps, PolicySteps
<1>5. Fresh(a)'
  BY IdentityOf DEF Shape, Local, Fresh, Hand, Known, Phase, Written, MergeSteps, PolicySteps
<1>6. Hand(a)'
  BY IdentityOf DEF Shape, Local, Fresh, Hand, Known, Written
<1>7. Excess(a)'
  BY IdentityOf DEF Shape, Local, Excess, Active, In, Known
<1>8. Defers(a)
  BY IdentityOf DEF Shape, Defers, AnalyzerTransitions, ValidTransitions, Statuses, Local, Fresh, Hand, Known
<1>9. Meets(a)
  BY IdentityOf DEF Shape, Meets, Local, Excess, Active, In
<1>10. Stock(a)'
  BY IdentityOf DEF Shape, Local, Stock, Phase, Known, Fresh, PolicySteps, RevisionSteps
<1>11. Spends(a)
  BY IdentityOf DEF Shape, Local, Spends, May, Stock, Phase, PolicySteps, RevisionSteps
<1> QED
  BY <1>1, <1>2, <1>3, <1>4, <1>5, <1>6, <1>7, <1>8, <1>9, <1>10, <1>11 DEF Good, Local

\* So is the convention that goes.
LEMMA AddLongerStep == ASSUME Shape, NEW a \in Analyzers, Local(a), AddLonger(a) PROVE Good(a)
<1> USE DEF AddLonger, rowVars, copyVars, mergeVars, policyVars, budgets, Goto, At
<1>1. Shape'
  BY IdentityOf, DoubleOf DEF Shape, Touched
<1>2. \A b \in Analyzers \ {a} : Quiet(b)
  BY IdentityOf, DoubleOf DEF Shape, Quiet
<1>3. Phase(a)'
  BY IdentityOf, DoubleOf DEF Shape, Local, Phase, MergeSteps, PolicySteps
<1>4. Known(a)'
  BY IdentityOf, DoubleOf DEF Shape, Local, Known, Phase, MergeSteps, PolicySteps
<1>5. Fresh(a)'
  BY IdentityOf, DoubleOf DEF Shape, Local, Fresh, Hand, Known, Phase, Written, MergeSteps, PolicySteps
<1>6. Hand(a)'
  BY IdentityOf, DoubleOf DEF Shape, Local, Fresh, Hand, Known, Written
<1>7. Excess(a)'
  BY IdentityOf, DoubleOf DEF Shape, Local, Excess, Active, In, Known
<1>8. Defers(a)
  BY IdentityOf, DoubleOf DEF Shape, Defers, AnalyzerTransitions, ValidTransitions, Statuses, Local, Fresh, Hand, Known
<1>9. Meets(a)
  BY IdentityOf, DoubleOf DEF Shape, Meets, Local, Excess, Active, In
<1>10. Stock(a)'
  BY IdentityOf, DoubleOf DEF Shape, Local, Stock, Phase, Known, Fresh, PolicySteps, RevisionSteps
<1>11. Spends(a)
  BY IdentityOf, DoubleOf DEF Shape, Local, Spends, May, Stock, Phase, PolicySteps, RevisionSteps
<1> QED
  BY <1>1, <1>2, <1>3, <1>4, <1>5, <1>6, <1>7, <1>8, <1>9, <1>10, <1>11 DEF Good, Local

\* A pattern is left out.
LEMMA DropStep == ASSUME Shape, NEW a \in Analyzers, Local(a), Drop(a) PROVE Good(a)
<1> USE DEF Drop, rowVars, copyVars, mergeVars, policyVars, budgets, Goto, At
<1>1. Shape'
  BY DEF Shape, Touched
<1>2. \A b \in Analyzers \ {a} : Quiet(b)
  BY DEF Shape, Quiet
<1>3. Phase(a)'
  BY DEF Shape, Local, Phase, MergeSteps, PolicySteps
<1>4. Known(a)'
  BY DEF Shape, Local, Known, Phase, MergeSteps, PolicySteps
<1>5. Fresh(a)'
  BY DEF Shape, Local, Fresh, Hand, Known, Phase, Written, MergeSteps, PolicySteps
<1>6. Hand(a)'
  BY DEF Shape, Local, Fresh, Hand, Known, Written
<1>7. Excess(a)'
  BY DEF Shape, Local, Excess, Active, In, Known
<1>8. Defers(a)
  BY DEF Shape, Defers, AnalyzerTransitions, ValidTransitions, Statuses, Local, Fresh, Hand, Known
<1>9. Meets(a)
  BY DEF Shape, Meets, Local, Excess, Active, In
<1>10. Stock(a)'
  BY DEF Shape, Local, Stock, Phase, Known, Fresh, PolicySteps, RevisionSteps
<1>11. Spends(a)
  BY DEF Shape, Local, Spends, May, Stock, Phase, PolicySteps, RevisionSteps
<1> QED
  BY <1>1, <1>2, <1>3, <1>4, <1>5, <1>6, <1>7, <1>8, <1>9, <1>10, <1>11 DEF Good, Local

\* A convention goes.
LEMMA SupersedeStep == ASSUME Shape, NEW a \in Analyzers, Local(a), Supersede(a) PROVE Good(a)
<1> USE DEF Supersede, SetStatus, Touch, Write, rowVars, copyVars, mergeVars, policyVars, budgets, Goto, At
<1>1. Shape'
  BY TouchedOthers DEF Shape, Touched
<1>2. \A b \in Analyzers \ {a} : Quiet(b)
  BY TouchedOthers DEF Shape, Quiet
<1>3. Phase(a)'
  BY TouchedOthers DEF Shape, Local, Phase, MergeSteps, PolicySteps
<1>4. Known(a)'
  BY TouchedOthers DEF Shape, Local, Known, Phase, MergeSteps, PolicySteps
<1>5. Fresh(a)'
  BY TouchedOthers DEF Shape, Local, Fresh, Hand, Known, Phase, Written, MergeSteps, PolicySteps
<1>6. Hand(a)'
  BY TouchedOthers DEF Shape, Local, Fresh, Hand, Known, Written
<1>7. Excess(a)'
  BY TouchedOthers DEF Shape, Local, Excess, Active, In, Known
<1>8. Defers(a)
  BY TouchedOthers DEF Shape, Defers, AnalyzerTransitions, ValidTransitions, Statuses, Local, Fresh, Hand, Known
<1>9. Meets(a)
  BY TouchedOthers DEF Shape, Meets, Local, Excess, Active, In
<1>10. Stock(a)'
  BY TouchedOthers DEF Shape, Local, Stock, Phase, Known, Fresh, PolicySteps, RevisionSteps
<1>11. Spends(a)
  BY TouchedOthers DEF Shape, Local, Spends, May, Stock, Phase, PolicySteps, RevisionSteps
<1> QED
  BY <1>1, <1>2, <1>3, <1>4, <1>5, <1>6, <1>7, <1>8, <1>9, <1>10, <1>11 DEF Good, Local

\* It does not go.
LEMMA SupersedeFailsStep == ASSUME Shape, NEW a \in Analyzers, Local(a), SupersedeFails(a) PROVE Good(a)
<1> USE DEF SupersedeFails, Write, rowVars, copyVars, mergeVars, policyVars, budgets, Goto, At
<1>1. Shape'
  BY DEF Shape, Touched
<1>2. \A b \in Analyzers \ {a} : Quiet(b)
  BY DEF Shape, Quiet
<1>3. Phase(a)'
  BY DEF Shape, Local, Phase, MergeSteps, PolicySteps
<1>4. Known(a)'
  BY DEF Shape, Local, Known, Phase, MergeSteps, PolicySteps
<1>5. Fresh(a)'
  BY DEF Shape, Local, Fresh, Hand, Known, Phase, Written, MergeSteps, PolicySteps
<1>6. Hand(a)'
  BY DEF Shape, Local, Fresh, Hand, Known, Written
<1>7. Excess(a)'
  BY DEF Shape, Local, Excess, Active, In, Known
<1>8. Defers(a)
  BY DEF Shape, Defers, AnalyzerTransitions, ValidTransitions, Statuses, Local, Fresh, Hand, Known
<1>9. Meets(a)
  BY DEF Shape, Meets, Local, Excess, Active, In
<1>10. Stock(a)'
  BY DEF Shape, Local, Stock, Phase, Known, Fresh, PolicySteps, RevisionSteps
<1>11. Spends(a)
  BY DEF Shape, Local, Spends, May, Stock, Phase, PolicySteps, RevisionSteps
<1> QED
  BY <1>1, <1>2, <1>3, <1>4, <1>5, <1>6, <1>7, <1>8, <1>9, <1>10, <1>11 DEF Good, Local

\* An obsolete directive is active again.
LEMMA ReactivateStep == ASSUME Shape, NEW a \in Analyzers, Local(a), Reactivate(a) PROVE Good(a)
<1> USE DEF Reactivate, SetStatus, Touch, rowVars, copyVars, mergeVars, policyVars, budgets, Goto, At
<1>1. Shape'
  BY TouchedOthers DEF Shape, Touched
<1>2. \A b \in Analyzers \ {a} : Quiet(b)
  BY TouchedOthers DEF Shape, Quiet
<1>3. Phase(a)'
  BY TouchedOthers DEF Shape, Local, Phase, MergeSteps, PolicySteps
<1>4. Known(a)'
  BY TouchedOthers DEF Shape, Local, Known, Phase, MergeSteps, PolicySteps
<1>5. Fresh(a)'
  BY TouchedOthers DEF Shape, Local, Fresh, Hand, Known, Phase, Written, MergeSteps, PolicySteps
<1>6. Hand(a)'
  BY TouchedOthers DEF Shape, Local, Fresh, Hand, Known, Written
<1>7. Excess(a)'
  BY TouchedOthers DEF Shape, Local, Excess, Active, In, Known
<1>8. Defers(a)
  BY TouchedOthers DEF Shape, Defers, AnalyzerTransitions, ValidTransitions, Statuses, Local, Fresh, Hand, Known
<1>9. Meets(a)
  BY TouchedOthers DEF Shape, Meets, Local, Excess, Active, In
<1>10. Stock(a)'
  BY TouchedOthers DEF Shape, Local, Stock, Phase, Known, Fresh, PolicySteps, RevisionSteps
<1>11. Spends(a)
  BY TouchedOthers DEF Shape, Local, Spends, May, Stock, Phase, PolicySteps, RevisionSteps
<1> QED
  BY <1>1, <1>2, <1>3, <1>4, <1>5, <1>6, <1>7, <1>8, <1>9, <1>10, <1>11 DEF Good, Local

\* It is not.
LEMMA ReactivateFailsStep == ASSUME Shape, NEW a \in Analyzers, Local(a), ReactivateFails(a) PROVE Good(a)
<1> USE DEF ReactivateFails, rowVars, copyVars, mergeVars, policyVars, budgets, Goto, At
<1>1. Shape'
  BY DEF Shape, Touched
<1>2. \A b \in Analyzers \ {a} : Quiet(b)
  BY DEF Shape, Quiet
<1>3. Phase(a)'
  BY DEF Shape, Local, Phase, MergeSteps, PolicySteps
<1>4. Known(a)'
  BY DEF Shape, Local, Known, Phase, MergeSteps, PolicySteps
<1>5. Fresh(a)'
  BY DEF Shape, Local, Fresh, Hand, Known, Phase, Written, MergeSteps, PolicySteps
<1>6. Hand(a)'
  BY DEF Shape, Local, Fresh, Hand, Known, Written
<1>7. Excess(a)'
  BY DEF Shape, Local, Excess, Active, In, Known
<1>8. Defers(a)
  BY DEF Shape, Defers, AnalyzerTransitions, ValidTransitions, Statuses, Local, Fresh, Hand, Known
<1>9. Meets(a)
  BY DEF Shape, Meets, Local, Excess, Active, In
<1>10. Stock(a)'
  BY DEF Shape, Local, Stock, Phase, Known, Fresh, PolicySteps, RevisionSteps
<1>11. Spends(a)
  BY DEF Shape, Local, Spends, May, Stock, Phase, PolicySteps, RevisionSteps
<1> QED
  BY <1>1, <1>2, <1>3, <1>4, <1>5, <1>6, <1>7, <1>8, <1>9, <1>10, <1>11 DEF Good, Local

\* The matched row is rewritten; its status stays.
LEMMA UpsertOldStep == ASSUME Shape, NEW a \in Analyzers, Local(a), UpsertOld(a) PROVE Good(a)
<1> USE DEF UpsertOld, Touch, rowVars, copyVars, mergeVars, policyVars, budgets, Goto, At
<1>1. Shape'
  BY TouchedOthers DEF Shape, Touched
<1>2. \A b \in Analyzers \ {a} : Quiet(b)
  BY TouchedOthers DEF Shape, Quiet
<1>3. Phase(a)'
  BY TouchedOthers DEF Shape, Local, Phase, MergeSteps, PolicySteps
<1>4. Known(a)'
  BY TouchedOthers DEF Shape, Local, Known, Phase, MergeSteps, PolicySteps
<1>5. Fresh(a)'
  BY TouchedOthers DEF Shape, Local, Fresh, Hand, Known, Phase, Written, MergeSteps, PolicySteps
<1>6. Hand(a)'
  BY TouchedOthers DEF Shape, Local, Fresh, Hand, Known, Written
<1>7. Excess(a)'
  BY TouchedOthers DEF Shape, Local, Excess, Active, In, Known
<1>8. Defers(a)
  BY TouchedOthers DEF Shape, Defers, AnalyzerTransitions, ValidTransitions, Statuses, Local, Fresh, Hand, Known
<1>9. Meets(a)
  BY TouchedOthers DEF Shape, Meets, Local, Excess, Active, In
<1>10. Stock(a)'
  BY TouchedOthers DEF Shape, Local, Stock, Phase, Known, Fresh, PolicySteps, RevisionSteps
<1>11. Spends(a)
  BY TouchedOthers DEF Shape, Local, Spends, May, Stock, Phase, PolicySteps, RevisionSteps
<1> QED
  BY <1>1, <1>2, <1>3, <1>4, <1>5, <1>6, <1>7, <1>8, <1>9, <1>10, <1>11 DEF Good, Local

\* A new row.
LEMMA UpsertNewStep == ASSUME Shape, NEW a \in Analyzers, Local(a), UpsertNew(a) PROVE Good(a)
<1> USE DEF UpsertNew, Touch, rowVars, copyVars, mergeVars, policyVars, budgets, Goto, At
<1>1. Shape'
  BY TouchedOthers DEF Shape, Touched
<1>2. \A b \in Analyzers \ {a} : Quiet(b)
  BY TouchedOthers DEF Shape, Quiet
<1>3. Phase(a)'
  BY TouchedOthers DEF Shape, Local, Phase, MergeSteps, PolicySteps
<1>4. Known(a)'
  BY TouchedOthers DEF Shape, Local, Known, Phase, MergeSteps, PolicySteps
<1>5. Fresh(a)'
  BY TouchedOthers DEF Shape, Local, Fresh, Hand, Known, Phase, Written, MergeSteps, PolicySteps
<1>6. Hand(a)'
  BY TouchedOthers DEF Shape, Local, Fresh, Hand, Known, Written
<1>7. Excess(a)'
  BY TouchedOthers DEF Shape, Local, Excess, Active, In, Known
<1>8. Defers(a)
  BY TouchedOthers DEF Shape, Defers, AnalyzerTransitions, ValidTransitions, Statuses, Local, Fresh, Hand, Known
<1>9. Meets(a)
  BY TouchedOthers DEF Shape, Meets, Local, Excess, Active, In
<1>10. Stock(a)'
  BY TouchedOthers DEF Shape, Local, Stock, Phase, Known, Fresh, PolicySteps, RevisionSteps
<1>11. Spends(a)
  BY TouchedOthers DEF Shape, Local, Spends, May, Stock, Phase, PolicySteps, RevisionSteps
<1> QED
  BY <1>1, <1>2, <1>3, <1>4, <1>5, <1>6, <1>7, <1>8, <1>9, <1>10, <1>11 DEF Good, Local

\* The copies of the row are renewed.
LEMMA ReadBackStep == ASSUME Shape, NEW a \in Analyzers, Local(a), ReadBack(a) PROVE Good(a)
<1> USE DEF ReadBack, Copy, rowVars, copyVars, mergeVars, policyVars, budgets, Goto, At
<1>1. Shape'
  BY DEF Shape, Touched
<1>2. \A b \in Analyzers \ {a} : Quiet(b)
  BY DEF Shape, Quiet
<1>3. Phase(a)'
  BY DEF Shape, Local, Phase, MergeSteps, PolicySteps
<1>4. Known(a)'
  BY DEF Shape, Local, Known, Phase, MergeSteps, PolicySteps
<1>5. Fresh(a)'
  BY DEF Shape, Local, Fresh, Hand, Known, Phase, Written, MergeSteps, PolicySteps
<1>6. Hand(a)'
  BY DEF Shape, Local, Fresh, Hand, Known, Written
<1>7. Excess(a)'
  BY DEF Shape, Local, Excess, Active, In, Known
<1>8. Defers(a)
  BY DEF Shape, Defers, AnalyzerTransitions, ValidTransitions, Statuses, Local, Fresh, Hand, Known
<1>9. Meets(a)
  BY DEF Shape, Meets, Local, Excess, Active, In
<1>10. Stock(a)'
  BY DEF Shape, Local, Stock, Phase, Known, Fresh, PolicySteps, RevisionSteps
<1>11. Spends(a)
  BY DEF Shape, Local, Spends, May, Stock, Phase, PolicySteps, RevisionSteps
<1> QED
  BY <1>1, <1>2, <1>3, <1>4, <1>5, <1>6, <1>7, <1>8, <1>9, <1>10, <1>11 DEF Good, Local

\* The policy's copies are what the rows say.
LEMMA ListForPolicyStep == ASSUME Shape, NEW a \in Analyzers, Local(a), ListForPolicy(a) PROVE Good(a)
<1> USE DEF ListForPolicy, PolicyCopy, In, rowVars, copyVars, mergeVars, policyVars, budgets, Goto, At
<1>1. Shape'
  BY DEF Shape, Touched
<1>2. \A b \in Analyzers \ {a} : Quiet(b)
  BY DEF Shape, Quiet
<1>3. Phase(a)'
  BY DEF Shape, Local, Phase, MergeSteps, PolicySteps
<1>4. Known(a)'
  BY DEF Shape, Local, Known, Phase, MergeSteps, PolicySteps
<1>5. Fresh(a)'
  BY DEF Shape, Local, Fresh, Hand, Known, Phase, Written, MergeSteps, PolicySteps
<1>6. Hand(a)'
  BY DEF Shape, Local, Fresh, Hand, Known, Written
<1>7. Excess(a)'
  BY DEF Shape, Local, Excess, Active, In, Known
<1>8. Defers(a)
  BY DEF Shape, Defers, AnalyzerTransitions, ValidTransitions, Statuses, Local, Fresh, Hand, Known
<1>9. Meets(a)
  BY DEF Shape, Meets, Local, Excess, Active, In
<1>10. Stock(a)'
  BY DEF Shape, Local, Stock, Phase, Known, Fresh, PolicySteps, RevisionSteps
<1>11. Spends(a)
  BY DEF Shape, Local, Spends, May, Stock, Phase, PolicySteps, RevisionSteps
<1> QED
  BY <1>1, <1>2, <1>3, <1>4, <1>5, <1>6, <1>7, <1>8, <1>9, <1>10, <1>11 DEF Good, Local

\* A verdict on a copy.
LEMMA ApplyPolicyStep == ASSUME Shape, NEW a \in Analyzers, Local(a), ApplyPolicy(a) PROVE Good(a)
<1> USE DEF ApplyPolicy, Touch, rowVars, copyVars, mergeVars, policyVars, budgets, Goto, At
<1>1. Shape'
  BY TouchedOthers, PolicyMoves DEF Shape, Touched
<1>2. \A b \in Analyzers \ {a} : Quiet(b)
  BY TouchedOthers, PolicyMoves DEF Shape, Quiet
<1>3. Phase(a)'
  BY TouchedOthers, PolicyMoves DEF Shape, Local, Phase, MergeSteps, PolicySteps
<1>4. Known(a)'
  BY TouchedOthers, PolicyMoves DEF Shape, Local, Known, Phase, MergeSteps, PolicySteps
<1>5. Fresh(a)'
  BY TouchedOthers, PolicyMoves DEF Shape, Local, Fresh, Hand, Known, Phase, Written, MergeSteps, PolicySteps
<1>6. Hand(a)'
  BY TouchedOthers, PolicyMoves DEF Shape, Local, Fresh, Hand, Known, Written
<1>7. Excess(a)'
  BY TouchedOthers, PolicyMoves DEF Shape, Local, Excess, Active, In, Known
<1>8. Defers(a)
  BY TouchedOthers, PolicyMoves DEF Shape, Defers, AnalyzerTransitions, ValidTransitions, Statuses, Local, Fresh, Hand, Known
<1>9. Meets(a)
  BY TouchedOthers, PolicyMoves DEF Shape, Meets, Local, Excess, Active, In
<1>10. Stock(a)'
  <2>1. PICK r \in todo[a] :
          /\ todo' = [todo EXCEPT ![a] = @ \ {r}] /\ touched' = Touched(a, r.id)
          /\ IF Policy(a, r).revise
             THEN item' = [item EXCEPT ![a] = r.id] /\ pc' = [pc EXCEPT ![a] = "refresh"]
             ELSE UNCHANGED <<item, pc>>
    OBVIOUS
  <2>2. /\ r.revisions \in Nat /\ r.id \in rows /\ (Policy(a, r).revise => r.revisions < RevisionCap)
        /\ r.id \notin touched[a] => r.revisions = revisions[r.id]
    BY PolicyRevises DEF Local, Stock, Known
  <2>3. touched'[a] = touched[a] /\ revisions' = revisions /\ pc[a] = "policy" /\ rows' = rows
    BY <2>1, TouchedOthers
  <2>4. todo'[a] = todo[a] \ {r} /\ \A q \in todo'[a] : q.id # r.id
    BY <2>1 DEF Shape, Local, Fresh
  <2>5. CASE Policy(a, r).revise
    <3>1. pc'[a] = "refresh" /\ item'[a] = r.id
      BY <2>1, <2>5 DEF Shape
    <3> HIDE DEF ApplyPolicy
    <3> QED
      BY <2>2, <2>3, <2>4, <2>5, <3>1 DEF Local, Stock, RevisionSteps
  <2>6. CASE ~Policy(a, r).revise
    <3>1. pc'[a] = "policy"
      BY <2>1, <2>3, <2>6
    <3> HIDE DEF ApplyPolicy
    <3> QED
      BY <2>2, <2>3, <2>4, <3>1 DEF Local, Stock, RevisionSteps
  <2> QED
    BY <2>5, <2>6
<1>11. Spends(a)
  <2>1. PICK r \in todo[a] :
          /\ todo' = [todo EXCEPT ![a] = @ \ {r}] /\ touched' = Touched(a, r.id)
          /\ IF Policy(a, r).revise
             THEN item' = [item EXCEPT ![a] = r.id] /\ pc' = [pc EXCEPT ![a] = "refresh"]
             ELSE UNCHANGED <<item, pc>>
    OBVIOUS
  <2>2. /\ r.revisions \in Nat /\ r.id \in rows /\ (Policy(a, r).revise => r.revisions < RevisionCap)
        /\ r.id \notin touched[a] => r.revisions = revisions[r.id]
    BY PolicyRevises DEF Local, Stock, Known
  <2>3. touched'[a] = touched[a] /\ revisions' = revisions /\ pc[a] = "policy" /\ rows' = rows
    BY <2>1, TouchedOthers
  <2>4. todo'[a] = todo[a] \ {r} /\ \A q \in todo'[a] : q.id # r.id
    BY <2>1 DEF Shape, Local, Fresh
  <2>5. CASE Policy(a, r).revise
    <3>1. pc'[a] = "refresh" /\ item'[a] = r.id
      BY <2>1, <2>5 DEF Shape
    <3> HIDE DEF ApplyPolicy
    <3> QED
      BY <2>2, <2>3, <2>4, <2>5, <3>1 DEF Spends, May, RevisionSteps
  <2>6. CASE ~Policy(a, r).revise
    <3>1. pc'[a] = "policy"
      BY <2>1, <2>3, <2>6
    <3> HIDE DEF ApplyPolicy
    <3> QED
      BY <2>2, <2>3, <2>4, <3>1 DEF Spends, May, RevisionSteps
  <2> QED
    BY <2>5, <2>6
<1> QED
  BY <1>1, <1>2, <1>3, <1>4, <1>5, <1>6, <1>7, <1>8, <1>9, <1>10, <1>11 DEF Good, Local

\* A row is read again.
LEMMA RefreshStep == ASSUME Shape, NEW a \in Analyzers, Local(a), Refresh(a) PROVE Good(a)
<1> USE DEF Refresh, rowVars, copyVars, mergeVars, policyVars, budgets, Goto, At
<1>1. Shape'
  BY DEF Shape, Touched
<1>2. \A b \in Analyzers \ {a} : Quiet(b)
  BY DEF Shape, Quiet
<1>3. Phase(a)'
  BY DEF Shape, Local, Phase, MergeSteps, PolicySteps
<1>4. Known(a)'
  BY DEF Shape, Local, Known, Phase, MergeSteps, PolicySteps
<1>5. Fresh(a)'
  BY DEF Shape, Local, Fresh, Hand, Known, Phase, Written, MergeSteps, PolicySteps
<1>6. Hand(a)'
  BY DEF Shape, Local, Fresh, Hand, Known, Written
<1>7. Excess(a)'
  BY DEF Shape, Local, Excess, Active, In, Known
<1>8. Defers(a)
  BY DEF Shape, Defers, AnalyzerTransitions, ValidTransitions, Statuses, Local, Fresh, Hand, Known
<1>9. Meets(a)
  BY DEF Shape, Meets, Local, Excess, Active, In
<1>10. Stock(a)'
  BY DEF Shape, Local, Stock, Phase, Known, Fresh, PolicySteps, RevisionSteps
<1>11. Spends(a)
  BY DEF Shape, Local, Spends, May, Stock, Phase, PolicySteps, RevisionSteps
<1> QED
  BY <1>1, <1>2, <1>3, <1>4, <1>5, <1>6, <1>7, <1>8, <1>9, <1>10, <1>11 DEF Good, Local

\* An index is drawn.
LEMMA ReadIndexStep == ASSUME Shape, NEW a \in Analyzers, Local(a), ReadIndex(a) PROVE Good(a)
<1> USE DEF ReadIndex, rowVars, copyVars, mergeVars, policyVars, budgets, Goto, At
<1>1. Shape'
  BY DEF Shape, Touched
<1>2. \A b \in Analyzers \ {a} : Quiet(b)
  BY DEF Shape, Quiet
<1>3. Phase(a)'
  BY DEF Shape, Local, Phase, MergeSteps, PolicySteps
<1>4. Known(a)'
  BY DEF Shape, Local, Known, Phase, MergeSteps, PolicySteps
<1>5. Fresh(a)'
  BY DEF Shape, Local, Fresh, Hand, Known, Phase, Written, MergeSteps, PolicySteps
<1>6. Hand(a)'
  BY DEF Shape, Local, Fresh, Hand, Known, Written
<1>7. Excess(a)'
  BY DEF Shape, Local, Excess, Active, In, Known
<1>8. Defers(a)
  BY DEF Shape, Defers, AnalyzerTransitions, ValidTransitions, Statuses, Local, Fresh, Hand, Known
<1>9. Meets(a)
  BY DEF Shape, Meets, Local, Excess, Active, In
<1>10. Stock(a)'
  BY DEF Shape, Local, Stock, Phase, Known, Fresh, PolicySteps, RevisionSteps
<1>11. Spends(a)
  BY DEF Shape, Local, Spends, May, Stock, Phase, PolicySteps, RevisionSteps
<1> QED
  BY <1>1, <1>2, <1>3, <1>4, <1>5, <1>6, <1>7, <1>8, <1>9, <1>10, <1>11 DEF Good, Local

\* An entry of the ledger.
LEMMA AppendStep == ASSUME Shape, NEW a \in Analyzers, Local(a), Append(a) PROVE Good(a)
<1> USE DEF Append, NextRow, rowVars, copyVars, mergeVars, policyVars, budgets, Goto, At
<1>1. Shape'
  BY DEF Shape, Touched
<1>2. \A b \in Analyzers \ {a} : Quiet(b)
  BY DEF Shape, Quiet
<1>3. Phase(a)'
  BY DEF Shape, Local, Phase, MergeSteps, PolicySteps
<1>4. Known(a)'
  BY DEF Shape, Local, Known, Phase, MergeSteps, PolicySteps
<1>5. Fresh(a)'
  BY DEF Shape, Local, Fresh, Hand, Known, Phase, Written, MergeSteps, PolicySteps
<1>6. Hand(a)'
  BY DEF Shape, Local, Fresh, Hand, Known, Written
<1>7. Excess(a)'
  BY DEF Shape, Local, Excess, Active, In, Known
<1>8. Defers(a)
  BY DEF Shape, Defers, AnalyzerTransitions, ValidTransitions, Statuses, Local, Fresh, Hand, Known
<1>9. Meets(a)
  BY DEF Shape, Meets, Local, Excess, Active, In
<1>10. Stock(a)'
  BY DEF Shape, Local, Stock, Phase, Known, Fresh, PolicySteps, RevisionSteps
<1>11. Spends(a)
  BY DEF Shape, Local, Spends, May, Stock, Phase, PolicySteps, RevisionSteps
<1> QED
  BY <1>1, <1>2, <1>3, <1>4, <1>5, <1>6, <1>7, <1>8, <1>9, <1>10, <1>11 DEF Good, Local

\* A revision.
LEMMA ReviseStep == ASSUME Shape, NEW a \in Analyzers, Local(a), Revise(a) PROVE Good(a)
<1> USE DEF Revise, Touch, NextRow, rowVars, copyVars, mergeVars, policyVars, budgets, Goto, At
<1>1. Shape'
  <2>1. revisions' \in [Ids -> Nat]
    <3>1. \A n \in Nat : n + 1 \in Nat
      OBVIOUS
    <3> QED
      BY <3>1 DEF Shape
  <2> QED
    BY <2>1, TouchedOthers DEF Shape, Touched
<1>2. \A b \in Analyzers \ {a} : Quiet(b)
  BY TouchedOthers DEF Shape, Quiet
<1>3. Phase(a)'
  BY TouchedOthers DEF Shape, Local, Phase, MergeSteps, PolicySteps
<1>4. Known(a)'
  BY TouchedOthers DEF Shape, Local, Known, Phase, MergeSteps, PolicySteps
<1>5. Fresh(a)'
  BY TouchedOthers DEF Shape, Local, Fresh, Hand, Known, Phase, Written, MergeSteps, PolicySteps
<1>6. Hand(a)'
  BY TouchedOthers DEF Shape, Local, Fresh, Hand, Known, Written
<1>7. Excess(a)'
  BY TouchedOthers DEF Shape, Local, Excess, Active, In, Known
<1>8. Defers(a)
  BY TouchedOthers DEF Shape, Defers, AnalyzerTransitions, ValidTransitions, Statuses, Local, Fresh, Hand, Known
<1>9. Meets(a)
  BY TouchedOthers DEF Shape, Meets, Local, Excess, Active, In
<1>10. Stock(a)'
  BY TouchedOthers DEF Shape, Local, Stock, Phase, Known, Fresh, PolicySteps, RevisionSteps
<1>11. Spends(a)
  BY TouchedOthers DEF Shape, Local, Spends, May, Stock, Phase, PolicySteps, RevisionSteps
<1> QED
  BY <1>1, <1>2, <1>3, <1>4, <1>5, <1>6, <1>7, <1>8, <1>9, <1>10, <1>11 DEF Good, Local

\* What exceeds the ceiling.
LEMMA ListForCapacityStep == ASSUME Shape, NEW a \in Analyzers, Local(a), ListForCapacity(a) PROVE Good(a)
<1> USE DEF ListForCapacity, Active, In, rowVars, copyVars, mergeVars, policyVars, budgets, Goto, At
<1>1. Shape'
  BY DEF Shape, Touched
<1>2. \A b \in Analyzers \ {a} : Quiet(b)
  BY DEF Shape, Quiet
<1>3. Phase(a)'
  BY DEF Shape, Local, Phase, MergeSteps, PolicySteps
<1>4. Known(a)'
  BY DEF Shape, Local, Known, Phase, MergeSteps, PolicySteps
<1>5. Fresh(a)'
  BY DEF Shape, Local, Fresh, Hand, Known, Phase, Written, MergeSteps, PolicySteps
<1>6. Hand(a)'
  BY DEF Shape, Local, Fresh, Hand, Known, Written
<1>7. Excess(a)'
  <2>1. PICK V \in SUBSET Active :
          /\ Cardinality(V) = Cardinality(Active) - CapacityCeiling /\ Lightest(V)
          /\ surplus' = [surplus EXCEPT ![a] = V]
    OBVIOUS
  <2>2. IsFiniteSet(Active)
    BY ActorAssumption, FS_Subset DEF Shape, Active, In
  <2>3. Cardinality(Active \ V) = CapacityCeiling
    <3>1. CapacityCeiling \in Nat /\ Cardinality(Active) \in Nat
      BY <2>2, FS_CardinalityType, PolicyAssumption
    <3>2. Cardinality(Active \ V) = Cardinality(Active) - Cardinality(V)
      BY <2>2, Remainder
    <3> QED
      BY <2>1, <3>1, <3>2
  <2>4. UNCHANGED <<rows, status, weight>> /\ Active' = Active
    BY DEF Active, In
  <2> QED
    BY <2>1, <2>3, <2>4, PolicyAssumption DEF Shape, Excess, Lightest
<1>8. Defers(a)
  BY DEF Shape, Defers, AnalyzerTransitions, ValidTransitions, Statuses, Local, Fresh, Hand, Known
<1>9. Meets(a)
  BY DEF Shape, Meets, Local, Excess, Active, In
<1>10. Stock(a)'
  BY DEF Shape, Local, Stock, Phase, Known, Fresh, PolicySteps, RevisionSteps
<1>11. Spends(a)
  BY DEF Shape, Local, Spends, May, Stock, Phase, PolicySteps, RevisionSteps
<1> QED
  BY <1>1, <1>2, <1>3, <1>4, <1>5, <1>6, <1>7, <1>8, <1>9, <1>10, <1>11 DEF Good, Local

\* Nothing exceeds it.
LEMMA BelowCapacityStep == ASSUME Shape, NEW a \in Analyzers, Local(a), BelowCapacity(a) PROVE Good(a)
<1> USE DEF BelowCapacity, Ends, Forget, rowVars, copyVars, mergeVars, policyVars, budgets, Goto, At
<1>1. Shape'
  BY DEF Shape, Touched
<1>2. \A b \in Analyzers \ {a} : Quiet(b)
  BY DEF Shape, Quiet
<1>3. Phase(a)'
  BY DEF Shape, Local, Phase, MergeSteps, PolicySteps
<1>4. Known(a)'
  BY DEF Shape, Local, Known, Phase, MergeSteps, PolicySteps
<1>5. Fresh(a)'
  BY DEF Shape, Local, Fresh, Hand, Known, Phase, Written, MergeSteps, PolicySteps
<1>6. Hand(a)'
  BY DEF Shape, Local, Fresh, Hand, Known, Written
<1>7. Excess(a)'
  BY DEF Shape, Local, Excess, Active, In, Known
<1>8. Defers(a)
  BY DEF Shape, Defers, AnalyzerTransitions, ValidTransitions, Statuses, Local, Fresh, Hand, Known
<1>9. Meets(a)
  BY DEF Shape, Meets, Local, Excess, Active, In
<1>10. Stock(a)'
  BY DEF Shape, Local, Stock, Phase, Known, Fresh, PolicySteps, RevisionSteps
<1>11. Spends(a)
  BY DEF Shape, Local, Spends, May, Stock, Phase, PolicySteps, RevisionSteps
<1> QED
  BY <1>1, <1>2, <1>3, <1>4, <1>5, <1>6, <1>7, <1>8, <1>9, <1>10, <1>11 DEF Good, Local

\* One goes.
LEMMA RetireStep == ASSUME Shape, NEW a \in Analyzers, Local(a), Retire(a) PROVE Good(a)
<1> USE DEF Retire, Ends, Touch, Forget, rowVars, copyVars, mergeVars, policyVars, budgets, Goto, At
<1>1. Shape'
  BY TouchedOthers DEF Shape, Touched
<1>2. \A b \in Analyzers \ {a} : Quiet(b)
  <2>1. PICK d \in surplus[a] :
          /\ status' = [status EXCEPT ![d] = "obsolete"]
          /\ touched' = Touched(a, d) \/ touched' = [Touched(a, d) EXCEPT ![a] = {}]
    OBVIOUS
  <2>2. \A b \in Analyzers \ {a} : touched'[b] = Touched(a, d)[b]
    BY <2>1 DEF Touched, Shape
  <2>3. ASSUME NEW b \in Analyzers \ {a}
        PROVE  touched[b] \subseteq touched'[b] /\ (pc[b] # "idle" => d \in touched'[b])
    BY <2>2, TouchedOthers
  <2>4. \A e \in Ids : status'[e] # status[e] => e = d
    BY <2>1 DEF Shape
  <2>5. ASSUME NEW b \in Analyzers \ {a} PROVE Framed(b)
    BY DEF Shape, Framed
  <2>6. ASSUME NEW b \in Analyzers \ {a} PROVE Quiet(b)
    <3> HIDE DEF Retire
    <3>1. Framed(b)
      BY <2>5
    <3>2. touched[b] \subseteq touched'[b] /\ (pc[b] # "idle" => d \in touched'[b])
      BY <2>3
    <3> QED
      BY <2>4, <3>1, <3>2, Recorded
  <2> QED
    BY <2>6
<1>3. Phase(a)'
  BY TouchedOthers DEF Shape, Local, Phase, MergeSteps, PolicySteps
<1>4. Known(a)'
  BY TouchedOthers DEF Shape, Local, Known, Phase, MergeSteps, PolicySteps
<1>5. Fresh(a)'
  BY TouchedOthers DEF Shape, Local, Fresh, Hand, Known, Phase, Written, MergeSteps, PolicySteps
<1>6. Hand(a)'
  BY TouchedOthers DEF Shape, Local, Fresh, Hand, Known, Written
<1>7. Excess(a)'
  <2>1. PICK d \in surplus[a] :
          /\ status' = [status EXCEPT ![d] = "obsolete"]
          /\ \/ surplus[a] = {d} /\ pc' = [pc EXCEPT ![a] = "idle"]
             \/ surplus' = [surplus EXCEPT ![a] = @ \ {d}] /\ touched' = Touched(a, d) /\ UNCHANGED pc
    OBVIOUS
  <2>2. CASE surplus[a] = {d} /\ pc' = [pc EXCEPT ![a] = "idle"]
    BY <2>2 DEF Shape, Excess
  <2>3. CASE surplus' = [surplus EXCEPT ![a] = @ \ {d}] /\ touched' = Touched(a, d) /\ UNCHANGED pc
    <3> SUFFICES ASSUME touched[a] = {} PROVE Excess(a)'
      BY <2>3, TouchedOthers DEF Excess
    <3>1. Active' = Active \ {d} /\ surplus'[a] = surplus[a] \ {d} /\ UNCHANGED weight
      BY <2>1, <2>3 DEF Shape, Active, In, Local, Known
    <3>2. Active' \ surplus'[a] = Active \ surplus[a]
      BY <3>1
    <3> QED
      BY <3>1, <3>2 DEF Local, Excess
  <2> QED
    BY <2>1, <2>2, <2>3
<1>8. Defers(a)
  BY TouchedOthers DEF Shape, Defers, AnalyzerTransitions, ValidTransitions, Statuses, Local, Fresh, Hand, Known
<1>9. Meets(a)
  BY TouchedOthers DEF Shape, Meets, Local, Excess, Active, In
<1>10. Stock(a)'
  BY TouchedOthers DEF Shape, Local, Stock, Phase, Known, Fresh, PolicySteps, RevisionSteps
<1>11. Spends(a)
  BY TouchedOthers DEF Shape, Local, Spends, May, Stock, Phase, PolicySteps, RevisionSteps
<1> QED
  BY <1>1, <1>2, <1>3, <1>4, <1>5, <1>6, <1>7, <1>8, <1>9, <1>10, <1>11 DEF Good, Local

\* The index is taken.
LEMMA AppendConflictStep == ASSUME Shape, NEW a \in Analyzers, Local(a), AppendConflict(a) PROVE Good(a)
<1> USE DEF AppendConflict, Ends, Forget, rowVars, copyVars, mergeVars, policyVars, budgets, Goto, At
<1>1. Shape'
  BY DEF Shape, Touched
<1>2. \A b \in Analyzers \ {a} : Quiet(b)
  BY DEF Shape, Quiet
<1>3. Phase(a)'
  BY DEF Shape, Local, Phase, MergeSteps, PolicySteps
<1>4. Known(a)'
  BY DEF Shape, Local, Known, Phase, MergeSteps, PolicySteps
<1>5. Fresh(a)'
  BY DEF Shape, Local, Fresh, Hand, Known, Phase, Written, MergeSteps, PolicySteps
<1>6. Hand(a)'
  BY DEF Shape, Local, Fresh, Hand, Known, Written
<1>7. Excess(a)'
  BY DEF Shape, Local, Excess, Active, In, Known
<1>8. Defers(a)
  BY DEF Shape, Defers, AnalyzerTransitions, ValidTransitions, Statuses, Local, Fresh, Hand, Known
<1>9. Meets(a)
  BY DEF Shape, Meets, Local, Excess, Active, In
<1>10. Stock(a)'
  BY DEF Shape, Local, Stock, Phase, Known, Fresh, PolicySteps, RevisionSteps
<1>11. Spends(a)
  BY DEF Shape, Local, Spends, May, Stock, Phase, PolicySteps, RevisionSteps
<1> QED
  BY <1>1, <1>2, <1>3, <1>4, <1>5, <1>6, <1>7, <1>8, <1>9, <1>10, <1>11 DEF Good, Local

\* The aggregation ends anywhere.
LEMMA AbortStep == ASSUME Shape, NEW a \in Analyzers, Local(a), Abort(a) PROVE Good(a)
<1> USE DEF Abort, Ends, Forget, rowVars, copyVars, mergeVars, policyVars, budgets, Goto, At
<1>1. Shape'
  BY DEF Shape, Touched
<1>2. \A b \in Analyzers \ {a} : Quiet(b)
  BY DEF Shape, Quiet
<1>3. Phase(a)'
  BY DEF Shape, Local, Phase, MergeSteps, PolicySteps
<1>4. Known(a)'
  BY DEF Shape, Local, Known, Phase, MergeSteps, PolicySteps
<1>5. Fresh(a)'
  BY DEF Shape, Local, Fresh, Hand, Known, Phase, Written, MergeSteps, PolicySteps
<1>6. Hand(a)'
  BY DEF Shape, Local, Fresh, Hand, Known, Written
<1>7. Excess(a)'
  BY DEF Shape, Local, Excess, Active, In, Known
<1>8. Defers(a)
  BY DEF Shape, Defers, AnalyzerTransitions, ValidTransitions, Statuses, Local, Fresh, Hand, Known
<1>9. Meets(a)
  BY DEF Shape, Meets, Local, Excess, Active, In
<1>10. Stock(a)'
  BY DEF Shape, Local, Stock, Phase, Known, Fresh, PolicySteps, RevisionSteps
<1>11. Spends(a)
  BY DEF Shape, Local, Spends, May, Stock, Phase, PolicySteps, RevisionSteps
<1> QED
  BY <1>1, <1>2, <1>3, <1>4, <1>5, <1>6, <1>7, <1>8, <1>9, <1>10, <1>11 DEF Good, Local

-----------------------------------------------------------------------------
\* Steps of users

\* What is proved of every other step: it is quiet for all.
Harmless == Shape' /\ (\A a \in Analyzers : Quiet(a)) /\ revisions' = revisions

\* A request reads.
LEMMA AskForStep == ASSUME Shape, NEW u \in Users, AskFor(u) PROVE Harmless
  BY DEF AskFor, rowVars, mergeVars, policyVars, copyVars, Shape, Quiet, Harmless

\* It writes a row, which all aggregations under way have then recorded.
LEMMA PatchStep == ASSUME Shape, NEW u \in Users, Patch(u) PROVE Harmless
<1> USE DEF Patch, SetStatus, Touch, mergeVars, policyVars, copyVars, budgets
<1>1. \A a \in Analyzers : /\ touched[a] \subseteq touched'[a]
                           /\ pc[a] # "idle" => ask[u].id \in touched'[a]
  BY TouchedOthers, ActorAssumption
<1>2. Shape'
  BY DEF Shape, Touched
<1>3. \A a \in Analyzers : Quiet(a)
  BY <1>1 DEF Shape, Quiet
<1> QED
  BY <1>2, <1>3 DEF Harmless

\* Nothing happens.
LEMMA Stutters == ASSUME Shape, UNCHANGED vars PROVE Harmless
  BY DEF vars, rowVars, mergeVars, policyVars, copyVars, budgets, Shape, Quiet, Harmless

-----------------------------------------------------------------------------
\* The theorems

\* Nothing runs at first.
LEMMA Start == ASSUME Init PROVE IInv
<1>1. Shape
  BY DEF Init, Shape
<1>2. ASSUME NEW a \in Analyzers PROVE Local(a)
  BY <1>2 DEF Init, Local, Phase, Known, Fresh, Hand, Excess, Written, Stock, MergeSteps, PolicySteps, RevisionSteps
<1>3. Capped
  BY DEF Init, Capped, Pending, May, RevisionSteps
<1> QED
  BY <1>1, <1>2, <1>3 DEF IInv

\* A step is good of the aggregation that takes it, or harmless.
LEMMA StepCases ==
  ASSUME IInv, [Next]_vars PROVE (\E a \in Analyzers : Good(a)) \/ Harmless
<1> USE DEF IInv
<1>1. ASSUME NEW a \in Analyzers, MergeStep(a) PROVE Good(a)
  BY <1>1, BeginStep, ReadConventionsStep, AddStep, AddLongerStep, DropStep, SupersedeStep, SupersedeFailsStep,
     ReactivateStep, ReactivateFailsStep, UpsertOldStep, UpsertNewStep, ReadBackStep DEF MergeStep
<1>2. ASSUME NEW a \in Analyzers, PolicyStep(a) PROVE Good(a)
  BY <1>2, ListForPolicyStep, ApplyPolicyStep, RefreshStep, ReadIndexStep, AppendStep, AppendConflictStep,
     ReviseStep, ListForCapacityStep, BelowCapacityStep, RetireStep, AbortStep DEF PolicyStep
<1>3. ASSUME NEW u \in Users, UserStep(u) PROVE Harmless
  BY <1>3, AskForStep, PatchStep DEF UserStep
<1> QED
  BY <1>1, <1>2, <1>3, Stutters DEF Next

\* A step of a keeps the count of those that may still revise a directive at its cap.
LEMMA CappedStep == ASSUME IInv, NEW a \in Analyzers, Good(a) PROVE Capped'
<1> SUFFICES ASSUME NEW d \in Ids, revisions'[d] >= RevisionCap, Pending(d)' # {}
             PROVE  revisions'[d] + Cardinality(Pending(d)') <= RevisionCap + Cardinality(Analyzers) - 1
  BY DEF Capped
<1>1. \A b \in Analyzers \ {a} : May(b, d)' <=> May(b, d)
  BY DEF Good, Quiet, May
<1>2. IsFiniteSet(Pending(d)) /\ IsFiniteSet(Analyzers) /\ Pending(d) \subseteq Analyzers
  BY ActorAssumption, FS_Subset DEF Pending
<1>3. revisions[d] \in Nat /\ RevisionCap \in Nat /\ Cardinality(Analyzers) \in Nat /\ Cardinality(Pending(d)) \in Nat
  BY <1>2, PolicyAssumption, FS_CardinalityType DEF IInv, Shape
<1>4. CASE revisions'[d] = revisions[d]
  <2>1. May(a, d)' => May(a, d)
    BY <1>3, <1>4 DEF Good, Spends
  <2>2. Pending(d)' \subseteq Pending(d)
    BY <1>1, <2>1 DEF Pending
  <2>3. Cardinality(Pending(d)') \in Nat /\ Cardinality(Pending(d)') <= Cardinality(Pending(d))
    BY <1>2, <2>2, FS_Subset, FS_CardinalityType
  <2>4. revisions[d] + Cardinality(Pending(d)) <= RevisionCap + Cardinality(Analyzers) - 1
    BY <1>4, <2>2 DEF IInv, Capped
  <2> QED
    BY <1>3, <1>4, <2>3, <2>4
<1>5. CASE revisions'[d] # revisions[d]
  <2>1. pc[a] = "revise" /\ item[a] = d /\ revisions'[d] = revisions[d] + 1 /\ ~May(a, d)'
    BY <1>5 DEF Good, Spends
  <2>2. a \in Pending(d) /\ Pending(d)' = Pending(d) \ {a}
    BY <1>1, <2>1 DEF Pending, May, RevisionSteps
  <2>3. Cardinality(Pending(d)') = Cardinality(Pending(d)) - 1
    BY <1>2, <2>2, FS_RemoveElement
  <2>4. CASE revisions[d] >= RevisionCap
    <3>1. revisions[d] + Cardinality(Pending(d)) <= RevisionCap + Cardinality(Analyzers) - 1
      BY <2>2, <2>4 DEF IInv, Capped
    <3> QED
      BY <1>3, <2>1, <2>3, <3>1
  <2>5. CASE ~(revisions[d] >= RevisionCap)
    <3>1. Cardinality(Pending(d)) <= Cardinality(Analyzers)
      BY <1>2, FS_Subset
    <3> QED
      BY <1>3, <2>1, <2>3, <2>5, <3>1
  <2> QED
    BY <2>4, <2>5
<1> QED
  BY <1>4, <1>5

\* A step preserves the invariant.
LEMMA Step == ASSUME IInv, [Next]_vars PROVE IInv'
<1>1. CASE \E a \in Analyzers : Good(a)
  BY <1>1, QuietStep, CappedStep DEF IInv, Good
<1>2. CASE Harmless
  <2>1. Capped'
    BY <1>2 DEF Harmless, Quiet, IInv, Capped, Pending, May
  <2> QED
    BY <1>2, <2>1, QuietStep DEF IInv, Harmless
<1> QED
  BY <1>1, <1>2, StepCases

\* The inductive invariant: a copy of a row that no one else wrote is never stale, though an
\* aggregation writes rows it has copies of.
THEOREM Invariance == Spec => []IInv
<1>1. Init => IInv
  BY Start
<1>2. IInv /\ [Next]_vars => IInv'
  BY Step
<1> QED
  BY <1>1, <1>2, PTL DEF Spec

\* Who acts is the aggregation whose step it is.
LEMMA WhoActs ==
  ASSUME IInv, [Next]_vars, NEW a \in Analyzers, Acts(a) PROVE Good(a)
<1>1. ~Quiet(a)
  BY DEF Acts, Quiet
<1> QED
  BY <1>1, StepCases DEF Good, Harmless

\* An aggregation that is not under way acts by beginning, which writes no row.
LEMMA IdleBegins ==
  ASSUME IInv, [Next]_vars, NEW a \in Analyzers, Acts(a), pc[a] = "idle" PROVE status' = status
<1> USE DEF IInv
<1>1. ~Quiet(a)
  BY DEF Acts, Quiet
<1>2. ASSUME NEW b \in Analyzers, Good(b) PROVE b = a
  BY <1>1, <1>2 DEF Good
<1>3. ASSUME NEW b \in Analyzers, MergeStep(b) PROVE status' = status
  <2>1. b = a
    BY <1>2, <1>3, BeginStep, ReadConventionsStep, AddStep, AddLongerStep, DropStep, SupersedeStep,
       SupersedeFailsStep, ReactivateStep, ReactivateFailsStep, UpsertOldStep, UpsertNewStep, ReadBackStep
       DEF MergeStep
  <2>2. Begin(a)
    BY <1>3, <2>1 DEF MergeStep, ReadConventions, Add, AddLonger, Drop, Supersede, SupersedeFails, Reactivate,
                      ReactivateFails, UpsertOld, UpsertNew, ReadBack, At
  <2> QED
    BY <2>2 DEF Begin, rowVars
<1>4. ASSUME NEW b \in Analyzers, PolicyStep(b) PROVE FALSE
  <2>1. b = a
    BY <1>2, <1>4, ListForPolicyStep, ApplyPolicyStep, RefreshStep, ReadIndexStep, AppendStep, AppendConflictStep,
       ReviseStep, ListForCapacityStep, BelowCapacityStep, RetireStep, AbortStep DEF PolicyStep
  <2> QED
    BY <1>4, <2>1 DEF PolicyStep, ListForPolicy, ApplyPolicy, Refresh, ReadIndex, Append, AppendConflict, Revise,
                      ListForCapacity, BelowCapacity, Retire, Abort, At
<1>5. \A u \in Users : ~UserStep(u)
  BY <1>1, AskForStep, PatchStep DEF UserStep, Harmless
<1> QED
  BY <1>1, <1>3, <1>4, <1>5, Stutters DEF Next, Harmless

\* An aggregation keeps every directive that no one else wrote meanwhile within the lifecycle: it never
\* moves a disabled or a superseded one, whatever it decided from its copies.
THEOREM Deference == Spec => AnalyzerDefers
<1>1. IInv /\ [Next]_vars
        => [\A a \in Analyzers, d \in rows :
             (Acts(a) /\ d \notin touched[a] /\ status'[d] # status[d]) =>
                <<status[d], status'[d]>> \in AnalyzerTransitions]_vars
  BY WhoActs DEF Good, Defers
<1> QED
  BY <1>1, Invariance, PTL DEF Spec, AnalyzerDefers

\* No aggregation under way has a directive that others wrote meanwhile, and that is disabled.
NoneDisabledMeanwhile == \A a \in Analyzers : pc[a] # "idle" => \A d \in touched[a] : status[d] # "disabled"

\* DisabledIsFirm does not hold.  It does as long as nobody disables a directive while an aggregation is
\* under way: what was disabled before, by whomever, stays disabled.
THEOREM FirmApart == Spec /\ []NoneDisabledMeanwhile => DisabledIsFirm
<1>1. IInv /\ NoneDisabledMeanwhile /\ [Next]_vars
        => [\A a \in Analyzers, d \in rows :
             (Acts(a) /\ status[d] = "disabled") => status'[d] = "disabled"]_vars
  <2> SUFFICES ASSUME IInv, NoneDisabledMeanwhile, [Next]_vars, NEW a \in Analyzers, NEW d \in rows,
                      Acts(a), status[d] = "disabled", status'[d] # "disabled"
               PROVE  FALSE
    OBVIOUS
  <2>1. Good(a)
    BY WhoActs
  <2>2. <<status[d], status'[d]>> \notin AnalyzerTransitions
    BY DEF AnalyzerTransitions
  <2>3. d \in touched[a]
    BY <2>1, <2>2 DEF Good, Defers
  <2>4. pc[a] # "idle"
    BY IdleBegins
  <2> QED
    BY <2>3, <2>4 DEF NoneDisabledMeanwhile
<1> QED
  BY <1>1, Invariance, PTL DEF Spec, DisabledIsFirm

\* An aggregation nobody disturbed ends with at most capacity_ceiling active conventions, and has
\* retired none that is heavier than one it kept.
THEOREM Ceiling == Spec => CeilingMet
<1>1. IInv /\ [Next]_vars
        => [\A a \in Analyzers :
             (Acts(a) /\ touched[a] = {}) =>
               /\ (pc[a] \in {"policy", "obsolete"} /\ pc'[a] = "idle" /\ faults' = faults) =>
                    Cardinality(Active') <= CapacityCeiling
               /\ pc[a] = "obsolete" /\ faults' = faults =>
                    \A d \in Active \ Active', e \in Active \ surplus[a] : weight[d] <= weight[e]]_vars
  BY WhoActs DEF Good, Meets
<1> QED
  BY <1>1, Invariance, PTL DEF Spec, CeilingMet

\* An aggregation revises no directive past revision_cap that no one else wrote meanwhile, and each other
\* aggregation may pass the cap once.
THEOREM Cap == Spec => CapNearlyHolds
<1>1. IInv /\ [Next]_vars
        => [\A a \in Analyzers, d \in rows :
             (Acts(a) /\ revisions'[d] # revisions[d]) =>
               revisions'[d] <= IF d \in touched[a] THEN RevisionCap + Cardinality(Analyzers) - 1
                                ELSE RevisionCap]_vars
  <2> SUFFICES ASSUME IInv, [Next]_vars, NEW a \in Analyzers, NEW d \in rows,
                      Acts(a), revisions'[d] # revisions[d]
               PROVE  revisions'[d] <= IF d \in touched[a] THEN RevisionCap + Cardinality(Analyzers) - 1
                                       ELSE RevisionCap
    OBVIOUS
  <2>1. d \in Ids /\ revisions[d] \in Nat /\ Shape
    BY DEF IInv, Shape
  <2>2. pc[a] = "revise" /\ item[a] = d /\ revisions'[d] = revisions[d] + 1
    BY <2>1, WhoActs DEF Good, Spends
  <2>3. IsFiniteSet(Pending(d)) /\ Pending(d) \subseteq Analyzers /\ a \in Pending(d)
    BY <2>2, ActorAssumption, FS_Subset DEF Pending, May, RevisionSteps
  <2>4. Cardinality(Pending(d)) \in Nat /\ Cardinality(Pending(d)) >= 1
    BY <2>3, FS_CardinalityType, FS_EmptySet
  <2>5. Cardinality(Analyzers) \in Nat /\ Cardinality(Pending(d)) <= Cardinality(Analyzers) /\ RevisionCap \in Nat
    BY <2>3, ActorAssumption, PolicyAssumption, FS_CardinalityType, FS_Subset
  <2>6. d \notin touched[a] => revisions[d] < RevisionCap
    BY <2>2 DEF IInv, Local, Stock, RevisionSteps
  <2>7. revisions[d] >= RevisionCap => revisions[d] + Cardinality(Pending(d)) <= RevisionCap + Cardinality(Analyzers) - 1
    BY <2>1, <2>3 DEF IInv, Capped
  <2> QED
    BY <2>1, <2>2, <2>4, <2>5, <2>6, <2>7
<1> QED
  BY <1>1, Invariance, PTL DEF Spec, CapNearlyHolds

-----------------------------------------------------------------------------
\* The ledger

\* The entries of a directive are numbered without a gap.
Entries(d) == IsFiniteSet(Revisions(d)) /\ {e.index : e \in Revisions(d)} = 1..Cardinality(Revisions(d))

\* Its count falls short of its accepted entries by what is under way or was cut off.
Counted(d) ==
  /\ revisions[d] + Cardinality(Revising(d)) <= Cardinality(AcceptedOf(d))
  /\ Cardinality(AcceptedOf(d)) <= revisions[d] + Cardinality(Revising(d)) + faults

\* An index that was drawn is the next one, or was.
Drawn(a) == pc[a] = "append" => index[a] \in 1..(Cardinality(Revisions(item[a])) + 1)

Books ==
  /\ DOMAIN index = Analyzers
  /\ \A a \in Analyzers : Drawn(a)
  /\ \A d \in Ids : Entries(d) /\ Counted(d)

\* A step that is not about the ledger.
Plain ==
  /\ ledger' = ledger /\ revisions' = revisions /\ faults' \in {faults, faults + 1}
  /\ DOMAIN index' = Analyzers
  /\ \A b \in Analyzers : /\ pc'[b] = "revise" <=> pc[b] = "revise"
                          /\ pc[b] = "revise" => item'[b] = item[b]
                          /\ pc'[b] = "append" => pc[b] = "append" /\ item'[b] = item[b] /\ index'[b] = index[b]

\* Which steps are about the ledger.
LEMMA PlainCases ==
  ASSUME Shape, DOMAIN index = Analyzers, NEW a \in Analyzers, MergeStep(a) \/ PolicyStep(a)
  PROVE  Plain \/ ReadIndex(a) \/ Append(a) \/ Revise(a) \/ Abort(a)
<1> USE DEF Shape, Plain, rowVars, copyVars, mergeVars, policyVars, budgets, Goto, At
<1>1. CASE Begin(a)
  BY <1>1 DEF Begin
<1>2. CASE ReadConventions(a)
  BY <1>2 DEF ReadConventions
<1>3. CASE Add(a)
  BY <1>3 DEF Add, Write
<1>4. CASE AddLonger(a)
  BY <1>4 DEF AddLonger
<1>5. CASE Drop(a)
  BY <1>5 DEF Drop
<1>6. CASE Supersede(a)
  BY <1>6 DEF Supersede, Write
<1>7. CASE SupersedeFails(a)
  BY <1>7 DEF SupersedeFails, Write
<1>8. CASE Reactivate(a)
  BY <1>8 DEF Reactivate
<1>9. CASE ReactivateFails(a)
  BY <1>9 DEF ReactivateFails
<1>10. CASE UpsertOld(a)
  BY <1>10 DEF UpsertOld
<1>11. CASE UpsertNew(a)
  BY <1>11 DEF UpsertNew
<1>12. CASE ReadBack(a)
  BY <1>12 DEF ReadBack
<1>13. CASE ListForPolicy(a)
  BY <1>13 DEF ListForPolicy
<1>14. CASE ApplyPolicy(a)
  BY <1>14 DEF ApplyPolicy
<1>15. CASE Refresh(a)
  BY <1>15 DEF Refresh
<1>16. CASE ListForCapacity(a)
  BY <1>16 DEF ListForCapacity
<1>17. CASE BelowCapacity(a)
  BY <1>17 DEF BelowCapacity, Ends
<1>18. CASE Retire(a)
  BY <1>18 DEF Retire, Ends
<1>19. CASE AppendConflict(a)
  BY <1>19 DEF AppendConflict, Ends
<1> QED
  BY <1>1, <1>2, <1>3, <1>4, <1>5, <1>6, <1>7, <1>8, <1>9, <1>10, <1>11, <1>12, <1>13, <1>14, <1>15,
     <1>16, <1>17, <1>18, <1>19
     DEF MergeStep, PolicyStep

\* The numbers the proofs below are about.
LEMMA Numbers ==
  ASSUME Shape, NEW d \in Ids, Entries(d)
  PROVE  /\ revisions[d] \in Nat /\ faults \in Nat
         /\ IsFiniteSet(Revising(d)) /\ Cardinality(Revising(d)) \in Nat
         /\ IsFiniteSet(AcceptedOf(d)) /\ Cardinality(AcceptedOf(d)) \in Nat
         /\ Cardinality(Revisions(d)) \in Nat
<1>1. IsFiniteSet(Revising(d)) /\ Cardinality(Revising(d)) \in Nat
  <2>1. Revising(d) \subseteq Analyzers
    BY DEF Revising
  <2> QED
    BY <2>1, ActorAssumption, FS_Subset, FS_CardinalityType
<1>2. IsFiniteSet(AcceptedOf(d)) /\ Cardinality(AcceptedOf(d)) \in Nat
  <2>1. AcceptedOf(d) \subseteq Revisions(d)
    BY DEF AcceptedOf
  <2> QED
    BY <2>1, FS_Subset, FS_CardinalityType DEF Entries
<1> QED
  BY <1>1, <1>2, FS_CardinalityType DEF Entries, Shape

\* The next index is the first that is free.
LEMMA NextIndexIs ==
  ASSUME NEW d, Entries(d) PROVE NextIndex(d) = Cardinality(Revisions(d)) + 1
<1> DEFINE R == Revisions(d)
           N == Cardinality(R)
<1>1. N \in Nat /\ (R = {} <=> N = 0)
  BY FS_CardinalityType, FS_EmptySet DEF Entries
<1>2. CASE R = {}
  BY <1>1, <1>2 DEF NextIndex
<1>3. CASE R # {}
  <2>1. {e.index : e \in R} = 1..N
    BY DEF Entries
  <2> DEFINE top(n) == \A e \in R : e.index <= n
  <2>2. N \in {e.index : e \in R} /\ top(N)
    BY <1>1, <1>3, <2>1
  <2>3. \A n \in {e.index : e \in R} : top(n) => n = N
    BY <1>1, <2>1, <2>2
  <2>4. (CHOOSE n \in {e.index : e \in R} : top(n)) = N
    BY <2>2, <2>3
  <2> QED
    BY <1>3, <2>4 DEF NextIndex
<1> QED
  BY <1>2, <1>3

\* Nothing of the ledger changes.
LEMMA PlainKeeps == ASSUME Shape, Books, Plain PROVE Books'
<1> USE DEF Plain
<1>1. \A d : Revisions(d)' = Revisions(d) /\ AcceptedOf(d)' = AcceptedOf(d)
  BY DEF Revisions, AcceptedOf
<1>2. \A d : Revising(d)' = Revising(d)
  BY DEF Revising, At
<1>3. \A a \in Analyzers : Drawn(a)'
  BY <1>1 DEF Books, Drawn
<1>4. ASSUME NEW d \in Ids PROVE Entries(d)' /\ Counted(d)'
  <2>1. Entries(d) /\ Counted(d)
    BY DEF Books
  <2>2. Counted(d)'
    BY <1>1, <1>2, <2>1, Numbers DEF Counted
  <2> QED
    BY <1>1, <2>1, <2>2 DEF Entries
<1> QED
  BY <1>3, <1>4 DEF Books

\* An index is drawn.
LEMMA ReadIndexKeeps == ASSUME Shape, Books, NEW a \in Analyzers, item[a] \in Ids, ReadIndex(a) PROVE Books'
<1> USE DEF ReadIndex, At, Goto, rowVars, copyVars, mergeVars, budgets, Shape
<1>1. \A d : Revisions(d)' = Revisions(d) /\ AcceptedOf(d)' = AcceptedOf(d)
  BY DEF Revisions, AcceptedOf
<1>2. \A d : Revising(d)' = Revising(d)
  BY DEF Revising, At
<1>3. Drawn(a)'
  <2>1. index'[a] = Cardinality(Revisions(item[a])) + 1 /\ item'[a] = item[a]
    BY NextIndexIs DEF Books
  <2>2. Cardinality(Revisions(item[a])) \in Nat
    BY FS_CardinalityType DEF Books, Entries
  <2> QED
    BY <1>1, <2>1, <2>2 DEF Drawn
<1>4. \A b \in Analyzers \ {a} : Drawn(b)'
  BY <1>1 DEF Books, Drawn
<1>5. \A d \in Ids : Entries(d)' /\ Counted(d)'
  BY <1>1, <1>2 DEF Books, Entries, Counted
<1> QED
  BY <1>3, <1>4, <1>5 DEF Books

\* An entry is made: its index is free, hence the next.
LEMMA AppendKeeps ==
  ASSUME Shape, Books, NEW a \in Analyzers, NEW d \in Ids, item[a] = d, Append(a) PROVE Books'
<1> DEFINE N == Cardinality(Revisions(d))
           e == [id |-> d, index |-> index[a], accepted |-> Accepted(a)]
<1>1. N \in Nat /\ index[a] \in 1..(N + 1) /\ ~Taken(a) /\ {x.index : x \in Revisions(d)} = 1..N
      /\ IsFiniteSet(Revisions(d))
  BY FS_CardinalityType DEF Append, At, Books, Drawn, Entries
<1>2. index[a] = N + 1 /\ e \notin Revisions(d)
  <2>1. index[a] \notin 1..N
    BY <1>1 DEF Taken
  <2>2. e \notin Revisions(d)
    BY <1>1 DEF Taken
  <2> QED
    BY <1>1, <2>1, <2>2
<1>3. ledger' = ledger \cup {e} /\ revisions' = revisions /\ faults' = faults /\ DOMAIN index' = Analyzers
  BY DEF Append, rowVars, budgets, NextRow, Books
<1>4. Revisions(d)' = Revisions(d) \cup {e} /\ \A c : c # d => Revisions(c)' = Revisions(c)
  BY <1>3 DEF Revisions
<1>5. Cardinality(Revisions(d)') = N + 1 /\ IsFiniteSet(Revisions(d)')
  BY <1>1, <1>2, <1>4, FS_AddElement
<1>6. Entries(d)'
  <2>1. {x.index : x \in Revisions(d)'} = {x.index : x \in Revisions(d)} \cup {N + 1}
    BY <1>2, <1>4
  <2>2. 1..N \cup {N + 1} = 1..(N + 1)
    BY <1>1
  <2> QED
    BY <1>1, <1>5, <2>1, <2>2 DEF Entries
<1>7. \A c \in Ids : c # d => Entries(c)'
  BY <1>4 DEF Books, Entries
<1>8. \A b \in Analyzers : Drawn(b)'
  <2> SUFFICES ASSUME NEW b \in Analyzers, pc'[b] = "append" PROVE Drawn(b)'
    BY DEF Drawn
  <2>1. b # a /\ pc[b] = "append" /\ index'[b] = index[b] /\ item'[b] = item[b]
    BY DEF Append, At, Goto, NextRow, Shape, Books
  <2>2. index[b] \in 1..(Cardinality(Revisions(item[b])) + 1)
    BY <2>1 DEF Books, Drawn
  <2>3. CASE item[b] = d
    <3>1. index[b] \in 1..(Cardinality(Revisions(d)') + 1)
      BY <1>1, <1>5, <2>2, <2>3
    <3> QED
      BY <2>1, <2>3, <3>1 DEF Drawn, Revisions
  <2>4. CASE item[b] # d
    <3>1. {x \in ledger' : x.id = item[b]} = {x \in ledger : x.id = item[b]}
      BY <1>3, <2>4
    <3> QED
      BY <2>1, <2>2, <3>1 DEF Drawn, Revisions
  <2> QED
    BY <2>3, <2>4
<1>9. \A c \in Ids : c # d => Counted(c)'
  <2>1. \A c : c # d => Revising(c)' = Revising(c)
    BY DEF Append, At, Goto, NextRow, Shape, Revising
  <2>2. \A c : c # d => AcceptedOf(c)' = AcceptedOf(c)
    BY <1>4 DEF AcceptedOf
  <2> QED
    BY <1>3, <2>1, <2>2 DEF Books, Counted
<1>10. Counted(d)'
  <2>1. Entries(d) /\ Counted(d)
    BY DEF Books
  <2>2. a \notin Revising(d)
    BY DEF Append, At, Revising
  <2>3. CASE Accepted(a)
    <3>1. Revising(d)' = Revising(d) \cup {a}
      BY <2>3 DEF Append, At, Goto, Shape, Revising
    <3>2. AcceptedOf(d)' = AcceptedOf(d) \cup {e} /\ e \notin AcceptedOf(d)
      BY <1>2, <1>4, <2>3 DEF AcceptedOf
    <3>3. /\ Cardinality(Revising(d)') = Cardinality(Revising(d)) + 1
          /\ Cardinality(AcceptedOf(d)') = Cardinality(AcceptedOf(d)) + 1
      <4>1. IsFiniteSet(Revising(d)) /\ IsFiniteSet(AcceptedOf(d))
        BY <2>1, Numbers
      <4>2. Cardinality(Revising(d) \cup {a}) = Cardinality(Revising(d)) + 1
        BY <2>2, <4>1, FS_AddElement
      <4>3. Cardinality(AcceptedOf(d) \cup {e}) = Cardinality(AcceptedOf(d)) + 1
        BY <3>2, <4>1, FS_AddElement
      <4> QED
        BY <3>1, <3>2, <4>2, <4>3
    <3> QED
      BY <1>3, <2>1, <3>3, Numbers DEF Counted
  <2>4. CASE ~Accepted(a)
    <3>1. Revising(d)' = Revising(d)
      BY <2>2, <2>4 DEF Append, At, Goto, NextRow, Shape, Revising
    <3>2. AcceptedOf(d)' = AcceptedOf(d)
      BY <1>4, <2>4 DEF AcceptedOf
    <3> QED
      BY <1>3, <2>1, <3>1, <3>2 DEF Counted
  <2> QED
    BY <2>3, <2>4
<1> QED
  BY <1>3, <1>6, <1>7, <1>8, <1>9, <1>10 DEF Books

\* A revision under way ends, counted or cut off.
LEMMA RevisionEnds ==
  ASSUME Shape, Books, Shape', NEW a \in Analyzers, ledger' = ledger, DOMAIN index' = Analyzers,
         pc'[a] \notin {"append", "revise"},
         \A b \in Analyzers \ {a} : pc'[b] = pc[b] /\ item'[b] = item[b] /\ index'[b] = index[b],
         \A d \in Ids :
           IF pc[a] = "revise" /\ item[a] = d
           THEN \/ revisions'[d] = revisions[d] + 1 /\ faults' = faults
                \/ revisions'[d] = revisions[d] /\ faults' = faults + 1
           ELSE revisions'[d] = revisions[d] /\ faults' \in {faults, faults + 1}
  PROVE  Books'
<1>1. \A d : Revisions(d)' = Revisions(d) /\ AcceptedOf(d)' = AcceptedOf(d)
  BY DEF Revisions, AcceptedOf
<1>2. \A b \in Analyzers : Drawn(b)'
  BY <1>1 DEF Books, Drawn
<1>3. ASSUME NEW d \in Ids PROVE Entries(d)' /\ Counted(d)'
  <2>1. Entries(d) /\ Counted(d)
    BY DEF Books
  <2>2. Entries(d)'
    BY <1>1, <2>1 DEF Entries
  <2>3. CASE pc[a] = "revise" /\ item[a] = d
    <3>1. a \in Revising(d) /\ Revising(d)' = Revising(d) \ {a}
      BY <2>3 DEF Revising, At
    <3>2. Cardinality(Revising(d)') = Cardinality(Revising(d)) - 1
      BY <2>1, <3>1, Numbers, FS_RemoveElement
    <3>3. \/ revisions'[d] = revisions[d] + 1 /\ faults' = faults
          \/ revisions'[d] = revisions[d] /\ faults' = faults + 1
      BY <2>3
    <3>4. Counted(d)'
      BY <1>1, <2>1, <3>2, <3>3, Numbers DEF Counted
    <3> QED
      BY <2>2, <3>4
  <2>4. CASE ~(pc[a] = "revise" /\ item[a] = d)
    <3>1. Revising(d)' = Revising(d)
      BY <2>4 DEF Revising, At
    <3>2. revisions'[d] = revisions[d] /\ faults' \in {faults, faults + 1}
      BY <2>4
    <3>3. Counted(d)'
      BY <1>1, <2>1, <3>1, <3>2, Numbers DEF Counted
    <3> QED
      BY <2>2, <3>3
  <2> QED
    BY <2>3, <2>4
<1> QED
  BY <1>2, <1>3 DEF Books

\* It is counted.
LEMMA ReviseKeeps == ASSUME Shape, Shape', Books, NEW a \in Analyzers, Revise(a) PROVE Books'
<1> USE DEF Revise, At, Goto, NextRow, Shape, Books, budgets
<1>1. \A d \in Ids : IF pc[a] = "revise" /\ item[a] = d
                     THEN revisions'[d] = revisions[d] + 1 /\ faults' = faults
                     ELSE revisions'[d] = revisions[d] /\ faults' \in {faults, faults + 1}
  OBVIOUS
<1>2. /\ ledger' = ledger /\ DOMAIN index' = Analyzers /\ pc'[a] = "policy"
      /\ \A b \in Analyzers \ {a} : pc'[b] = pc[b] /\ item'[b] = item[b] /\ index'[b] = index[b]
  OBVIOUS
<1> QED
  BY <1>1, <1>2, RevisionEnds

\* It is cut off.
LEMMA AbortKeeps == ASSUME Shape, Shape', Books, NEW a \in Analyzers, Abort(a) PROVE Books'
<1> USE DEF Abort, Ends, Goto, Shape, Books, rowVars
<1>1. \A d \in Ids : revisions'[d] = revisions[d] /\ faults' = faults + 1
  OBVIOUS
<1>2. /\ ledger' = ledger /\ DOMAIN index' = Analyzers /\ pc'[a] = "idle"
      /\ \A b \in Analyzers \ {a} : pc'[b] = pc[b] /\ item'[b] = item[b] /\ index'[b] = index[b]
  OBVIOUS
<1> QED
  BY <1>1, <1>2, RevisionEnds

\* A step of a user is not about the ledger.
LEMMA UserPlain ==
  ASSUME Shape, DOMAIN index = Analyzers, (\E u \in Users : UserStep(u)) \/ UNCHANGED vars PROVE Plain
  BY DEF Shape, Plain, UserStep, AskFor, Patch, vars, rowVars, policyVars, budgets

\* Every step keeps the books.
LEMMA BooksStep == ASSUME IInv, IInv', Books, [Next]_vars PROVE Books'
<1>1. Shape /\ Shape' /\ DOMAIN index = Analyzers
  BY DEF IInv, Books
<1>2. ASSUME NEW a \in Analyzers, MergeStep(a) \/ PolicyStep(a) PROVE Books'
  <2>1. pc[a] \in RevisionSteps => item[a] \in Ids
    BY DEF IInv, Local, Stock, Shape
  <2>2. ReadIndex(a) \/ Append(a) => item[a] \in Ids
    BY <2>1 DEF ReadIndex, Append, At, RevisionSteps
  <2> QED
    BY <1>1, <1>2, <2>2, PlainCases, PlainKeeps, ReadIndexKeeps, AppendKeeps, ReviseKeeps, AbortKeeps
<1>3. CASE (\E u \in Users : UserStep(u)) \/ UNCHANGED vars
  BY <1>1, <1>3, UserPlain, PlainKeeps
<1> QED
  BY <1>2, <1>3 DEF Next

\* The entries there are at first.
LEMMA BooksStart == ASSUME Init PROVE Books
<1>1. DOMAIN index = Analyzers /\ (\A a \in Analyzers : Drawn(a)) /\ (\A d : Revising(d) = {}) /\ faults = 0
  BY DEF Init, Drawn, Revising, At
<1>2. PICK n \in 0..RevisionCap, W \in SUBSET Ids :
        /\ ledger = [id : W, index : 1..n, accepted : {TRUE}]
        /\ \A d \in Ids : revisions[d] = IF d \in W THEN n ELSE 0
  <2>1. PICK owner \in [Stored -> Ids], n \in 0..RevisionCap :
          LET of(d) == IF d \in rows THEN CHOOSE p \in Stored : owner[p] = d
                       ELSE CHOOSE p \in Patterns : TRUE
              was(d) == d \in rows /\ Hint[of(d).flag] # None /\ n > 0
          IN /\ rows = {owner[p] : p \in Stored}
             /\ revisions = [d \in Ids |-> IF was(d) THEN n ELSE 0]
             /\ ledger = [id : {d \in rows : was(d)}, index : 1..n, accepted : {TRUE}]
    BY Zenon DEF Init
  <2> DEFINE of(d) == IF d \in rows THEN CHOOSE p \in Stored : owner[p] = d
                      ELSE CHOOSE p \in Patterns : TRUE
             was(d) == d \in rows /\ Hint[of(d).flag] # None /\ n > 0
             W == {d \in rows : was(d)}
  <2>2. revisions = [d \in Ids |-> IF was(d) THEN n ELSE 0]
        /\ ledger = [id : W, index : 1..n, accepted : {TRUE}] /\ rows = {owner[p] : p \in Stored}
    BY <2>1
  <2> HIDE DEF of
  <2>3. W \in SUBSET Ids /\ \A d \in Ids : was(d) <=> d \in W
    BY <2>2
  <2> HIDE DEF was, W
  <2>4. \A d \in Ids : revisions[d] = IF d \in W THEN n ELSE 0
    BY <2>2, <2>3
  <2> QED
    BY <2>2, <2>3, <2>4
<1>3. n \in Nat
  BY PolicyAssumption
<1>4. ASSUME NEW d \in Ids PROVE Entries(d) /\ Counted(d)
  <2>1. CASE d \notin W
    <3>1. Revisions(d) = {} /\ AcceptedOf(d) = {} /\ revisions[d] = 0
      BY <1>2, <2>1 DEF Revisions, AcceptedOf
    <3>2. 1..0 = {}
      OBVIOUS
    <3> QED
      BY <1>1, <3>1, <3>2, FS_EmptySet DEF Entries, Counted
  <2>2. CASE d \in W
    <3> DEFINE f == [i \in 1..n |-> [id |-> d, index |-> i, accepted |-> TRUE]]
    <3>1. Revisions(d) = AcceptedOf(d)
      BY <1>2 DEF Revisions, AcceptedOf
    <3>2. \A i \in 1..n : f[i] \in Revisions(d) /\ f[i].index = i
      BY <1>2, <2>2 DEF Revisions
    <3>3. \A e \in Revisions(d) : e.index \in 1..n /\ e = f[e.index]
      <4> SUFFICES ASSUME NEW e \in Revisions(d) PROVE e.index \in 1..n /\ e = f[e.index]
        OBVIOUS
      <4>1. e \in [id : W, index : 1..n, accepted : {TRUE}] /\ e.id = d
        BY <1>2 DEF Revisions
      <4>2. e = [id |-> e.id, index |-> e.index, accepted |-> e.accepted] /\ e.index \in 1..n
            /\ e.accepted = TRUE
        BY <4>1
      <4> QED
        BY <4>1, <4>2
    <3>3a. f \in [1..n -> Revisions(d)] /\ (\A i, j \in 1..n : f[i] = f[j] => i = j)
           /\ (\A e \in Revisions(d) : \E i \in 1..n : f[i] = e)
      BY <3>2, <3>3
    <3> HIDE DEF f
    <3>4. IsFiniteSet(Revisions(d)) /\ Cardinality(Revisions(d)) = n
      <4>0. f \in Injection(1..n, Revisions(d)) /\ f \in Surjection(1..n, Revisions(d))
        <5> DEFINE T == Revisions(d)
        <5>1. f \in [1..n -> T] /\ (\A i, j \in 1..n : f[i] = f[j] => i = j)
              /\ (\A t \in T : \E i \in 1..n : f[i] = t)
          BY <3>3a
        <5> HIDE DEF T
        <5>2. f \in Injection(1..n, T)
          BY <5>1 DEF Injection, IsInjective
        <5>3. f \in Surjection(1..n, T)
          BY <5>1 DEF Surjection
        <5> QED
          BY <5>2, <5>3 DEF T
      <4>1. f \in Bijection(1..n, Revisions(d))
        BY <4>0, Zenon DEF Bijection
      <4> QED
        BY <1>3, <4>1, FS_NatBijection, FS_CountingElements DEF ExistsBijection
    <3>5. {e.index : e \in Revisions(d)} = 1..n
      BY <3>2, <3>3
    <3>6. revisions[d] = n /\ Cardinality(Revising(d)) = 0
      BY <1>1, <1>2, <2>2, FS_EmptySet
    <3> QED
      BY <1>1, <1>3, <3>1, <3>4, <3>5, <3>6 DEF Entries, Counted
  <2> QED
    BY <2>1, <2>2
<1> QED
  BY <1>1, <1>4 DEF Books

\* The ledger tells of every accepted revision, without a gap, though processes draw its indexes and
\* write the two tables one after the other.
THEOREM Ledger == Spec => []LedgerMatches
<1>1. Init => IInv /\ Books
  BY Start, BooksStart
<1>2. (IInv /\ Books) /\ [Next]_vars => (IInv /\ Books)'
  BY Step, BooksStep
<1>3. IInv /\ Books => LedgerMatches
  BY DEF IInv, Shape, Books, Entries, Counted, LedgerMatches
<1> QED
  BY <1>1, <1>2, <1>3, PTL DEF Spec
-----------------------------------------------------------------------------
\* Types

\* The columns of the rows.
Columns ==
  /\ status \in [Ids -> Statuses] /\ text \in [Ids -> Texts] /\ flag \in [Ids -> Flags]
  /\ source \in [Ids -> Sources] /\ weight \in [Ids -> 0..MaxWeight] /\ miss \in [Ids -> Nat]

\* The ledger and the places of the aggregations.
Tables ==
  /\ ledger \subseteq [id : rows, index : Nat, accepted : BOOLEAN]
  /\ pc \in [Analyzers -> {"idle"} \cup Steps] /\ DOMAIN pattern = Analyzers
  /\ item \in [Analyzers -> rows \cup {None}]

\* What an aggregation has at hand.
Held(a) ==
  /\ queue[a] \subseteq Patterns
  /\ pc[a] \in {"supersede", "reactivate", "upsert", "readback"} => pattern[a] \in Patterns
  /\ match[a] # None => match[a].id \in rows
  /\ \A r \in todo[a] : r.weight \in 0..MaxWeight /\ r.miss \in Nat
  /\ pc[a] = "revise" => Hint[flag[item[a]]] # None

\* A user asks for one of two statuses.
Asked ==
  DOMAIN ask = Users /\ \A u \in Users : ask[u] # None => ask[u].id \in rows /\ ask[u].to \in {"active", "disabled"}

Typed == Columns /\ Tables /\ Asked /\ \A a \in Analyzers : Held(a)

\* A step of another leaves what a holds alone; flags of rows stay.
Others(a) ==
  /\ queue'[a] = queue[a] /\ pattern'[a] = pattern[a] /\ pc'[a] = pc[a] /\ match'[a] = match[a]
  /\ item'[a] = item[a] /\ todo'[a] = todo[a] /\ rows \subseteq rows' /\ \A d \in rows : flag'[d] = flag[d]

\* The types of a verdict.
LEMMA PolicyTypes ==
  \A a, r : r.status \in Resolvable /\ r.weight \in 0..MaxWeight /\ r.miss \in Nat =>
    /\ Policy(a, r).status \in Statuses /\ Policy(a, r).weight \in 0..MaxWeight /\ Policy(a, r).miss \in Nat
  BY PolicyAssumption DEF Policy, Decayed, Missed, Less, Least, Statuses, Resolvable

\* A step of an aggregation keeps the types.
LEMMA TypesOf ==
  ASSUME Shape, Typed, NEW a \in Analyzers, Local(a), Drawn(a), MergeStep(a) \/ PolicyStep(a)
  PROVE  Columns' /\ Tables' /\ Held(a)' /\ \A b \in Analyzers \ {a} : Others(b)
<1> USE DEF Shape, Typed, Columns, Tables, Held, Local, Known, Fresh, Stock, Phase, MergeSteps, PolicySteps, RevisionSteps, Statuses, Steps,
            rowVars, copyVars, mergeVars, policyVars, budgets, Goto, At
<1>1. CASE Begin(a)
  <2> USE <1>1 DEF Begin
  <2>1. Columns'
    BY DEF Columns
  <2>2. Tables'
    BY DEF Tables
  <2>3. Held(a)'
    BY DEF Held
  <2>4. \A b \in Analyzers \ {a} : Others(b)
    BY DEF Others
  <2> QED
    BY <2>1, <2>2, <2>3, <2>4
<1>2. CASE ReadConventions(a)
  <2> USE <1>2 DEF ReadConventions
  <2>1. Columns'
    BY DEF Columns
  <2>2. Tables'
    BY DEF Tables
  <2>3. Held(a)'
    BY DEF Held
  <2>4. \A b \in Analyzers \ {a} : Others(b)
    BY DEF Others
  <2> QED
    BY <2>1, <2>2, <2>3, <2>4
<1>3. CASE Add(a)
  <2> USE <1>3 DEF Add, Write
  <2>1. Columns'
    BY IdentityOf DEF Columns
  <2>2. Tables'
    BY IdentityOf DEF Tables
  <2>3. Held(a)'
    BY IdentityOf DEF Held
  <2>4. \A b \in Analyzers \ {a} : Others(b)
    BY DEF Others
  <2> QED
    BY <2>1, <2>2, <2>3, <2>4
<1>4. CASE AddLonger(a)
  <2> USE <1>4 DEF AddLonger
  <2>1. Columns'
    BY IdentityOf DEF Columns
  <2>2. Tables'
    BY IdentityOf DEF Tables
  <2>3. Held(a)'
    BY IdentityOf DEF Held
  <2>4. \A b \in Analyzers \ {a} : Others(b)
    BY DEF Others
  <2> QED
    BY <2>1, <2>2, <2>3, <2>4
<1>5. CASE Drop(a)
  <2> USE <1>5 DEF Drop
  <2>1. Columns'
    BY DEF Columns
  <2>2. Tables'
    BY DEF Tables
  <2>3. Held(a)'
    BY DEF Held
  <2>4. \A b \in Analyzers \ {a} : Others(b)
    BY DEF Others
  <2> QED
    BY <2>1, <2>2, <2>3, <2>4
<1>6. CASE Supersede(a)
  <2> USE <1>6 DEF Supersede, SetStatus, Write
  <2>1. Columns'
    BY DEF Columns
  <2>2. Tables'
    BY DEF Tables
  <2>3. Held(a)'
    BY DEF Held
  <2>4. \A b \in Analyzers \ {a} : Others(b)
    BY DEF Others
  <2> QED
    BY <2>1, <2>2, <2>3, <2>4
<1>7. CASE SupersedeFails(a)
  <2> USE <1>7 DEF SupersedeFails, Write
  <2>1. Columns'
    BY DEF Columns
  <2>2. Tables'
    BY DEF Tables
  <2>3. Held(a)'
    BY DEF Held
  <2>4. \A b \in Analyzers \ {a} : Others(b)
    BY DEF Others
  <2> QED
    BY <2>1, <2>2, <2>3, <2>4
<1>8. CASE Reactivate(a)
  <2> USE <1>8 DEF Reactivate, SetStatus
  <2>1. Columns'
    BY DEF Columns
  <2>2. Tables'
    BY DEF Tables
  <2>3. Held(a)'
    BY DEF Held
  <2>4. \A b \in Analyzers \ {a} : Others(b)
    BY DEF Others
  <2> QED
    BY <2>1, <2>2, <2>3, <2>4
<1>9. CASE ReactivateFails(a)
  <2> USE <1>9 DEF ReactivateFails
  <2>1. Columns'
    BY DEF Columns
  <2>2. Tables'
    BY DEF Tables
  <2>3. Held(a)'
    BY DEF Held
  <2>4. \A b \in Analyzers \ {a} : Others(b)
    BY DEF Others
  <2> QED
    BY <2>1, <2>2, <2>3, <2>4
<1>10. CASE UpsertOld(a)
  <2> USE <1>10 DEF UpsertOld
  <2>0. pattern[a].text \in Texts /\ pattern[a].source \in Sources /\ match[a].id \in Ids
    BY DataAssumption
  <2>1. Columns'
    BY <2>0
  <2>2. Tables'
    BY DEF Tables
  <2>3. Held(a)'
    BY DEF Held
  <2>4. \A b \in Analyzers \ {a} : Others(b)
    BY DEF Others
  <2> QED
    BY <2>1, <2>2, <2>3, <2>4
<1>11. CASE UpsertNew(a)
  <2> USE <1>11 DEF UpsertNew
  <2>0. pattern[a].text \in Texts /\ pattern[a].source \in Sources /\ pattern[a].flag \in Flags
    BY DataAssumption
  <2>1. Columns'
    BY <2>0
  <2>2. Tables'
    BY DEF Tables
  <2>3. Held(a)'
    BY DEF Held
  <2>4. \A b \in Analyzers \ {a} : Others(b)
    BY DEF Others
  <2> QED
    BY <2>1, <2>2, <2>3, <2>4
<1>12. CASE ReadBack(a)
  <2> USE <1>12 DEF ReadBack
  <2>1. Columns'
    BY DEF Columns
  <2>2. Tables'
    BY DEF Tables
  <2>3. Held(a)'
    BY DEF Held
  <2>4. \A b \in Analyzers \ {a} : Others(b)
    BY DEF Others
  <2> QED
    BY <2>1, <2>2, <2>3, <2>4
<1>13. CASE ListForPolicy(a)
  <2> USE <1>13 DEF ListForPolicy, PolicyCopy, In
  <2>1. Columns'
    BY DEF Columns
  <2>2. Tables'
    BY DEF Tables
  <2>3. Held(a)'
    BY DEF Held
  <2>4. \A b \in Analyzers \ {a} : Others(b)
    BY DEF Others
  <2> QED
    BY <2>1, <2>2, <2>3, <2>4
<1>14. CASE ApplyPolicy(a)
  <2> USE <1>14 DEF ApplyPolicy
  <2>1. Columns'
    BY PolicyTypes DEF Columns
  <2>2. Tables'
    BY PolicyTypes DEF Tables
  <2>3. Held(a)'
    BY PolicyTypes DEF Held
  <2>4. \A b \in Analyzers \ {a} : Others(b)
    BY DEF Others
  <2> QED
    BY <2>1, <2>2, <2>3, <2>4
<1>15. CASE Refresh(a)
  <2> USE <1>15 DEF Refresh
  <2>1. Columns'
    BY DEF Columns
  <2>2. Tables'
    BY DEF Tables
  <2>3. Held(a)'
    BY DEF Held
  <2>4. \A b \in Analyzers \ {a} : Others(b)
    BY DEF Others
  <2> QED
    BY <2>1, <2>2, <2>3, <2>4
<1>16. CASE ReadIndex(a)
  <2> USE <1>16 DEF ReadIndex
  <2>1. Columns'
    BY DEF Columns
  <2>2. Tables'
    BY DEF Tables
  <2>3. Held(a)'
    BY DEF Held
  <2>4. \A b \in Analyzers \ {a} : Others(b)
    BY DEF Others
  <2> QED
    BY <2>1, <2>2, <2>3, <2>4
<1>17. CASE Append(a)
  <2> USE <1>17 DEF Append, NextRow, Accepted, HintOf
  <2>0. index[a] \in Nat /\ item[a] \in rows
    BY DEF Drawn
  <2>00. Accepted(a) \in BOOLEAN
    BY Zenon
  <2>1. Columns'
    BY DEF Columns
  <2>2. Tables'
    <3>1. [id |-> item[a], index |-> index[a], accepted |-> Accepted(a)] \in [id : rows, index : Nat, accepted : BOOLEAN]
      BY <2>0, <2>00
    <3> HIDE DEF Accepted
    <3> QED
      BY <3>1
  <2>3. Held(a)'
    BY DEF Held
  <2>4. \A b \in Analyzers \ {a} : Others(b)
    BY DEF Others
  <2> QED
    BY <2>1, <2>2, <2>3, <2>4
<1>18. CASE Revise(a)
  <2> USE <1>18 DEF Revise, NextRow, HintOf
  <2>1. Columns'
    BY DataAssumption DEF Columns
  <2>2. Tables'
    BY DataAssumption DEF Tables
  <2>3. Held(a)'
    BY DataAssumption DEF Held
  <2>4. \A b \in Analyzers \ {a} : Others(b)
    BY DEF Others
  <2> QED
    BY <2>1, <2>2, <2>3, <2>4
<1>19. CASE ListForCapacity(a)
  <2> USE <1>19 DEF ListForCapacity
  <2>1. Columns'
    BY DEF Columns
  <2>2. Tables'
    BY DEF Tables
  <2>3. Held(a)'
    BY DEF Held
  <2>4. \A b \in Analyzers \ {a} : Others(b)
    BY DEF Others
  <2> QED
    BY <2>1, <2>2, <2>3, <2>4
<1>20. CASE BelowCapacity(a)
  <2> USE <1>20 DEF BelowCapacity, Ends
  <2>1. Columns'
    BY DEF Columns
  <2>2. Tables'
    BY DEF Tables
  <2>3. Held(a)'
    BY DEF Held
  <2>4. \A b \in Analyzers \ {a} : Others(b)
    BY DEF Others
  <2> QED
    BY <2>1, <2>2, <2>3, <2>4
<1>21. CASE Retire(a)
  <2> USE <1>21 DEF Retire, Ends
  <2>1. Columns'
    BY DEF Columns
  <2>2. Tables'
    BY DEF Tables
  <2>3. Held(a)'
    BY DEF Held
  <2>4. \A b \in Analyzers \ {a} : Others(b)
    BY DEF Others
  <2> QED
    BY <2>1, <2>2, <2>3, <2>4
<1>22. CASE AppendConflict(a)
  <2> USE <1>22 DEF AppendConflict, Ends
  <2>1. Columns'
    BY DEF Columns
  <2>2. Tables'
    BY DEF Tables
  <2>3. Held(a)'
    BY DEF Held
  <2>4. \A b \in Analyzers \ {a} : Others(b)
    BY DEF Others
  <2> QED
    BY <2>1, <2>2, <2>3, <2>4
<1>23. CASE Abort(a)
  <2> USE <1>23 DEF Abort, Ends
  <2>1. Columns'
    BY DEF Columns
  <2>2. Tables'
    BY DEF Tables
  <2>3. Held(a)'
    BY DEF Held
  <2>4. \A b \in Analyzers \ {a} : Others(b)
    BY DEF Others
  <2> QED
    BY <2>1, <2>2, <2>3, <2>4
<1> QED
  BY <1>1, <1>2, <1>3, <1>4, <1>5, <1>6, <1>7, <1>8, <1>9, <1>10, <1>11, <1>12, <1>13, <1>14, <1>15, <1>16,
     <1>17, <1>18, <1>19, <1>20, <1>21, <1>22, <1>23 DEF MergeStep, PolicyStep

\* So does a step of a user.
LEMMA TypesOfUser == ASSUME Shape, Typed, NEW u \in Users, UserStep(u) PROVE Typed'
<1> USE DEF rowVars, copyVars, mergeVars, policyVars, budgets
<1>1. CASE AskFor(u)
  BY <1>1 DEF AskFor, Typed, Columns, Tables, Asked, Held
<1>2. CASE Patch(u)
  BY <1>2 DEF Patch, SetStatus, Typed, Columns, Tables, Asked, Held, Statuses
<1> QED
  BY <1>1, <1>2 DEF UserStep

\* Every step keeps the types.
LEMMA TypesStep == ASSUME IInv, Books, Typed, [Next]_vars PROVE Typed'
<1>1. ASSUME NEW a \in Analyzers, MergeStep(a) \/ PolicyStep(a) PROVE Typed'
  <2>1. Columns' /\ Tables' /\ Held(a)' /\ \A b \in Analyzers \ {a} : Others(b)
    BY <1>1, TypesOf DEF IInv, Books
  <2>2. \A b \in Analyzers \ {a} : Held(b)'
    BY <2>1, ActorAssumption DEF Others, Held, Typed, IInv, Local, Stock, RevisionSteps
  <2>3. ask' = ask /\ rows \subseteq rows'
    BY <1>1 DEF MergeStep, PolicyStep, Begin, ReadConventions, Add, AddLonger, Drop, Supersede, SupersedeFails, Reactivate,
                ReactivateFails, UpsertOld, UpsertNew, ReadBack, ListForPolicy, ApplyPolicy, Refresh, ReadIndex, Append,
                AppendConflict, Revise, ListForCapacity, BelowCapacity, Retire, Abort, rowVars
  <2> QED
    BY <2>1, <2>2, <2>3 DEF Typed, Asked
<1>2. CASE UNCHANGED vars
  BY <1>2 DEF vars, rowVars, copyVars, mergeVars, policyVars, budgets, Typed, Columns, Tables, Asked, Held
<1> QED
  BY <1>1, <1>2, TypesOfUser DEF Next, IInv

\* What is stored at first has its types.
LEMMA TypesStart == ASSUME Init PROVE Typed
<1>1. PICK owner \in [Stored -> Ids], n \in 0..RevisionCap, revised \in BOOLEAN :
        LET of(d) == IF d \in rows THEN CHOOSE p \in Stored : owner[p] = d
                     ELSE CHOOSE p \in Patterns : TRUE
            hint(d) == Hint[of(d).flag]
            was(d) == d \in rows /\ hint(d) # None /\ n > 0
        IN /\ \A p, q \in Stored : owner[p] = owner[q] => p = q
           /\ rows = {owner[p] : p \in Stored}
           /\ text = [d \in Ids |-> IF was(d) /\ revised THEN hint(d) ELSE of(d).text]
           /\ flag = [d \in Ids |-> of(d).flag]
           /\ source = [d \in Ids |-> of(d).source]
           /\ weight = [d \in Ids |->
                IF d \in rows THEN Least(MaxWeight, InitWeight + BoostDelta) ELSE InitWeight]
           /\ revisions = [d \in Ids |-> IF was(d) THEN n ELSE 0]
           /\ ledger = [id : {d \in rows : was(d)}, index : 1..n, accepted : {TRUE}]
  BY Zenon DEF Init
<1> DEFINE of(d) == IF d \in rows THEN CHOOSE p \in Stored : owner[p] = d
                    ELSE CHOOSE p \in Patterns : TRUE
           was(d) == d \in rows /\ Hint[of(d).flag] # None /\ n > 0
<1>2. /\ rows = {owner[p] : p \in Stored}
      /\ text = [d \in Ids |-> IF was(d) /\ revised THEN Hint[of(d).flag] ELSE of(d).text]
      /\ flag = [d \in Ids |-> of(d).flag] /\ source = [d \in Ids |-> of(d).source]
      /\ weight = [d \in Ids |-> IF d \in rows THEN Least(MaxWeight, InitWeight + BoostDelta) ELSE InitWeight]
      /\ ledger = [id : {d \in rows : was(d)}, index : 1..n, accepted : {TRUE}]
  BY <1>1
<1>3. ASSUME NEW d \in Ids PROVE of(d) \in Patterns
  BY <1>2, DataAssumption
<1> HIDE DEF of
<1>4. \A d \in Ids : /\ of(d).flag \in Flags /\ of(d).text \in Texts /\ of(d).source \in Sources
                     /\ Hint[of(d).flag] \in Texts \cup {None}
  BY <1>3, DataAssumption
<1>5. Columns
  <2>1. text \in [Ids -> Texts]
    BY <1>2, <1>4
  <2>2. weight \in [Ids -> 0..MaxWeight]
    BY <1>2, PolicyAssumption DEF Least
  <2> QED
    BY <1>2, <1>4, <2>1, <2>2 DEF Columns, Init, Statuses
<1>6. Tables
  <2>1. 1..n \subseteq Nat
    OBVIOUS
  <2> QED
    BY <1>2, <2>1 DEF Tables, Init
<1> QED
  BY <1>5, <1>6 DEF Typed, Asked, Held, Init

\* Type correctness: what an aggregation holds is of rows that are there, whatever others write.
THEOREM TypeCorrect == Spec => []TypeOK
<1>1. Init => IInv /\ Books /\ Typed
  BY Start, BooksStart, TypesStart
<1>2. (IInv /\ Books /\ Typed) /\ [Next]_vars => (IInv /\ Books /\ Typed)'
  BY Step, BooksStep, TypesStep
<1>3. IInv /\ Books /\ Typed => TypeOK
  <2> SUFFICES ASSUME IInv, Typed PROVE TypeOK
    OBVIOUS
  <2>1. \A a \in Analyzers : IdOf(match[a]) \in rows \cup {None}
    BY DEF Typed, Held, IdOf
  <2>2. \A a \in Analyzers : \A x \in scope[a] \cup conventions[a] : x.id \in rows
    BY DEF IInv, Local, Known
  <2> QED
    BY <2>1, <2>2 DEF IInv, Shape, Typed, Columns, Tables, TypeOK
<1> QED
  BY <1>1, <1>2, <1>3, PTL DEF Spec
================================================================================
