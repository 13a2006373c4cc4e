------------------------------ MODULE DirectiveMC ------------------------------
(***************************************************************************)
(* Instances of DirectiveLifecycle for TLC.                                *)
(***************************************************************************)
EXTENDS DirectiveLifecycle, TLC

CONSTANTS f1, f2, short, long, reworded, s1, s2, k1, k2

Pattern(f, t, s, k) == [flag |-> f, text |-> t, source |-> s, topic |-> k]

\* Two flag types whose patterns say nearly the same, one of them in more words.
Overlapping == {Pattern(f1, short, s1, k1), Pattern(f2, long, s2, k2)}

Earlier == {Pattern(f1, short, s1, k1)}

\* The rewrite of an f1 directive is as close to `short` as an identity needs.
SimilarityOf ==
  [t, u \in Texts |->
    IF t = u THEN 100 ELSE IF {t, u} = {short, long} THEN 70
    ELSE IF {t, u} = {short, reworded} THEN 55 ELSE 0]
CurriedSimilarity == [t \in Texts |-> [u \in Texts |-> SimilarityOf[t, u]]]
LengthOf == [t \in Texts |-> IF t = short THEN 1 ELSE 2]
HintFor == [f \in Flags |-> IF f = f1 THEN reworded ELSE None]

Symmetry == Permutations(Ids) \cup Permutations(Analyzers)

===============================================================================
