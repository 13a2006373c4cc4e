--------------------------- MODULE LLMRouter_proofs ---------------------------
(***************************************************************************)
(* Proofs about LLMRouter, for any timeout, number of repairs, number of   *)
(* prompts and length of the chain.                                        *)
(***************************************************************************)
EXTENDS LLMRouter, SequenceTheorems, TLAPS

\* The bounds are numbers.
Bounds == Timeout \in Nat /\ Repairs \in Nat /\ Prompts \in Nat /\ MaxFallbacks \in Nat

-----------------------------------------------------------------------------
\* The inductive invariant

\* The counters, and the clock within the budget.
Counts == attempt \in Nat /\ idx \in Nat /\ elapsed \in 0..Budget

\* A call runs for a user that has not been told yet.
Silent ==
  /\ idx > 0 => user # "none"
  /\ told # NotTold => idx = 0 /\ user # "none"

IInv == Counts /\ Silent

-----------------------------------------------------------------------------
\* Time and errors

\* What is left of the budget is not negative, and no request takes more.
LEMMA Limits ==
  ASSUME Bounds, Counts
  PROVE  /\ Budget \in Nat /\ elapsed \in Nat
         /\ Limit \in Nat /\ elapsed + Limit \in 0..Budget
         /\ \A d \in 0..Limit : elapsed + d \in 0..Budget
<1>1. Budget \in Nat
  BY DEF Bounds, Budget
<1>2. elapsed \in Nat /\ elapsed <= Budget
  BY <1>1 DEF Counts
<1>3. Limit \in Nat /\ Limit <= Budget - elapsed
  <2>1. CASE Budget - elapsed < Timeout
    BY <1>1, <1>2, <2>1 DEF Limit, Bounds
  <2>2. CASE ~(Budget - elapsed < Timeout)
    BY <1>1, <1>2, <2>2 DEF Limit, Bounds
  <2> QED
    BY <2>1, <2>2
<1>4. elapsed + Limit \in 0..Budget
  BY <1>1, <1>2, <1>3
<1>5. \A d \in 0..Limit : elapsed + d \in 0..Budget
  BY <1>1, <1>2, <1>3
<1> QED
  BY <1>1, <1>2, <1>3, <1>4, <1>5

\* An error that is not about the answer is never classed as one.
LEMMA NotAnswer ==
  /\ \A class, b : AttemptClass(class, b) # "invalid_output"
  /\ "transport_timeout" # "invalid_output" /\ "fatal_auth_or_config" # "invalid_output"
  BY DEF AttemptClass

\* The user's call begins again from the primary.
Repeating == attempt' = attempt + 1 /\ attempt <= Repairs /\ idx' = 1 /\ elapsed' = 0 /\ UNCHANGED told

\* It fails.
Failing(t) == told' # NotTold /\ idx' = 0 /\ elapsed' = t /\ UNCHANGED attempt

\* An error of the router starts the chain again only if it is about the answer.
LEMMA RaiseCases ==
  ASSUME Bounds, Counts, NEW class, NEW tried, NEW t, Raise(class, tried, t)
  PROVE  (class = "invalid_output" /\ Repeating) \/ Failing(t)
<1>1. CASE user = "dispatcher" /\ ShouldRetry(class, attempt, Repairs + 1)
  <2>1. class = "invalid_output" /\ attempt <= Repairs
    BY <1>1 DEF ShouldRetry, RetryMode, Repairable, Transport, Counts, Bounds
  <2> QED
    BY <1>1, <2>1 DEF Raise, StartChain, Repeating
<1>2. CASE ~(user = "dispatcher" /\ ShouldRetry(class, attempt, Repairs + 1))
  <2>1. Fails(class, tried, t)
    BY <1>2 DEF Raise
  <2>2. told'.status = "failure" /\ idx' = 0 /\ elapsed' = t /\ attempt' = attempt
    BY <2>1 DEF Fails, EndChain
  <2> QED
    BY <2>2 DEF Failing, NotTold
<1> QED
  BY <1>1, <1>2

\* The next model is asked.
Falling(t) == idx' = idx + 1 /\ elapsed' = t /\ UNCHANGED <<attempt, told>>

\* After an attempt whose error is not about the answer: the next model, or the end.
LEMMA NextModelCases ==
  ASSUME Bounds, Counts, NEW class, NEW t, NextModel(class, t)
  PROVE  Falling(t) \/ Failing(t)
<1>1. CASE idx = Len(chain)
  BY <1>1, RaiseCases, NotAnswer DEF NextModel
<1>2. CASE idx # Len(chain) /\ t >= Budget
  BY <1>2, RaiseCases, NotAnswer DEF NextModel
<1>3. CASE idx # Len(chain) /\ ~(t >= Budget)
  BY <1>3 DEF NextModel, Falling
<1> QED
  BY <1>1, <1>2, <1>3

-----------------------------------------------------------------------------
\* What each action does

\* The construction of a router, with or without success.
Constructing ==
  /\ user = "none" /\ user' # "none" /\ elapsed' = elapsed
  /\ \/ attempt' = 1 /\ told' = told
     \/ attempt' = attempt /\ told' # NotTold /\ told'.reason = "none"
  /\ idx' = IF told' = NotTold THEN 1 ELSE 0

\* The request under way ends in one of four ways.
Answering ==
  /\ idx' = 1 /\ elapsed' = 0 /\ UNCHANGED <<attempt, told>>

Telling == told' # NotTold /\ idx' = 0 /\ elapsed' \in 0..Budget /\ UNCHANGED attempt

Going ==
  /\ idx > 0 /\ UNCHANGED user
  /\ \/ Answering
     \/ Telling
     \/ Repeating /\ last'.invalid
     \/ \E t \in 0..Budget : Falling(t) /\ ~last'.invalid

\* Who builds the router.
LEMMA BeginCases ==
  ASSUME NEW who \in {"dispatcher", "agent"}, NEW c, NEW k, NEW n, user = "none", Begin(who, c, k, n)
  PROVE  Constructing
<1>1. \/ told' = told /\ attempt' = 1
      \/ told' = [NotTold EXCEPT !.status = "refused"] /\ attempt' = attempt
  BY DEF Begin, NoRouter
<1>2. [NotTold EXCEPT !.status = "refused"] # NotTold /\ [NotTold EXCEPT !.status = "refused"].reason = "none"
  BY DEF NotTold
<1>3. user' # "none" /\ elapsed' = elapsed /\ idx' = IF told' = NotTold THEN 1 ELSE 0
  BY DEF Begin
<1> QED
  BY <1>1, <1>2, <1>3 DEF Constructing

\* A router is built.
LEMMA ConstructCases == ASSUME Construct PROVE Constructing
  BY BeginCases DEF Construct, DispatcherBegins, AgentBegins

\* A model that cannot be built ends the chain.
LEMMA FactoryFailsCases == ASSUME Bounds, Counts, FactoryFails PROVE Going
<1>1. Raise("fatal_auth_or_config", 0, elapsed) /\ idx > 0 /\ user' = user
  BY DEF FactoryFails
<1>2. Failing(elapsed)
  BY <1>1, RaiseCases, NotAnswer
<1> QED
  BY <1>1, <1>2 DEF Failing, Going, Telling, Counts

\* A failed attempt: terminal, a second refusal of the key, or the next model.
LEMMA AttemptFailsCases == ASSUME Bounds, Counts, AttemptFails PROVE Going
<1>1. PICK e \in Errors, d \in 0..Limit :
        /\ last' = e
        /\ CASE Classify(e) = "terminal" ->
                    Raise(IF e.invalid THEN "invalid_output" ELSE AttemptClass(e.class, TRUE), idx, elapsed + d)
             [] Classify(e) = "auth_once" /\ chain[idx] \in seen ->
                    Raise(AttemptClass(e.class, FALSE), idx, elapsed + d)
             [] OTHER -> NextModel(e.class, elapsed + d)
  BY DEF AttemptFails
<1>2. elapsed + d \in 0..Budget /\ idx > 0 /\ user' = user
  BY Limits DEF AttemptFails, Asked
<1>3. CASE Classify(e) = "terminal"
  <2>1. CASE e.invalid
    <3>1. Raise("invalid_output", idx, elapsed + d)
      BY <1>1, <1>3, <2>1 DEF Classify
    <3> QED
      BY <1>1, <1>2, <2>1, <3>1, RaiseCases DEF Going, Telling, Failing
  <2>2. CASE ~e.invalid
    <3>1. Raise(AttemptClass(e.class, TRUE), idx, elapsed + d)
      BY <1>1, <1>3, <2>2
    <3>2. AttemptClass(e.class, TRUE) # "invalid_output"
      BY NotAnswer
    <3>3. Failing(elapsed + d)
      BY <3>1, <3>2, RaiseCases
    <3> QED
      BY <1>2, <3>3 DEF Going, Telling, Failing
  <2> QED
    BY <2>1, <2>2
<1>4. CASE Classify(e) # "terminal" /\ Classify(e) = "auth_once" /\ chain[idx] \in seen
  <2>1. Raise(AttemptClass(e.class, FALSE), idx, elapsed + d)
    BY <1>1, <1>4
  <2>2. AttemptClass(e.class, FALSE) # "invalid_output"
    BY NotAnswer
  <2>3. Failing(elapsed + d)
    BY <2>1, <2>2, RaiseCases
  <2> QED
    BY <1>2, <2>3 DEF Going, Telling, Failing
<1>5. CASE Classify(e) # "terminal" /\ ~(Classify(e) = "auth_once" /\ chain[idx] \in seen)
  <2>1. NextModel(e.class, elapsed + d)
    BY <1>1, <1>5
  <2>2. ~last'.invalid
    BY <1>1, <1>5 DEF Classify
  <2>3. Falling(elapsed + d) \/ Failing(elapsed + d)
    BY <2>1, NextModelCases
  <2> QED
    BY <1>2, <2>2, <2>3 DEF Going, Telling, Failing
<1> QED
  BY <1>3, <1>4, <1>5

\* A request out of time.
LEMMA AttemptTimesOutCases == ASSUME Bounds, Counts, AttemptTimesOut PROVE Going
<1>1. NextModel("TimeoutError", elapsed + Limit) /\ ~last'.invalid /\ idx > 0 /\ user' = user
  BY DEF AttemptTimesOut, Asked
<1>2. elapsed + Limit \in 0..Budget
  BY Limits
<1>3. Falling(elapsed + Limit) \/ Failing(elapsed + Limit)
  BY <1>1, NextModelCases
<1> QED
  BY <1>1, <1>2, <1>3 DEF Going, Telling, Failing

\* An answer.
LEMMA AttemptSucceedsCases == ASSUME Bounds, Counts, AttemptSucceeds PROVE Going
<1>1. idx > 0 /\ user' = user /\ attempt' = attempt
  BY DEF AttemptSucceeds, Asked
<1>2. CASE prompts > 1
  BY <1>1, <1>2 DEF AttemptSucceeds, StartChain, Going, Answering
<1>3. CASE ~(prompts > 1)
  <2>1. idx' = 0 /\ elapsed' \in 0..Budget
    BY <1>3, Limits DEF AttemptSucceeds, EndChain
  <2>2. told'.status = "success"
    BY <1>3 DEF AttemptSucceeds, NotTold
  <2>3. told' # NotTold
    BY <2>2 DEF NotTold
  <2> QED
    BY <1>1, <2>1, <2>3 DEF Going, Telling
<1> QED
  BY <1>2, <1>3

\* Every step constructs, goes on or stutters.
LEMMA Steps == ASSUME Bounds, Counts, [Next]_vars PROVE Constructing \/ Going \/ UNCHANGED vars
  BY ConstructCases, FactoryFailsCases, AttemptFailsCases, AttemptTimesOutCases, AttemptSucceedsCases DEF Next

-----------------------------------------------------------------------------
\* The theorems

\* A step preserves the invariant.
LEMMA Step == ASSUME Bounds, IInv, [Next]_vars PROVE IInv'
<1>0. Budget \in Nat
  BY Limits DEF IInv
<1>1. CASE Constructing
  <2>1. Counts'
    BY <1>1 DEF Constructing, IInv, Counts, Budget
  <2>2. Silent'
    BY <1>1 DEF Constructing, Silent
  <2> QED
    BY <2>1, <2>2 DEF IInv
<1>2. CASE Going
  <2>1. told = NotTold /\ user # "none"
    BY <1>2 DEF Going, IInv, Silent, Counts
  <2>2. Counts'
    BY <1>0, <1>2 DEF Going, Answering, Telling, Repeating, Falling, IInv, Counts, Budget
  <2>3. Silent'
    BY <1>2, <2>1 DEF Going, Answering, Telling, Repeating, Falling, Silent
  <2> QED
    BY <2>2, <2>3 DEF IInv
<1>3. CASE UNCHANGED vars
  BY <1>3 DEF vars, IInv, Counts, Silent, Budget
<1> QED
  BY <1>1, <1>2, <1>3, Steps DEF IInv

\* The inductive invariant: the clock of a chain is within its budget, and a call runs only for a
\* user that has not been told.
THEOREM Invariance == ASSUME Bounds PROVE Spec => []IInv
<1>1. Init => IInv
  BY Limits DEF Init, IInv, Counts, Silent, Budget, Bounds
<1>2. IInv /\ [Next]_vars => IInv'
  BY Step
<1> QED
  BY <1>1, <1>2, PTL DEF Spec

\* Whatever times out, fails or falls back, the requests of one chain never take longer than its budget.
THEOREM ChainTime == ASSUME Bounds PROVE Spec => []WithinBudget
<1>1. IInv => WithinBudget
  BY Limits DEF IInv, Counts, WithinBudget
<1> QED
  BY <1>1, Invariance, PTL

\* The chain never goes on to another model because of an answer it was given.
THEOREM AnswersEndChains == ASSUME Bounds PROVE Spec => NoCostLeak
<1>1. IInv /\ [Next]_vars => [idx > 0 /\ idx' = idx + 1 => ~last'.invalid]_<<idx, last>>
  <2> SUFFICES ASSUME Bounds, IInv, [Next]_vars, idx > 0, idx' = idx + 1 PROVE ~last'.invalid
    OBVIOUS
  <2>1. idx \in Nat /\ idx' # 1 /\ idx' # 0
    BY DEF IInv, Counts
  <2>2. Going
    BY <2>1, Steps DEF IInv, Constructing, vars
  <2> QED
    BY <2>1, <2>2 DEF Going, Answering, Telling, Repeating
<1> QED
  BY <1>1, Invariance, PTL DEF Spec, NoCostLeak

\* The dispatcher starts a chain again only for an invalid answer and at most Repairs times, and what
\* a user was told stands.
THEOREM BoundedRepairs == ASSUME Bounds PROVE Spec => RepairsOnlyAnswers
<1>1. IInv /\ [Next]_vars
        => [/\ attempt' > attempt /\ attempt > 0 => last'.invalid /\ attempt <= Repairs
            /\ told # NotTold => UNCHANGED told]_<<attempt, last, told>>
  <2> SUFFICES ASSUME Bounds, IInv, [Next]_vars, ~UNCHANGED vars
               PROVE  /\ attempt' > attempt /\ attempt > 0 => last'.invalid /\ attempt <= Repairs
                      /\ told # NotTold => UNCHANGED told
    BY DEF vars
  <2>1. CASE Constructing
    <3>1. told = NotTold
      BY <2>1 DEF Constructing, IInv, Silent
    <3>2. ~(attempt' > attempt /\ attempt > 0)
      BY <2>1 DEF Constructing, IInv, Counts
    <3> QED
      BY <3>1, <3>2
  <2>2. CASE Going
    <3>1. told = NotTold
      BY <2>2 DEF Going, IInv, Silent, Counts
    <3>2. attempt' > attempt => Repeating /\ last'.invalid
      BY <2>2 DEF Going, Answering, Telling, Falling, IInv, Counts
    <3> QED
      BY <3>1, <3>2 DEF Repeating
  <2> QED
    BY <2>1, <2>2, Steps DEF IInv
<1> QED
  BY <1>1, Invariance, PTL DEF Spec, RepairsOnlyAnswers

-----------------------------------------------------------------------------
\* Type correctness

\* A chain under way has a model that is asked, and a prompt.
Typed == TypeOK /\ (idx > 0 => prompts > 0)

\* A raised error keeps the types.
LEMMA RaiseTyped ==
  ASSUME Bounds, IInv, Typed, idx > 0, NEW class, NEW tried, NEW t \in Nat,
         Raise(class, tried, t), UNCHANGED <<user, chain, keys>>
  PROVE  Typed'
<1>1. Len(chain) \in Nat /\ idx \in 1..Len(chain) /\ chain \in Seq(Names)
  BY DEF Typed, TypeOK
<1>2. CASE user = "dispatcher" /\ ShouldRetry(class, attempt, Repairs + 1)
  <2>1. Repeating
    BY <1>2, RaiseCases DEF Raise, ShouldRetry, RetryMode, Repairable, Transport, StartChain, Repeating,
                            IInv, Counts, Bounds
  <2>2. seen' = {} /\ UNCHANGED prompts
    BY <1>2 DEF Raise, StartChain
  <2>3. attempt' \in 0..(Repairs + 1) /\ idx' \in 0..Len(chain') /\ elapsed' \in Nat
    BY <1>1, <2>1 DEF Repeating, Bounds, Typed, TypeOK
  <2> QED
    BY <2>1, <2>2, <2>3 DEF Repeating, Typed, TypeOK
<1>3. CASE ~(user = "dispatcher" /\ ShouldRetry(class, attempt, Repairs + 1))
  <2>1. Fails(class, tried, t)
    BY <1>3 DEF Raise
  <2>2. idx' = 0 /\ elapsed' = t /\ seen' = {} /\ told'.status = "failure" /\ UNCHANGED <<attempt, prompts>>
    BY <2>1 DEF Fails, EndChain
  <2> QED
    BY <1>1, <2>2 DEF Typed, TypeOK
<1> QED
  BY <1>2, <1>3

\* So does the way to the next model.
LEMMA NextModelTyped ==
  ASSUME Bounds, IInv, Typed, Asked, NEW class, NEW t \in Nat,
         NextModel(class, t), UNCHANGED <<user, chain, keys>>
  PROVE  Typed'
<1>0. idx > 0
  BY DEF Asked
<1>1. CASE idx = Len(chain) \/ t >= Budget
  <2>1. \E c, tried : Raise(c, tried, t)
    BY <1>1 DEF NextModel
  <2> QED
    BY <1>0, <2>1, RaiseTyped
<1>2. CASE ~(idx = Len(chain) \/ t >= Budget)
  <2>1. idx' = idx + 1 /\ elapsed' = t /\ UNCHANGED <<attempt, prompts, told>>
    BY <1>2 DEF NextModel
  <2>2. seen' \subseteq Providers
    BY <1>2 DEF NextModel, Asked, Typed, TypeOK
  <2>3. idx' \in 0..Len(chain')
    BY <1>2, <2>1 DEF Typed, TypeOK
  <2> QED
    BY <1>0, <2>1, <2>2, <2>3 DEF Typed, TypeOK
<1> QED
  BY <1>1, <1>2

\* What the construction of a router is given.
LEMMA BeginTyped ==
  ASSUME Bounds, Typed, NEW who \in {"dispatcher", "agent"}, NEW c, NEW k \in SUBSET Providers, NEW n \in 1..Prompts,
         c[1] # "error" => c \in Seq(Names) /\ Len(c) > 0, Begin(who, c, k, n), idx = 0
  PROVE  Typed'
<1> USE DEF Begin
<1>1. CASE c[1] # "error" /\ Constructs(c, k)
  <2>1. /\ c \in Seq(Names) /\ Len(c) \in Nat /\ Len(c) > 0
        /\ chain' = c /\ keys' = k /\ attempt' = 1 /\ prompts' = n /\ told' = told /\ idx' \in {0, 1}
    BY <1>1
  <2>2. idx' \in 0..Len(chain') /\ attempt' \in 0..(Repairs + 1) /\ prompts' \in 0..Prompts /\ prompts' > 0
    BY <2>1 DEF Bounds
  <2> QED
    BY <2>1, <2>2 DEF Typed, TypeOK
<1>2. CASE ~(c[1] # "error" /\ Constructs(c, k))
  <2>1. told'.status = "refused" /\ told' # NotTold /\ UNCHANGED <<chain, keys, attempt, prompts>>
    BY <1>2 DEF NoRouter, NotTold
  <2>2. idx' = 0
    BY <2>1
  <2> QED
    BY <2>1, <2>2 DEF Typed, TypeOK
<1> QED
  BY <1>1, <1>2

\* A chain of one model, and of two.
LEMMA Chains ==
  ASSUME NEW S, NEW x \in S, NEW y \in S
  PROVE  /\ <<x>> \in Seq(S) /\ Len(<<x>>) > 0
         /\ <<x, y>> \in Seq(S) /\ Len(<<x, y>>) > 0
  OBVIOUS

\* The chain of the dispatcher has a model.
LEMMA DispatcherChain ==
  ASSUME NEW primary \in Names, NEW fallback \in Names \union {""}
  PROVE  LET c == IF fallback = "" THEN <<primary>> ELSE <<primary, fallback>>
         IN  c \in Seq(Names) /\ Len(c) > 0
<1>1. <<primary>> \in Seq(Names) /\ Len(<<primary>>) > 0
  BY Chains, Zenon
<1>2. ASSUME fallback # "" PROVE <<primary, fallback>> \in Seq(Names) /\ Len(<<primary, fallback>>) > 0
  <2>1. fallback \in Names
    BY <1>2
  <2> QED
    BY <2>1, Chains, Zenon
<1> QED
  BY <1>1, <1>2

\* That of the agent is of names, if a model could be selected.
LEMMA AgentChain ==
  ASSUME NEW model \in Names \union {"error"}, NEW n \in Nat, NEW fallbacks \in [1..n -> Names]
  PROVE  LET c == <<model>> \o fallbacks IN c[1] # "error" => c \in Seq(Names) /\ Len(c) > 0
<1> DEFINE c == <<model>> \o fallbacks
<1>1. fallbacks \in Seq(Names)
  BY SeqDef
<1>2. fallbacks \in Seq(Names \union {"error"})
  BY <1>1, SeqMonotonic
<1>3. <<model>> \in Seq(Names \union {"error"}) /\ Len(<<model>>) = 1 /\ <<model>>[1] = model
  OBVIOUS
<1>4. c[1] = model
  BY <1>2, <1>3, ConcatProperties, LenProperties
<1>5. ASSUME model # "error" PROVE c \in Seq(Names) /\ Len(c) > 0
  <2>1. <<model>> \in Seq(Names) /\ Len(<<model>>) = 1
    BY <1>5
  <2>2. c \in Seq(Names) /\ Len(c) = 1 + Len(fallbacks) /\ Len(fallbacks) \in Nat
    BY <1>1, <2>1, ConcatProperties, LenProperties
  <2> QED
    BY <2>2
<1> QED
  BY <1>4, <1>5

\* The construction keeps the types: a model is selected from the names, or there is none.
LEMMA ConstructTyped == ASSUME Bounds, Prompts > 0, IInv, Typed, Construct PROVE Typed'
<1>0. user = "none" /\ idx = 0
  BY DEF Construct, IInv, Silent, Counts
<1>0a. 1 \in 1..Prompts /\ \A m \in 0..MaxFallbacks : m \in Nat
  BY DEF Bounds
<1>1. CASE DispatcherBegins
  <2>1. PICK primary \in Names, fallback \in Names \union {""}, k \in SUBSET Providers :
          Begin("dispatcher", IF fallback = "" THEN <<primary>> ELSE <<primary, fallback>>, k, 1)
    BY <1>1 DEF DispatcherBegins
  <2> DEFINE c == IF fallback = "" THEN <<primary>> ELSE <<primary, fallback>>
  <2>2. c \in Seq(Names) /\ Len(c) > 0
    BY DispatcherChain
  <2> HIDE DEF c
  <2>3. Begin("dispatcher", c, k, 1)
    BY <2>1 DEF c
  <2> QED
    BY <1>0, <1>0a, <2>2, <2>3, BeginTyped
<1>2. CASE AgentBegins
  <2>1. PICK project \in Names \union {""}, configured \in Names \union {""}, n \in 0..MaxFallbacks,
             k \in SUBSET Providers, default \in {"auto", "claude_code", "codex"},
             detected \in {"none", "claude_code", "codex"}, p \in 1..Prompts :
          \E fallbacks \in [1..n -> Names] :
            Begin("agent", <<SelectModel(project, default, detected, configured)>> \o fallbacks, k, p)
    BY <1>2 DEF AgentBegins
  <2>2. PICK fallbacks \in [1..n -> Names] :
          Begin("agent", <<SelectModel(project, default, detected, configured)>> \o fallbacks, k, p)
    BY <2>1
  <2> DEFINE model == SelectModel(project, default, detected, configured)
  <2> DEFINE c == <<model>> \o fallbacks
  <2>3. model \in Names \union {"error"}
    BY DEF SelectModel, Names, Providers
  <2>4. c[1] # "error" => c \in Seq(Names) /\ Len(c) > 0
    BY <1>0a, <2>3, AgentChain
  <2> HIDE DEF c
  <2>5. Begin("agent", c, k, p)
    BY <2>2 DEF c
  <2> QED
    BY <1>0, <2>4, <2>5, BeginTyped
<1> QED
  BY <1>1, <1>2 DEF Construct

\* A step keeps the types.
LEMMA AlwaysTyped == ASSUME Bounds, Prompts > 0 PROVE Spec => []Typed
<1>1. Init => Typed
  BY DEF Init, Typed, TypeOK, NotTold, Bounds
<1>2. IInv /\ Typed /\ [Next]_vars => Typed'
  <2> SUFFICES ASSUME Bounds, Prompts > 0, IInv, Typed, [Next]_vars PROVE Typed'
    OBVIOUS
  <2>0. elapsed \in Nat /\ Limit \in Nat /\ \A d \in 0..Limit : elapsed + d \in Nat
    BY Limits DEF IInv
  <2>1. CASE Construct
    BY <2>1, ConstructTyped
  <2>2. CASE FactoryFails
    BY <2>0, <2>2, RaiseTyped DEF FactoryFails
  <2>3. CASE AttemptFails
    <3>1. PICK e \in Errors, d \in 0..Limit :
            \/ \E class, tried : Raise(class, tried, elapsed + d)
            \/ \E class : NextModel(class, elapsed + d)
      BY <2>3 DEF AttemptFails
    <3>2. idx > 0 /\ Asked /\ UNCHANGED <<user, chain, keys>> /\ elapsed + d \in Nat
      BY <2>0, <2>3 DEF AttemptFails, Asked
    <3> QED
      BY <3>1, <3>2, RaiseTyped, NextModelTyped
  <2>4. CASE AttemptTimesOut
    <3>1. elapsed + Limit \in Nat
      BY <2>0
    <3> QED
      BY <2>4, <3>1, NextModelTyped DEF AttemptTimesOut
  <2>5. CASE AttemptSucceeds
    <3>1. idx \in 1..Len(chain) /\ prompts \in 1..Prompts /\ prompts' = prompts - 1
      BY <2>5 DEF AttemptSucceeds, Asked, Typed, TypeOK, Bounds
    <3>2. CASE prompts > 1
      <4>1. idx' = 1 /\ elapsed' = 0 /\ seen' = {} /\ UNCHANGED <<user, chain, keys, attempt, told>>
        BY <2>5, <3>2 DEF AttemptSucceeds, StartChain
      <4>2. idx' \in 0..Len(chain') /\ prompts' \in 0..Prompts /\ prompts' > 0
        BY <3>1, <3>2, <4>1 DEF Bounds, Typed, TypeOK
      <4> QED
        BY <4>1, <4>2 DEF Typed, TypeOK
    <3>3. CASE ~(prompts > 1)
      <4>1. /\ idx' = 0 /\ elapsed' \in Nat /\ seen' = {} /\ UNCHANGED <<user, chain, keys, attempt>>
            /\ told'.status = "success"
        BY <2>0, <2>5, <3>3 DEF AttemptSucceeds, EndChain, NotTold
      <4>2. idx' \in 0..Len(chain') /\ prompts' \in 0..Prompts
        BY <3>1, <4>1 DEF Bounds, Typed, TypeOK
      <4> QED
        BY <4>1, <4>2 DEF Typed, TypeOK
    <3> QED
      BY <3>2, <3>3
  <2>6. CASE UNCHANGED vars
    BY <2>6 DEF vars, Typed, TypeOK
  <2> QED
    BY <2>1, <2>2, <2>3, <2>4, <2>5, <2>6 DEF Next
<1> QED
  BY <1>1, <1>2, Invariance, PTL DEF Spec

\* The variables have their types: the model that is asked is in the chain, and no attempt is beyond
\* the last repair.
THEOREM TypeCorrect == ASSUME Bounds, Prompts > 0 PROVE Spec => []TypeOK
<1>1. Typed => TypeOK
  BY DEF Typed
<1> QED
  BY <1>1, AlwaysTyped, PTL

-----------------------------------------------------------------------------
\* The user's way to its end

\* A user that has begun and was not told anything is in a call, its first or a later one.
OnItsWay ==
  /\ user # "none" /\ told = NotTold => idx > 0
  /\ idx > 0 => attempt >= 1
  /\ told.reason = "retry_exhausted" => told.retries = Repairs

\* It has fewer prompts ahead of it, or fewer calls for this one, or fewer models in this call.
Nearer ==
  \/ prompts' < prompts
  \/ prompts' = prompts /\ attempt' > attempt
  \/ prompts' = prompts /\ attempt' = attempt /\ idx' > idx

\* It is told, and that its repairs ran out only if it had them all.
Ending == told' # NotTold /\ (told'.reason = "retry_exhausted" => told'.retries = Repairs)

\* A step of a call.
Advancing ==
  /\ UNCHANGED <<user, chain>>
  /\ \/ idx' = 0 /\ Ending
     \/ idx' > 0 /\ attempt' >= 1 /\ Nearer /\ UNCHANGED told

\* A reason is the class, or that the last attempt's answer was bad.
LEMMA Reasons ==
  ASSUME Bounds, NEW class, class # "retry_exhausted", NEW a \in 1..(Repairs + 1),
         Reason(class, a, Repairs + 1) = "retry_exhausted"
  PROVE  a - 1 = Repairs
  BY DEF Bounds, Reason

\* An error of the router is repaired or told.
LEMMA RaiseAdvances ==
  ASSUME Bounds, attempt \in 1..(Repairs + 1), NEW class, class # "retry_exhausted", NEW tried, NEW t,
         Raise(class, tried, t), UNCHANGED <<user, chain>>
  PROVE  Advancing
<1>1. CASE user = "dispatcher" /\ ShouldRetry(class, attempt, Repairs + 1)
  BY <1>1 DEF Raise, StartChain, Advancing, Nearer, Bounds
<1>2. CASE ~(user = "dispatcher" /\ ShouldRetry(class, attempt, Repairs + 1))
  <2>1. Fails(class, tried, t)
    BY <1>2 DEF Raise
  <2>2. idx' = 0 /\ told'.status = "failure" /\ told'.retries = attempt - 1
        /\ told'.reason = Reason(class, attempt, Repairs + 1)
    BY <2>1 DEF Fails, EndChain
  <2> QED
    BY <2>2, Reasons DEF Advancing, Ending, NotTold
<1> QED
  BY <1>1, <1>2

\* The class of an attempt is no reason of the user's.
LEMMA ClassIsNot ==
  /\ \A class, b : AttemptClass(class, b) # "retry_exhausted"
  /\ "transport_timeout" # "retry_exhausted" /\ "fatal_auth_or_config" # "retry_exhausted"
  /\ "invalid_output" # "retry_exhausted"
  BY DEF AttemptClass

\* A failed attempt goes on to the next model, is repaired or told.
LEMMA NextModelAdvances ==
  ASSUME Bounds, attempt \in 1..(Repairs + 1), idx \in 1..Len(chain), NEW class, NEW t,
         NextModel(class, t), UNCHANGED <<user, chain>>
  PROVE  Advancing
<1>1. CASE idx = Len(chain)
  BY <1>1, RaiseAdvances, ClassIsNot DEF NextModel
<1>2. CASE idx # Len(chain) /\ t >= Budget
  BY <1>2, RaiseAdvances, ClassIsNot DEF NextModel
<1>3. CASE idx # Len(chain) /\ ~(t >= Budget)
  <2>1. idx' = idx + 1 /\ UNCHANGED <<attempt, prompts, told>>
    BY <1>3 DEF NextModel
  <2>2. idx \in Nat /\ attempt >= 1
    BY DEF Bounds
  <2> QED
    BY <2>1, <2>2 DEF Advancing, Nearer
<1> QED
  BY <1>1, <1>2, <1>3

\* So every step of a user that has begun advances.
LEMMA CallAdvances ==
  ASSUME Bounds, IInv, Typed, OnItsWay, Next, user # "none" PROVE Advancing
<1>0. idx > 0 /\ idx \in Nat /\ UNCHANGED <<user, chain>> /\ ~Construct
  BY DEF Next, FactoryFails, AttemptFails, AttemptTimesOut, AttemptSucceeds, Asked, Construct, IInv, Counts
<1>1. attempt \in 1..(Repairs + 1) /\ idx \in 1..Len(chain) /\ prompts \in 1..Prompts
  BY <1>0 DEF Typed, TypeOK, OnItsWay, Bounds
<1>2. CASE FactoryFails
  BY <1>0, <1>1, <1>2, RaiseAdvances, ClassIsNot DEF FactoryFails
<1>3. CASE AttemptFails
  <2>1. PICK e \in Errors, d \in 0..Limit :
          \/ Raise("invalid_output", idx, elapsed + d)
          \/ \E b \in BOOLEAN : Raise(AttemptClass(e.class, b), idx, elapsed + d)
          \/ NextModel(e.class, elapsed + d)
    BY <1>3 DEF AttemptFails
  <2> QED
    BY <1>0, <1>1, <2>1, RaiseAdvances, NextModelAdvances, ClassIsNot
<1>4. CASE AttemptTimesOut
  BY <1>0, <1>1, <1>4, NextModelAdvances DEF AttemptTimesOut
<1>5. CASE AttemptSucceeds
  <2>1. CASE prompts > 1
    BY <1>0, <1>1, <1>5, <2>1 DEF AttemptSucceeds, StartChain, Advancing, Nearer, Bounds
  <2>2. CASE ~(prompts > 1)
    <3>1. idx' = 0 /\ told'.status = "success" /\ told'.reason = "none"
      BY <1>5, <2>2 DEF AttemptSucceeds, EndChain, NotTold
    <3> QED
      BY <1>0, <3>1 DEF Advancing, Ending, NotTold
  <2> QED
    BY <2>1, <2>2
<1> QED
  BY <1>0, <1>2, <1>3, <1>4, <1>5 DEF Next

\* The way is kept from the start.
LEMMA AlwaysOnItsWay == ASSUME Bounds, Prompts > 0 PROVE Spec => []OnItsWay
<1>1. Init => OnItsWay
  BY DEF Init, OnItsWay, NotTold
<1>2. IInv /\ Typed /\ OnItsWay /\ [Next]_vars => OnItsWay'
  <2> SUFFICES ASSUME IInv, Typed, OnItsWay, [Next]_vars PROVE OnItsWay'
    OBVIOUS
  <2>1. CASE user = "none" /\ Next
    <3>1. told = NotTold /\ idx = 0
      BY <2>1 DEF IInv, Silent, Counts
    <3>2. Constructing
      BY <2>1, <3>1, ConstructCases DEF Next, FactoryFails, AttemptFails, AttemptTimesOut, AttemptSucceeds, Asked
    <3> QED
      BY <3>1, <3>2 DEF Constructing, OnItsWay, NotTold
  <2>2. CASE user # "none" /\ Next
    BY <2>2, CallAdvances DEF Advancing, Ending, OnItsWay, IInv, Silent
  <2>3. CASE UNCHANGED vars
    BY <2>3 DEF vars, OnItsWay
  <2> QED
    BY <2>1, <2>2, <2>3
<1> QED
  BY <1>1, <1>2, Invariance, AlwaysTyped, PTL DEF Spec

\* A user that says its repairs ran out has made every call it may.
THEOREM ExhaustedHonestly ==
  ASSUME Bounds, Prompts > 0 PROVE Spec => [](told.reason = "retry_exhausted" => told.retries = Repairs)
<1>1. OnItsWay => (told.reason = "retry_exhausted" => told.retries = Repairs)
  BY DEF OnItsWay
<1> QED
  BY <1>1, AlwaysOnItsWay, PTL

\* A user does not ask for ever: each step tells it, or leaves it fewer prompts, calls or models of its
\* chain, all of them bounded; until it is told, a model is being asked.
THEOREM CallsAreBounded ==
  ASSUME Bounds, Prompts > 0
  PROVE  Spec => /\ [][user # "none" => UNCHANGED chain /\ (told' # NotTold \/ Nearer)]_vars
                 /\ [](user # "none" /\ told = NotTold => idx \in 1..Len(chain))
<1>1. IInv /\ Typed /\ OnItsWay /\ [Next]_vars
        => [user # "none" => UNCHANGED chain /\ (told' # NotTold \/ Nearer)]_vars
  BY CallAdvances DEF Advancing, Ending
<1>2. Typed /\ OnItsWay => (user # "none" /\ told = NotTold => idx \in 1..Len(chain))
  BY DEF Typed, TypeOK, OnItsWay
<1> QED
  BY <1>1, <1>2, Invariance, AlwaysTyped, AlwaysOnItsWay, PTL DEF Spec
================================================================================
