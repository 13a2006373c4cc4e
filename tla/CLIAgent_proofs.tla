---------------------------- MODULE CLIAgent_proofs ----------------------------
(***************************************************************************)
(* Proofs about CLIAgent, for any number of repairs and of prompts.        *)
(***************************************************************************)
EXTENDS CLIAgent, TLAPS

\* The bounds are numbers.
Bounds == Repairs \in Nat /\ Prompts \in Nat

-----------------------------------------------------------------------------
\* The inductive invariant

\* A user that has not begun runs nothing; one that has counts from 1.
Begun ==
  /\ user = "none" => phase = "idle"
  /\ phase # "idle" => run >= 1 /\ prompts >= 1

\* What a program has ended with is known when it is collected in time.
Ended == phase = "running" /\ child = "exited" => ended \in Outcomes

IInv == TypeOK /\ Begun /\ Ended /\ NothingLeft

-----------------------------------------------------------------------------
\* The outcome of a run

\* What a program may end with.
LEMMA OutcomeCases ==
  ASSUME ended \in Outcomes
  PROVE  \/ ended.exit = 1 /\ ended.answer \in {"auth", "rate_limit", "other"}
         \/ ended.exit = 0 /\ ended.answer \in Claims \union {"invalid", "empty", "no_file"}
  BY DEF Outcomes, Claims

\* Only a bad answer is repaired, and only while repairs are left.
LEMMA Repeats ==
  ASSUME Bounds, NEW class, NEW a \in Nat, ShouldRetry(class, a, Repairs + 1)
  PROVE  class = "invalid_output" /\ a <= Repairs
  BY DEF Bounds, ShouldRetry, RetryMode, Repairable, Transport

\* A run is an invalid answer only if the program ended well and there was an answer.
LEMMA BadAnswer ==
  ASSUME Class = "invalid_output" PROVE ended.exit = 0 /\ ended.answer # "no_file"
  BY DEF Class, ExitClass, AuthSigns, RateSigns

\* A reason is the class, or that the last attempt's answer was bad.
LEMMA Reasons ==
  ASSUME Bounds, NEW class, class # "retry_exhausted", NEW a \in 1..(Repairs + 1),
         Reason(class, a, Repairs + 1) = "retry_exhausted"
  PROVE  a - 1 = Repairs
  BY DEF Bounds, Reason

\* No class is that.
LEMMA ClassIsNot == Class # "retry_exhausted"
  BY DEF Class, ExitClass

\* The user runs the program again for the same prompt, and why.
Repairing ==
  /\ Again /\ run <= Repairs
  /\ ended.exit = 0 /\ ended.answer \in {"invalid", "empty", "failure_repair"}

\* It goes on to its next prompt.
GoingOn == prompts > 1 /\ prompts' = prompts - 1 /\ run' = 1 /\ phase' = "spawn" /\ UNCHANGED told

\* It returns, and says its repairs ran out only if it had them all.
Returning ==
  /\ told'.status \in {"success", "failure", "unknown"} /\ told'.retries \in 0..Repairs
  /\ told'.reason = "retry_exhausted" => told'.retries = Repairs
  /\ phase' = "idle" /\ UNCHANGED <<run, prompts>>

\* A failed run is repaired or returned.
LEMMA FailedCases ==
  ASSUME Bounds, run \in 1..(Repairs + 1), Failed(Class), ended \in Outcomes,
         ended.exit = 1 \/ ended.answer \notin Claims
  PROVE  Repairing \/ Returning
<1>1. CASE user = "dispatcher" /\ ShouldRetry(Class, run, Repairs + 1)
  <2>1. Again /\ Class = "invalid_output" /\ run <= Repairs
    BY <1>1, Repeats DEF Failed, Bounds
  <2> QED
    BY <2>1, BadAnswer, OutcomeCases DEF Repairing
<1>2. CASE ~(user = "dispatcher" /\ ShouldRetry(Class, run, Repairs + 1))
  <2>1. run - 1 \in 0..Repairs
    BY DEF Bounds
  <2> QED
    BY <1>2, <2>1, Reasons, ClassIsNot DEF Failed, Return, Returning
<1> QED
  BY <1>1, <1>2

\* Accepting an answer.
LEMMA AcceptCases ==
  ASSUME Bounds, run \in 1..(Repairs + 1), Accept PROVE GoingOn \/ Returning
<1>1. run - 1 \in 0..Repairs
  BY DEF Bounds
<1> QED
  BY <1>1 DEF Accept, Return, GoingOn, Returning

\* Whatever the program ended with, the user repairs, goes on or returns.
LEMMA JudgeCases ==
  ASSUME Bounds, run \in 1..(Repairs + 1), Judge, ended \in Outcomes
  PROVE  Repairing \/ GoingOn \/ Returning
<1>1. CASE user = "agent" /\ (ended.exit # 0 \/ ended.answer = "no_file")
  <2>1. Failed(Class)
    BY <1>1 DEF Judge, AgentAnswer
  <2> QED
    BY <1>1, <2>1, OutcomeCases, FailedCases DEF Claims
<1>2. CASE user = "agent" /\ ~(ended.exit # 0 \/ ended.answer = "no_file")
  <2>1. CASE ended.answer \in Claims
    BY <1>2, <2>1, AcceptCases DEF Judge, AgentAnswer
  <2>2. CASE ended.answer \notin Claims
    <3>1. ended.exit = 0 /\ ended.answer \in {"invalid", "empty"}
      BY <1>2, <2>2, OutcomeCases
    <3>2. CASE run <= Repairs
      BY <1>2, <2>2, <3>1, <3>2 DEF Judge, AgentAnswer, Repairing
    <3>3. CASE ~(run <= Repairs)
      <4>1. Failed("invalid_output") /\ Class = "invalid_output"
        BY <1>2, <2>2, <3>1, <3>3 DEF Judge, AgentAnswer, Class
      <4> QED
        BY <2>2, <4>1, FailedCases
    <3> QED
      BY <3>2, <3>3
  <2> QED
    BY <2>1, <2>2
<1>3. CASE user # "agent" /\ ended.exit = 0 /\ ended.answer \in Claims
  <2>1. Claimed
    BY <1>3 DEF Judge
  <2>2. CASE ended.answer = "success"
    BY <2>1, <2>2, AcceptCases DEF Claimed
  <2>3. CASE ended.answer = "failure_repair"
    BY <1>3, <2>1, <2>3 DEF Claimed, Repairing, Return, Returning, Bounds
  <2>4. CASE ended.answer \in {"unknown", "failure"}
    BY <2>1, <2>4 DEF Claimed, Return, Returning, Bounds
  <2> QED
    BY <1>3, <2>2, <2>3, <2>4 DEF Claims
<1>4. CASE user # "agent" /\ ~(ended.exit = 0 /\ ended.answer \in Claims)
  <2>1. Failed(Class)
    BY <1>4 DEF Judge
  <2> QED
    BY <1>4, <2>1, OutcomeCases, FailedCases
<1> QED
  BY <1>1, <1>2, <1>3, <1>4

-----------------------------------------------------------------------------
\* One step each

\* Nothing has begun at first.
LEMMA Start == ASSUME Bounds, Init PROVE IInv
<1> USE DEF Bounds, Init
<1>1. run \in 0..(Repairs + 1) /\ prompts \in 0..Prompts
  OBVIOUS
<1>2. ended \in Outcomes \union {Nothing} /\ helper \in BOOLEAN /\ tmp \in BOOLEAN
  OBVIOUS
<1>3. told.status = "none" /\ told.retries \in 0..Repairs
  BY DEF NotTold
<1>4. TypeOK
  BY <1>1, <1>2, <1>3 DEF TypeOK
<1>5. Begun /\ Ended /\ NothingLeft
  BY DEF Begun, Ended, NothingLeft
<1> QED
  BY <1>4, <1>5 DEF IInv

\* The user begins, or has no program to run.
LEMMA BeginStep == ASSUME Bounds, IInv, Begin PROVE IInv'
<1> USE DEF Bounds, IInv, Begin
<1>1. phase = "idle" /\ child = "none" /\ ~tmp
  BY DEF Begun, NothingLeft
<1>2. prompts' \in 1..Prompts /\ user' \in {"dispatcher", "agent"}
  OBVIOUS
<1>3. CASE agent' \in Adapters
  <2>1. TypeOK'
    BY <1>2, <1>3 DEF TypeOK
  <2> QED
    BY <1>1, <1>2, <1>3, <2>1 DEF Begun, Ended, NothingLeft
<1>4. CASE agent' \notin Adapters
  <2>1. told'.status = "failure" /\ told'.retries = 0 /\ UNCHANGED <<phase, run>>
    BY <1>4 DEF NotTold
  <2>2. TypeOK'
    BY <1>2, <2>1 DEF TypeOK
  <2> QED
    BY <1>1, <1>2, <2>1, <2>2 DEF Begun, Ended, NothingLeft
<1> QED
  BY <1>3, <1>4

\* The program is run.
LEMMA SpawnStep == ASSUME Bounds, IInv, Spawn PROVE IInv'
  BY DEF Bounds, IInv, Spawn, TypeOK, Begun, Ended, NothingLeft

\* A return leaves nothing, if the program is gone and the directory removed.
LEMMA ReturningStep ==
  ASSUME Bounds, IInv, Returning, child' = "none", tmp' = FALSE, UNCHANGED <<user, helper, ended>>
  PROVE  IInv'
<1>1. TypeOK'
  BY DEF IInv, Returning, TypeOK
<1> QED
  BY <1>1 DEF IInv, Returning, Begun, Ended, NothingLeft

\* The program is not there.
LEMMA SpawnFailsStep == ASSUME Bounds, IInv, SpawnFails PROVE IInv' /\ Returning
<1>1. run - 1 \in 0..Repairs
  BY DEF IInv, SpawnFails, Begun, TypeOK, Bounds
<1>2. Returning /\ tmp' = FALSE /\ child' = "none" /\ UNCHANGED <<user, helper, ended>>
  BY <1>1 DEF SpawnFails, Return, Returning, Cleanup, IInv, NothingLeft
<1> QED
  BY <1>2, ReturningStep

\* The program has ended in time.
LEMMA CollectStep == ASSUME Bounds, IInv, Collect PROVE IInv' /\ (Repairing \/ GoingOn \/ Returning)
<1>1. run \in 1..(Repairs + 1) /\ prompts \in 1..Prompts /\ user # "none" /\ ended \in Outcomes
  BY DEF IInv, Collect, Communicated, Begun, Ended, TypeOK, Bounds
<1>2. Judge /\ child' = "none" /\ tmp' = FALSE /\ UNCHANGED <<user, helper, ended>>
  BY DEF Collect, Cleanup
<1>3. Repairing \/ GoingOn \/ Returning
  BY <1>1, <1>2, JudgeCases
<1>4. CASE Repairing \/ GoingOn
  <2>1. run' \in 1..(Repairs + 1) /\ prompts' \in 1..Prompts /\ phase' = "spawn" /\ told' = told
    BY <1>1, <1>4 DEF Repairing, Again, GoingOn, Bounds
  <2>2. run' \in 0..(Repairs + 1) /\ prompts' \in 0..Prompts /\ run' >= 1 /\ prompts' >= 1
    BY <2>1 DEF Bounds
  <2>3. tmp' \in BOOLEAN /\ ~tmp'
    BY <1>2
  <2>4. TypeOK'
    BY <1>2, <2>1, <2>2, <2>3 DEF IInv, TypeOK
  <2> QED
    BY <1>1, <1>2, <1>4, <2>1, <2>2, <2>3, <2>4 DEF IInv, Begun, Ended, NothingLeft
<1>5. CASE Returning
  BY <1>2, <1>5, ReturningStep
<1> QED
  BY <1>3, <1>4, <1>5

\* The time is up.
LEMMA SignalStep == ASSUME Bounds, IInv, TimesOut \/ GraceEnds PROVE IInv'
  BY DEF Bounds, IInv, TimesOut, GraceEnds, Kill, TypeOK, Begun, Ended, NothingLeft

\* A program that ended late.
LEMMA CollectLateStep == ASSUME Bounds, IInv, CollectLate PROVE IInv' /\ Returning
<1>1. Returning /\ tmp' = FALSE /\ child' = "none" /\ UNCHANGED <<user, helper, ended>>
  BY DEF CollectLate, Return, Returning, Cleanup, Bounds
<1> QED
  BY <1>1, ReturningStep

\* The program ends.
LEMMA ProgramEndsStep == ASSUME Bounds, IInv, ProgramEnds PROVE IInv'
<1>1. ended' \in Outcomes /\ helper' \in BOOLEAN
  BY DEF ProgramEnds
<1>2. TypeOK'
  BY <1>1 DEF IInv, ProgramEnds, TypeOK
<1> QED
  BY <1>1, <1>2 DEF IInv, ProgramEnds, Begun, Ended, NothingLeft

\* A process it left behind ends.
LEMMA HelperEndsStep == ASSUME Bounds, IInv, HelperEnds PROVE IInv'
  BY DEF IInv, HelperEnds, TypeOK, Begun, Ended, NothingLeft

\* No step but the collection of a program's answer starts another run.
LEMMA OtherSteps ==
  ASSUME Bounds, IInv, [Next]_vars, run' # run
  PROVE  Collect \/ (Begin /\ run = 0) \/ (Begin /\ run' = 1)
  BY DEF Next, vars, Begin, Spawn, SpawnFails, TimesOut, GraceEnds, CollectLate, ProgramEnds, HelperEnds, Return

-----------------------------------------------------------------------------
\* The dispatcher's way to its end

\* Between its begin and its return, and only then, the user is in one of the phases of a run.
Waits ==
  /\ phase # "idle" <=> user # "none" /\ told.status = "none"
  /\ user = "none" => told.status = "none"

\* There is a program to wait for, and none is left running once it was killed.
Killed ==
  /\ phase \in {"running", "grace"} => child # "none"
  /\ phase = "killed" => child = "exited"

\* What is said of the repairs.
Honest == told.reason = "retry_exhausted" => told.retries = Repairs

OnItsWay == Waits /\ Killed /\ Honest

\* A return is the end of the way.
LEMMA ReturningEnds ==
  ASSUME IInv, OnItsWay, phase # "idle", Returning, UNCHANGED user PROVE OnItsWay'
  BY DEF IInv, OnItsWay, Waits, Killed, Honest, Returning

\* A step keeps to the way.
LEMMA WayKept == ASSUME Bounds, IInv, OnItsWay, [Next]_vars PROVE OnItsWay'
<1>1. CASE Begin
  <2>1. told.status = "none" /\ phase = "idle" /\ user' # "none"
    BY <1>1 DEF Begin, OnItsWay, Waits, IInv, Begun, TypeOK
  <2> QED
    BY <1>1, <2>1 DEF Begin, OnItsWay, Waits, Killed, Honest, NotTold
<1>2. CASE Spawn \/ TimesOut \/ GraceEnds \/ ProgramEnds \/ HelperEnds
  BY <1>2 DEF Spawn, TimesOut, GraceEnds, Kill, ProgramEnds, HelperEnds, IInv, TypeOK, OnItsWay, Waits, Killed, Honest
<1>3. CASE SpawnFails
  <2>1. Returning
    BY <1>3, SpawnFailsStep
  <2> QED
    BY <1>3, <2>1, ReturningEnds DEF SpawnFails
<1>4. CASE Collect
  <2>1. CASE Repairing \/ GoingOn
    BY <1>4, <2>1 DEF Collect, Repairing, Again, GoingOn, OnItsWay, Waits, Killed, Honest
  <2> QED
    BY <1>4, <2>1, CollectStep, ReturningEnds DEF Collect
<1>5. CASE CollectLate
  <2>1. Returning
    BY <1>5, CollectLateStep
  <2> QED
    BY <1>5, <2>1, ReturningEnds DEF CollectLate
<1>6. CASE UNCHANGED vars
  BY <1>6 DEF vars, OnItsWay, Waits, Killed, Honest
<1> QED
  BY <1>1, <1>2, <1>3, <1>4, <1>5, <1>6 DEF Next

\* What the dispatcher's user has ahead of it: prompts, runs for this one, and phases of this run.
Ahead == CASE phase = "spawn" -> 3 [] phase = "running" -> 2 [] phase = "grace" -> 1 [] OTHER -> 0

\* Less of it.
Nearer ==
  \/ prompts' < prompts
  \/ prompts' = prompts /\ run' > run
  \/ prompts' = prompts /\ run' = run /\ Ahead' < Ahead

\* One of its steps has its guard: the program is to be run, to be collected or to be signalled.
Due ==
  \/ phase = "spawn"
  \/ phase \in {"running", "grace", "killed"} /\ Communicated
  \/ phase \in {"running", "grace"} /\ ~Communicated

-----------------------------------------------------------------------------
\* The theorems

\* A step preserves the invariant.
LEMMA Step == ASSUME Bounds, IInv, [Next]_vars PROVE IInv'
<1>1. CASE Begin \/ Spawn \/ SpawnFails \/ Collect
  BY <1>1, BeginStep, SpawnStep, SpawnFailsStep, CollectStep
<1>2. CASE TimesOut \/ GraceEnds \/ CollectLate \/ ProgramEnds \/ HelperEnds
  BY <1>2, SignalStep, CollectLateStep, ProgramEndsStep, HelperEndsStep
<1>3. CASE UNCHANGED vars
  BY <1>3 DEF vars, IInv, TypeOK, Begun, Ended, NothingLeft
<1> QED
  BY <1>1, <1>2, <1>3 DEF Next

\* The invariant needs no fairness of the dispatcher.
LEMMA SafelyDispatched == ASSUME Bounds PROVE Init /\ [][Next]_vars => []IInv
<1>1. Init => IInv
  BY Start
<1>2. IInv /\ [Next]_vars => IInv'
  BY Step
<1> QED
  BY <1>1, <1>2, PTL

\* The inductive invariant: attempts and prompts are within their bounds, and a program collected in
\* time has said what it ended with.
THEOREM Invariance == ASSUME Bounds PROVE Spec => []IInv
  BY SafelyDispatched, PTL DEF Spec

\* However a run ends, once the user has returned, and before another run, the program is gone and
\* the directory of its answer is removed.
THEOREM Tidy == ASSUME Bounds PROVE Spec => []NothingLeft
<1>1. IInv => NothingLeft
  BY DEF IInv
<1> QED
  BY <1>1, Invariance, PTL

\* What is repaired needs no fairness either.
LEMMA SafelyRepaired == ASSUME Bounds PROVE Init /\ [][Next]_vars => OnlyAnswersRepaired
<1>1. IInv /\ [Next]_vars
        => [run' = run + 1 /\ run > 0 =>
              ended.exit = 0 /\ ended.answer \in {"invalid", "empty", "failure_repair"}]_<<run, ended>>
  <2> SUFFICES ASSUME Bounds, IInv, [Next]_vars, run' = run + 1, run > 0
               PROVE  ended.exit = 0 /\ ended.answer \in {"invalid", "empty", "failure_repair"}
    OBVIOUS
  <2>1. run \in Nat /\ run' # run /\ run' # 1
    BY DEF IInv, TypeOK
  <2>2. Collect
    BY <2>1, OtherSteps
  <2>3. Repairing
    BY <2>1, <2>2, CollectStep DEF GoingOn, Returning
  <2> QED
    BY <2>3 DEF Repairing
<1> QED
  BY <1>1, SafelyDispatched, PTL DEF OnlyAnswersRepaired

\* A limit, a failure of the program and a timeout are never repeated, whatever an answer claims.
THEOREM AnswersRepaired == ASSUME Bounds PROVE Spec => OnlyAnswersRepaired
  BY SafelyRepaired, PTL DEF Spec

\* The way is kept from the start.
LEMMA AlwaysOnItsWay == ASSUME Bounds PROVE Spec => []OnItsWay
<1>1. Init => OnItsWay
  BY DEF Init, NotTold, OnItsWay, Waits, Killed, Honest
<1>2. IInv /\ OnItsWay /\ [Next]_vars => OnItsWay'
  BY WayKept
<1> QED
  BY <1>1, <1>2, Invariance, PTL DEF Spec

\* A user that says its repairs ran out has run the program as often as it may.
THEOREM ExhaustedHonestly ==
  ASSUME Bounds PROVE Spec => [](told.reason = "retry_exhausted" => told.retries = Repairs)
<1>1. OnItsWay => (told.reason = "retry_exhausted" => told.retries = Repairs)
  BY DEF OnItsWay, Honest
<1> QED
  BY <1>1, AlwaysOnItsWay, PTL

\* The dispatcher is never stuck: until the user has returned it has something to do, unless a killed
\* program has left a process behind that holds its pipes.
THEOREM NeverStuck ==
  ASSUME Bounds
  PROVE  Spec => [](user # "none" /\ told.status = "none" => Due \/ (phase = "killed" /\ helper))
<1>1. IInv /\ OnItsWay => (user # "none" /\ told.status = "none" => Due \/ (phase = "killed" /\ helper))
  BY DEF IInv, TypeOK, OnItsWay, Waits, Killed, Due, Communicated
<1> QED
  BY <1>1, Invariance, AlwaysOnItsWay, PTL

\* It does not run for ever: each of its steps returns or leaves it fewer prompts, runs or phases, all of
\* them bounded, and nothing else adds to them.
THEOREM WorkIsBounded ==
  ASSUME Bounds
  PROVE  Spec => [][user # "none" =>
                      IF Dispatches THEN told'.status # "none" \/ Nearer
                      ELSE UNCHANGED <<prompts, run, phase, told>>]_vars
<1> DEFINE bounded == user # "none" => IF Dispatches THEN told'.status # "none" \/ Nearer
                                       ELSE UNCHANGED <<prompts, run, phase, told>>
<1>1. IInv /\ [Next]_vars => [bounded]_vars
  <2> SUFFICES ASSUME IInv, Next, user # "none"
               PROVE  IF Dispatches THEN told'.status # "none" \/ Nearer
                      ELSE UNCHANGED <<prompts, run, phase, told>>
    OBVIOUS
  <2>0. run \in Nat /\ prompts \in Nat
    BY DEF IInv, TypeOK
  <2>1. CASE Spawn \/ TimesOut \/ GraceEnds
    BY <2>0, <2>1 DEF Dispatches, Spawn, TimesOut, GraceEnds, Nearer, Ahead
  <2>2. CASE SpawnFails \/ CollectLate
    BY <2>2, SpawnFailsStep, CollectLateStep DEF Dispatches, Returning
  <2>3. CASE Collect
    <3>1. CASE Repairing \/ GoingOn
      BY <2>0, <3>1, <2>3 DEF Dispatches, Repairing, Again, GoingOn, Nearer
    <3> QED
      BY <2>3, <3>1, CollectStep DEF Dispatches, Returning
  <2>4. CASE ~Dispatches
    BY <2>4 DEF Next, Dispatches, Begin, ProgramEnds, HelperEnds
  <2> QED
    BY <2>1, <2>2, <2>3, <2>4 DEF Dispatches
<1> QED
  BY <1>1, Invariance, PTL DEF Spec
================================================================================
