--------------------------- MODULE GenerativeRepeat ---------------------------
(***************************************************************************)
(* One generative repeat: isolated_generative.py, fuzz/driver.py and the   *)
(* call of both in cli.py.  The probe records the steps of the scenario;   *)
(* the trials run concurrently, each with user turns of its own; the first *)
(* trial that failed is shrunk, each of its generative steps by itself,    *)
(* and written down as a regression.                                       *)
(*                                                                         *)
(* A step is a check, a fixed message, or a generative step, which stands  *)
(* for a sequence of user turns.  The agent is deterministic: a turn it    *)
(* cannot take is an agent error, a check fails when the conversation so   *)
(* far holds a turn that upsets the agent; a turn with a bad status but no *)
(* error text is an answer like any other.  An agent that is not           *)
(* deterministic belongs to ShrinkEngine.                                  *)
(*                                                                         *)
(* Every scenario has one user and one agent, and the user begins.  Of a   *)
(* signature the check and its turn are kept: the path names the check no  *)
(* better.                                                                 *)
(***************************************************************************)
EXTENDS Integers, Sequences, FiniteSets, SequencesExt

CONSTANTS
  Turns,        \* what a user may say
  Plainer,      \* a simpler form of a turn; the turn itself if it has none
  FixedTurn,    \* what the message steps say
  Scenarios,    \* the scenarios: their steps, each by its kind, and their trials
  Agents,       \* the agents: what breaks them, what upsets them
  MaxTurns,     \* bound: the turns of a generative step
  MaxTrials,    \* bound: the trials a scenario may ask for
  Enabled       \* the values of <<enable_shrink, enable_extract>>

Generative == {"fuzz", "simulate"}
StepKind == Generative \cup {"message", "check"}

ASSUME GenerativeAssumption ==
  /\ Plainer \in [Turns -> Turns]
  /\ FixedTurn \in Turns
  /\ Scenarios \subseteq [steps : Seq(StepKind), trials : 1..MaxTrials]
  /\ Agents \subseteq [breaks : SUBSET Turns, upsets : SUBSET Turns]
  /\ MaxTurns \in Nat \ {0}
  /\ MaxTrials \in Nat \ {0}
  /\ Enabled \subseteq BOOLEAN \X BOOLEAN

VARIABLES
  agent,
  steps,        \* what the probe recorded
  asked,        \* the trials its fuzz steps ask for
  enabled,      \* the flags of the command line, as far as the scenario is configured
  phase,        \* "probe", "trials", "shrink", "report", or how it ended
  trials,       \* trial -> "none", "running", "finished", "raised"
  outcomes,     \* trial -> what it returned
  collected,    \* the trials the driver has awaited
  target,       \* target_sig
  captured,     \* step -> the user turns of the failing trial
  shrunk,       \* step -> the user turns its shrink has arrived at
  shrinking,    \* the steps whose shrink is under way
  extracted,    \* was a scenario that says the shrunk turns written down?
  result        \* status of the JobResult, "" before it is built

vars == <<agent, steps, asked, enabled, phase, trials, outcomes, collected, target,
          captured, shrunk, shrinking, extracted, result>>

given == <<agent, steps, asked, enabled>>
work == <<trials, outcomes, collected>>
shrink == <<target, captured, shrunk, shrinking>>

NoFailure == [kind |-> "none", turn |-> 0]
Trials == 1..MaxTrials
Messages == UNION {[1..n -> Turns] : n \in 1..MaxTurns}

GenerativeSteps == {i \in DOMAIN steps : steps[i] \in Generative}
NoTurns == [i \in DOMAIN steps |-> <<>>]

-----------------------------------------------------------------------------
(* Running steps: turns of the user and of the agent, and checks.          *)

Say(u) == [who |-> "user", text |-> u]
Answer(u) == [who |-> "agent", text |-> u]
Verify == [who |-> "check", text |-> FixedTurn]

Exchange(turns) == FlattenSeq([k \in DOMAIN turns |-> <<Say(turns[k]), Answer(turns[k])>>])

(* A simulation may end with the user.  The agent answers if the next turn *)
(* is that of a simulation, which goes on where the last one stopped: the  *)
(* set has one element at most.                                            *)
Resumed(i, cut) ==
  {h \in cut : h < i /\ steps[i] = "simulate" /\ \A j \in (h + 1)..(i - 1) : steps[j] = "check"}

Segment(i, said, cut) ==
  (IF Resumed(i, cut) = {} THEN <<>>
   ELSE LET h == CHOOSE h \in Resumed(i, cut) : TRUE IN <<Answer(Last(said[h]))>>)
    \o (IF i \in cut THEN Front(Exchange(said[i])) ELSE Exchange(said[i]))

(* What happens up to step n when the simulations in cut end with the user.*)
Transcript(said, cut, n) ==
  FlattenSeq([i \in 1..n |->
    IF steps[i] = "check" THEN <<Verify>>
    ELSE IF steps[i] = "message" THEN Exchange(<<FixedTurn>>)
    ELSE Segment(i, said, cut)])

(* merged_generative_steps, up to step n: every turn becomes a message.    *)
Merged(said, n) == Transcript(said, {}, n)

Fails(items, k) ==
  \/ /\ items[k].who = "check"
     /\ \E j \in 1..(k - 1) : items[j].who = "agent" /\ items[j].text \in agent.upsets
  \/ /\ items[k].who = "agent"
     /\ items[k].text \in agent.breaks

FailsAtAll(items) == \E k \in DOMAIN items : Fails(items, k)

(* Where it stops, if it fails.                                            *)
UpToFailure(items) ==
  CHOOSE k \in DOMAIN items : Fails(items, k) /\ \A j \in 1..(k - 1) : ~Fails(items, j)

TurnsOf(items, who, n) == Cardinality({j \in 1..n : items[j].who \in who})

(* The signature of the first failure: its kind, and the index of the last *)
(* of the turns.                                                           *)
Signature(items) ==
  IF ~FailsAtAll(items) THEN NoFailure
  ELSE LET k == UpToFailure(items)
       IN  [kind |-> IF items[k].who = "check" THEN "check" ELSE "agent_error",
            turn |-> TurnsOf(items, {"user", "agent"}, k) - 1]

(* Was a check made, before the failure or as the failure, while a turn of *)
(* the user had no answer?                                                 *)
Dangling(items) ==
  \E k \in DOMAIN items :
    /\ items[k].who = "check" /\ \A j \in 1..(k - 1) : ~Fails(items, j)
    /\ TurnsOf(items, {"user"}, k) # TurnsOf(items, {"agent"}, k)

Replay(said) == Signature(Merged(said, Len(steps)))

(* Mutant: the slice of a step ends a turn early.                          *)
BreakdownShort(said, cut, stoppedAt) ==
  [i \in DOMAIN steps |->
     IF i \in GenerativeSteps /\ i < stoppedAt /\ ~FailsAtAll(Transcript(said, cut, i))
     THEN Front(said[i]) ELSE <<>>]

(* per_step_user_turns: a step whose turns were not all taken has none.    *)
Breakdown(said, cut, stoppedAt) ==
  [i \in DOMAIN steps |->
     IF i \in GenerativeSteps /\ i < stoppedAt /\ ~FailsAtAll(Transcript(said, cut, i))
     THEN said[i] ELSE <<>>]

(* What a trial returns: raw when something other than an assertion        *)
(* stopped it at a step, which leaves no signature.  Whether it dangles    *)
(* shows in its transcript, but is not looked at.                          *)
Outcome(said, cut, raw, stoppedAt) ==
  LET items == Transcript(said, cut, Len(steps))
  IN  [ok |-> ~raw /\ ~FailsAtAll(items),
       signature |-> IF raw THEN NoFailure ELSE Signature(items),
       turns |-> Breakdown(said, cut, stoppedAt),
       dangling |-> Dangling(items)]

-----------------------------------------------------------------------------
Pending == [ok |-> FALSE, signature |-> NoFailure, turns |-> NoTurns, dangling |-> FALSE]

Init ==
  /\ agent \in Agents
  /\ \E s \in Scenarios : steps = s.steps /\ asked = s.trials
  /\ enabled \in Enabled
  /\ phase = "probe"
  /\ trials = [t \in Trials |-> "none"]
  /\ outcomes = [t \in Trials |-> Pending]
  /\ collected = {}
  /\ target = NoFailure
  /\ captured = NoTurns
  /\ shrunk = NoTurns
  /\ shrinking = {}
  /\ extracted = FALSE
  /\ result = ""

(* A scenario with a fuzz step runs as many trials as it says, one with    *)
(* only simulations a single one, and the latter only to shrink or extract.*)
ProbeApplies ==
  /\ phase = "probe"
  /\ GenerativeSteps # {}
  /\ LET n == IF \E i \in DOMAIN steps : steps[i] = "fuzz" THEN asked ELSE 1
     IN  trials' = [t \in Trials |-> IF t <= n THEN "running" ELSE "none"]
  /\ phase' = "trials"
  /\ UNCHANGED <<given, outcomes, collected, shrink, extracted, result>>

(* The ordinary job runner takes over.                                     *)
ProbeDoesNotApply ==
  /\ phase = "probe"
  /\ \A i \in DOMAIN steps : steps[i] # "fuzz"
  /\ phase' = "ordinary"
  /\ UNCHANGED <<given, work, shrink, extracted, result>>

(* The body raised while it was recorded, or the fuzz steps disagree about *)
(* the number of trials.                                                   *)
ProbeFails ==
  /\ phase = "probe"
  /\ phase' = "reported"
  /\ \/ result' = "error"
     \/ Cardinality({i \in DOMAIN steps : steps[i] = "fuzz"}) > 1 /\ result' = "failed"
  /\ UNCHANGED <<given, work, shrink, extracted>>

(* Fixtures are set up, and turns generated, outside of its try.           *)
ProbeRaises ==
  /\ phase = "probe"
  /\ phase' = "raised"
  /\ UNCHANGED <<given, work, shrink, extracted, result>>

(* Trials go on when the repeat is gone: nothing cancels them.             *)
TrialFinishes(t) ==
  /\ trials[t] = "running"
  /\ trials' = [trials EXCEPT ![t] = "finished"]
  /\ \E said \in [GenerativeSteps -> Messages], raw \in BOOLEAN,
        cut \in SUBSET {i \in DOMAIN steps : steps[i] = "simulate"} :
       \E stoppedAt \in IF raw THEN DOMAIN steps ELSE {Len(steps) + 1} :
         outcomes' = [outcomes EXCEPT ![t] = Outcome(said, cut, raw, stoppedAt)]
  /\ UNCHANGED <<given, phase, collected, shrink, extracted, result>>

(* Recording the steps anew or generating the turns raises, or a fixture   *)
(* does with an AssertionError, whose handler misses the scenario.         *)
TrialRaises(t) ==
  /\ trials[t] = "running"
  /\ trials' = [trials EXCEPT ![t] = "raised"]
  /\ UNCHANGED <<given, phase, outcomes, collected, shrink, extracted, result>>

(* RandomBatchFuzzerDriver.run, in the order of completion.                *)
Collect(t) ==
  /\ phase = "trials"
  /\ trials[t] = "finished" /\ t \notin collected
  /\ collected' = collected \cup {t}
  /\ UNCHANGED <<given, phase, trials, outcomes, shrink, extracted, result>>

CollectRaises(t) ==
  /\ phase = "trials"
  /\ trials[t] = "raised"
  /\ phase' = "raised"
  /\ UNCHANGED <<given, work, shrink, extracted, result>>

Started == {t \in Trials : trials[t] # "none"}

Failing == {t \in Started : outcomes[t].signature # NoFailure}

FirstOf(ts) == CHOOSE t \in ts : \A u \in ts : t <= u

NotOk == {t \in Started : ~outcomes[t].ok}

(* Mutant: the last one, whose conversation the result shows.              *)
ReportedLast == CHOOSE t \in NotOk : \A u \in NotOk : u <= t

(* The trial whose failure_message and failure_kind the result shows; it   *)
(* need not have a signature.                                              *)
Reported == FirstOf(NotOk)

(* Mutant: the first trial to complete decides.                            *)
AnyAwaited == collected # {}

AllAwaited == collected = Started

(* The generative steps something was captured of, if shrinking is on.     *)
ToShrink(turns) == {i \in GenerativeSteps : enabled[1] /\ turns[i] # <<>>}

(* failure_context_from_trials, and the first half of                      *)
(* shrink_extract_after_trials.                                            *)
TrialsOver ==
  /\ phase = "trials"
  /\ AllAwaited
  /\ IF Failing = {} \/ enabled = <<FALSE, FALSE>>
     THEN phase' = "report" /\ UNCHANGED shrink
     ELSE LET failed == outcomes[FirstOf(Failing)] IN
          /\ phase' = "shrink"
          /\ target' = failed.signature
          /\ captured' = failed.turns
          /\ shrunk' = failed.turns
          /\ shrinking' = ToShrink(failed.turns)
  /\ UNCHANGED <<given, work, extracted, result>>

-----------------------------------------------------------------------------
(* Shrinking: each step by itself, the others as they were captured.       *)

(* A turn fewer, or one turn plainer.                                      *)
Candidates(turns) ==
  {RemoveAt(turns, k) : k \in {k \in DOMAIN turns : Len(turns) > 1}}
    \cup ({[turns EXCEPT ![k] = Plainer[turns[k]]] : k \in DOMAIN turns} \ {turns})

(* Mutant: any failure will do.                                            *)
MatchesAnyFailure(i, turns) == Replay([captured EXCEPT ![i] = turns]) # NoFailure

(* verify_shrink_candidate_async.                                          *)
Matches(i, turns) == Replay([captured EXCEPT ![i] = turns]) = target

ShrinkStep(i) ==
  /\ phase = "shrink" /\ i \in shrinking
  /\ \E turns \in Candidates(shrunk[i]) :
       /\ Matches(i, turns)
       /\ shrunk' = [shrunk EXCEPT ![i] = turns]
  /\ UNCHANGED <<given, phase, work, target, captured, shrinking, extracted, result>>

(* Nothing matches any more, or the budget of the shrink is used up.       *)
ShrinkStepEnds(i) ==
  /\ phase = "shrink" /\ i \in shrinking
  /\ shrinking' = shrinking \ {i}
  /\ UNCHANGED <<given, phase, work, target, captured, shrunk, extracted, result>>

(* What was captured stands in for a shrink that raises.                   *)
ShrinkStepRaises(i) ==
  /\ phase = "shrink" /\ i \in shrinking
  /\ shrinking' = shrinking \ {i}
  /\ shrunk' = [shrunk EXCEPT ![i] = captured[i]]
  /\ UNCHANGED <<given, phase, work, target, captured, extracted, result>>

ShrinkOver ==
  /\ phase = "shrink"
  /\ shrinking = {}
  /\ phase' = "report"
  /\ extracted' = (enabled[2] /\ \E i \in GenerativeSteps : shrunk[i] # <<>>)
  /\ UNCHANGED <<given, work, shrink, result>>

(* extract_regression finds nothing to write, refuses, or raises.          *)
ExtractFails ==
  /\ phase = "shrink"
  /\ shrinking = {} /\ enabled[2]
  /\ phase' = "report"
  /\ UNCHANGED <<given, work, shrink, extracted, result>>

(* build_generative_job_result.                                            *)
Report ==
  /\ phase = "report"
  /\ phase' = "reported"
  /\ result' = IF \A t \in Started : outcomes[t].ok THEN "passed" ELSE "failed"
  /\ UNCHANGED <<given, work, shrink, extracted>>

Rest == phase \in {"reported", "raised", "ordinary"} /\ UNCHANGED vars

Next ==
  \/ ProbeApplies \/ ProbeDoesNotApply \/ ProbeFails \/ ProbeRaises
  \/ \E t \in Trials :
       TrialFinishes(t) \/ TrialRaises(t) \/ Collect(t) \/ CollectRaises(t)
  \/ TrialsOver
  \/ \E i \in DOMAIN steps : ShrinkStep(i) \/ ShrinkStepEnds(i) \/ ShrinkStepRaises(i)
  \/ ShrinkOver \/ ExtractFails
  \/ Report
  \/ Rest

Spec == Init /\ [][Next]_vars

-----------------------------------------------------------------------------
(* Every variable keeps its type.                                          *)
TypeOK ==
  LET Said == [DOMAIN steps -> Messages \cup {<<>>}]
      Failure == [kind : {"none", "check", "agent_error"}, turn : Int]
  IN
  /\ agent \in Agents /\ enabled \in Enabled
  /\ [steps |-> steps, trials |-> asked] \in Scenarios
  /\ phase \in {"probe", "trials", "shrink", "report", "reported", "raised", "ordinary"}
  /\ trials \in [Trials -> {"none", "running", "finished", "raised"}]
  /\ outcomes \in [Trials -> [ok : BOOLEAN, signature : Failure, turns : Said, dangling : BOOLEAN]]
  /\ collected \subseteq Trials
  /\ target \in Failure
  /\ captured \in Said /\ shrunk \in Said
  /\ shrinking \subseteq GenerativeSteps
  /\ extracted \in BOOLEAN
  /\ result \in {"", "passed", "failed", "error"}

(***************************************************************************)
(* Nothing of a repeat is decided, shrunk or reported while one of its     *)
(* trials still runs, in whatever order they complete; and "passed" is     *)
(* reported only when every trial was ok (isolated_generative.py:1078-1098,*)
(* 1220, driver.py:48-53).                                                 *)
(***************************************************************************)
ResultMeansAllTrials ==
  /\ phase \in {"shrink", "report", "reported"} => \A t \in Started : trials[t] = "finished"
  /\ result = "passed" => \A t \in Started : outcomes[t].ok

(***************************************************************************)
(* The failure a repeat reports is the one it shrank: the report and the   *)
(* shrink choose their trial separately, the one by status and the other   *)
(* by signature, and agree unless the trial reported was stopped by        *)
(* something that leaves no signature                                      *)
(* (isolated_generative.py:832-845, 1002-1023, 1097-1103, 1222-1227).      *)
(***************************************************************************)
ReportedFailureIsShrunk ==
  result = "failed" /\ target # NoFailure =>
    \/ outcomes[Reported].signature = NoFailure
    \/ outcomes[Reported].signature = target /\ outcomes[Reported].turns = captured

(***************************************************************************)
(* A failing check is found again by replaying what was captured as fixed  *)
(* messages, also when a simulation goes on in a later step, provided that *)
(* no check was made while a turn of the user had no answer: replay gives  *)
(* it one (isolated_generative.py:119-134, 307-319,                        *)
(* scenario_core.py:570-645).                                              *)
(***************************************************************************)
ReplayFindsCheck ==
  target.kind = "check" /\ ~outcomes[FirstOf(Failing)].dangling
    => Replay(captured) = target

(***************************************************************************)
(* A regression in which the shrink changed one step fails as the trial    *)
(* did, whatever the shrinks of the other steps tried, refused or fell     *)
(* back to meanwhile; one in which it changed none does if the failure is  *)
(* that of a check and no check was made while a turn had no answer.  Two  *)
(* changed steps are the subject of RegressionReproduces                   *)
(* (isolated_generative.py:775-798, 863-930).                              *)
(***************************************************************************)
Changed == {i \in DOMAIN steps : shrunk[i] # captured[i]}

RegressionReproducesAlone ==
  extracted =>
    /\ \A i \in DOMAIN steps : Changed = {i} => Replay(shrunk) = target
    /\ Changed = {} /\ target.kind = "check" /\ ~outcomes[FirstOf(Failing)].dangling
         => Replay(shrunk) = target

-----------------------------------------------------------------------------
(* What the documents say and the code does not do.                        *)

(***************************************************************************)
(* LIBRARY_SUMMARY.md:872: the shrunk inputs reproduce the same failure:   *)
(* all the steps of the regression together, where replay can at all.      *)
(***************************************************************************)
RegressionReproduces == extracted /\ target.kind = "check" => Replay(shrunk) = target

=============================================================================
