--------------------------- MODULE RegressionProofs ---------------------------
(***************************************************************************)
(* From the repeat that fails to the regression in the file: what holds of *)
(* GenerativeRepeat for every scenario, every agent, any number of trials  *)
(* and turns, in whatever order the trials end; and of RegressionTarget    *)
(* for any number of runs that write into one file, killed or out of disk  *)
(* at any point.                                                           *)
(***************************************************************************)
EXTENDS GenerativeRepeat, RegressionTarget, FiniteSetTheorems, SequenceTheorems,
        InductionLemmas

Failure == [kind : {"none", "check", "agent_error"}, turn : Int]
Said == [DOMAIN steps -> Messages \cup {<<>>}]
Item == [who : {"user", "agent", "check"}, text : Turns]

-----------------------------------------------------------------------------
(* The shapes of what a trial says and returns.                            *)

LEMMA StepFacts ==
  ASSUME TypeOK
  PROVE  /\ steps \in Seq(StepKind) /\ Len(steps) \in Nat
         /\ DOMAIN steps = 1..Len(steps)
         /\ \A i \in DOMAIN steps : steps[i] \in StepKind
         /\ GenerativeSteps \subseteq DOMAIN steps
<1>1. [steps |-> steps, trials |-> asked] \in [steps : Seq(StepKind), trials : 1..MaxTrials]
  BY GenerativeAssumption DEF TypeOK
<1>2. steps \in Seq(StepKind)
  BY <1>1
<1> QED BY <1>2 DEF GenerativeSteps

(* Messages are sequences of turns with at least one turn.                 *)
LEMMA MessageFacts ==
  ASSUME NEW m
  PROVE  m \in Messages <=> m \in Seq(Turns) /\ Len(m) \in 1..MaxTurns
<1>1. ASSUME m \in Messages PROVE m \in Seq(Turns) /\ Len(m) \in 1..MaxTurns
  <2>1. PICK n \in 1..MaxTurns : m \in [1..n -> Turns]
    BY <1>1 DEF Messages
  <2>2. n \in Nat
    BY GenerativeAssumption
  <2> QED BY <2>1, <2>2
<1>2. ASSUME m \in Seq(Turns), Len(m) \in 1..MaxTurns PROVE m \in Messages
  <2>1. m \in [1..Len(m) -> Turns]
    BY <1>2
  <2> QED BY <1>2, <2>1 DEF Messages
<1> QED BY <1>1, <1>2

LEMMA ExchangeType ==
  ASSUME NEW turns \in Seq(Turns)
  PROVE  Exchange(turns) \in Seq(Item)
<1> DEFINE parts == [k \in DOMAIN turns |-> <<Say(turns[k]), Answer(turns[k])>>]
<1>1. \A k \in 1..Len(turns) : Say(turns[k]) \in Item /\ Answer(turns[k]) \in Item
  BY DEF Item, Say, Answer
<1>2. \A k \in 1..Len(turns) : <<Say(turns[k]), Answer(turns[k])>> \in Seq(Item)
  BY <1>1
<1>3. parts \in Seq(Seq(Item))
  <2>1. Len(turns) \in Nat /\ DOMAIN turns = 1..Len(turns)
    OBVIOUS
  <2>2. parts \in [1..Len(turns) -> Seq(Item)]
    BY <1>2, <2>1
  <2> HIDE DEF parts
  <2> QED BY <2>1, <2>2
<1> QED BY <1>3, FlattenSeqType DEF Exchange

(* What is said in the generative steps, and where it is cut short.        *)
Spoken(said, cut) ==
  /\ cut \in SUBSET GenerativeSteps
  /\ \A i \in GenerativeSteps : said[i] \in Seq(Turns) /\ (i \in cut => said[i] # <<>>)

LEMMA SpokenFacts ==
  ASSUME TypeOK
  PROVE  /\ \A said \in [GenerativeSteps -> Messages] :
              \A cut \in SUBSET GenerativeSteps : Spoken(said, cut)
         /\ \A said \in Said : Spoken(said, {})
<1>1. \A m \in Messages : m \in Seq(Turns) /\ m # <<>>
  <2> TAKE m \in Messages
  <2>1. m \in Seq(Turns) /\ Len(m) \in 1..MaxTurns
    BY MessageFacts
  <2> QED BY <2>1
<1>2. <<>> \in Seq(Turns)
  OBVIOUS
<1> QED BY <1>1, <1>2, StepFacts DEF Spoken, Said

LEMMA SegmentType ==
  ASSUME TypeOK, NEW i \in GenerativeSteps, NEW said, NEW cut, Spoken(said, cut)
  PROVE  Segment(i, said, cut) \in Seq(Item)
<1>1. Exchange(said[i]) \in Seq(Item)
  BY ExchangeType DEF Spoken
<1>2. Front(Exchange(said[i])) \in Seq(Item)
  BY <1>1 DEF Front
<1>3. ASSUME Resumed(i, cut) # {}
      PROVE  <<Answer(Last(said[CHOOSE h \in Resumed(i, cut) : TRUE]))>> \in Seq(Item)
  <2>1. PICK h \in GenerativeSteps : h = CHOOSE g \in Resumed(i, cut) : TRUE
    BY <1>3 DEF Resumed, Spoken
  <2>2. Last(said[h]) \in Turns
    <3>1. h \in cut
      BY <1>3, <2>1 DEF Resumed
    <3>2. said[h] \in Seq(Turns) /\ said[h] # <<>>
      BY <3>1 DEF Spoken
    <3> QED BY <3>2 DEF Last
  <2>3. Answer(Last(said[h])) \in Item
    BY <2>2 DEF Answer, Item
  <2> QED BY <2>1, <2>3
<1> DEFINE first == IF Resumed(i, cut) = {} THEN <<>>
                    ELSE LET h == CHOOSE h \in Resumed(i, cut) : TRUE
                         IN  <<Answer(Last(said[h]))>>
           rest == IF i \in cut THEN Front(Exchange(said[i])) ELSE Exchange(said[i])
<1>4. first \in Seq(Item)
  BY <1>3
<1>5. rest \in Seq(Item)
  BY <1>1, <1>2
<1>6. Segment(i, said, cut) = first \o rest
  BY DEF Segment
<1> HIDE DEF first, rest
<1> QED BY <1>4, <1>5, <1>6

(* What a step adds to the transcript.                                     *)
Part(i, said, cut) ==
  IF steps[i] = "check" THEN <<Verify>>
  ELSE IF steps[i] = "message" THEN Exchange(<<FixedTurn>>)
  ELSE Segment(i, said, cut)

LEMMA PartType ==
  ASSUME TypeOK, NEW said, NEW cut, Spoken(said, cut), NEW i \in 1..Len(steps)
  PROVE  Part(i, said, cut) \in Seq(Item)
<1>1. i \in DOMAIN steps /\ steps[i] \in StepKind
  BY StepFacts
<1>2. CASE steps[i] = "check"
  BY <1>2, GenerativeAssumption DEF Part, Verify, Item
<1>3. CASE steps[i] = "message"
  <2>1. <<FixedTurn>> \in Seq(Turns)
    BY GenerativeAssumption
  <2>2. Exchange(<<FixedTurn>>) \in Seq(Item)
    BY <2>1, ExchangeType
  <2> QED BY <1>3, <2>2 DEF Part
<1>4. CASE steps[i] \in Generative
  <2>1. i \in GenerativeSteps
    BY <1>1, <1>4 DEF GenerativeSteps
  <2>2. Segment(i, said, cut) \in Seq(Item)
    BY <2>1, SegmentType
  <2> QED BY <1>4, <2>2 DEF Generative, Part
<1> QED BY <1>1, <1>2, <1>3, <1>4 DEF StepKind

LEMMA TranscriptType ==
  ASSUME TypeOK, NEW said, NEW cut, Spoken(said, cut), NEW n \in 0..Len(steps)
  PROVE  Transcript(said, cut, n) \in Seq(Item)
<1> DEFINE parts == [i \in 1..n |-> Part(i, said, cut)]
<1>1. parts \in Seq(Seq(Item))
  <2>1. n \in Nat /\ \A i \in 1..n : i \in 1..Len(steps)
    BY StepFacts
  <2>2. \A i \in 1..n : Part(i, said, cut) \in Seq(Item)
    BY <2>1, PartType
  <2> QED BY <2>1, <2>2
<1> QED BY <1>1, FlattenSeqType DEF Transcript, Part

(* A conversation that fails has a first failure.                          *)
LEMMA FailureFacts ==
  ASSUME NEW items \in Seq(Item), FailsAtAll(items)
  PROVE  UpToFailure(items) \in 1..Len(items)
<1> DEFINE F == {k \in 1..Len(items) : Fails(items, k)}
<1>1. F \subseteq Nat /\ F # {}
  BY DEF FailsAtAll
<1>2. PICK k \in F : \A j \in F : ~(j < k)
  <2> HIDE DEF F
  <2> QED BY <1>1, LeastNat
<1>3. \A j \in 1..(k - 1) : j \in 1..Len(items) /\ j < k
  OBVIOUS
<1>4. Fails(items, k) /\ \A j \in 1..(k - 1) : ~Fails(items, j)
  BY <1>2, <1>3
<1>5. k \in DOMAIN items /\ DOMAIN items = 1..Len(items)
  OBVIOUS
<1> QED BY <1>4, <1>5 DEF UpToFailure

LEMMA SignatureType ==
  ASSUME NEW items \in Seq(Item)
  PROVE  Signature(items) \in Failure
<1>1. CASE ~FailsAtAll(items)
  BY <1>1 DEF Signature, NoFailure, Failure
<1>2. CASE FailsAtAll(items)
  <2> DEFINE k == UpToFailure(items)
  <2>1. k \in 1..Len(items)
    BY <1>2, FailureFacts
  <2>2. TurnsOf(items, {"user", "agent"}, k) \in Nat
    <3>1. IsFiniteSet(1..k)
      BY <2>1, FS_Interval
    <3> QED BY <3>1, FS_Subset, FS_CardinalityType DEF TurnsOf
  <2> HIDE DEF k
  <2>3. Signature(items) =
          [kind |-> IF items[k].who = "check" THEN "check" ELSE "agent_error",
           turn |-> TurnsOf(items, {"user", "agent"}, k) - 1]
    BY <1>2 DEF Signature, k
  <2> QED BY <2>2, <2>3 DEF Failure
<1> QED BY <1>1, <1>2

LEMMA OutcomeType ==
  ASSUME TypeOK, NEW said \in [GenerativeSteps -> Messages],
         NEW cut \in SUBSET {i \in DOMAIN steps : steps[i] = "simulate"},
         NEW raw \in BOOLEAN, NEW stoppedAt
  PROVE  Outcome(said, cut, raw, stoppedAt) \in
           [ok : BOOLEAN, signature : Failure, turns : Said, dangling : BOOLEAN]
<1> DEFINE items == Transcript(said, cut, Len(steps))
           sig == IF raw THEN NoFailure ELSE Signature(items)
           turns == Breakdown(said, cut, stoppedAt)
<1>1. cut \in SUBSET GenerativeSteps
  BY DEF GenerativeSteps, Generative
<1>2. items \in Seq(Item)
  <2>1. Spoken(said, cut)
    BY <1>1, SpokenFacts
  <2>2. Len(steps) \in 0..Len(steps)
    BY StepFacts
  <2> QED BY <2>1, <2>2, TranscriptType
<1>3. sig \in Failure
  BY <1>2, SignatureType DEF NoFailure, Failure
<1>4. turns \in Said
  BY DEF Breakdown, Said
<1>5. (~raw /\ ~FailsAtAll(items)) \in BOOLEAN /\ Dangling(items) \in BOOLEAN
  BY DEF FailsAtAll, Dangling
<1>6. Outcome(said, cut, raw, stoppedAt) =
        [ok |-> ~raw /\ ~FailsAtAll(items), signature |-> sig,
         turns |-> turns, dangling |-> Dangling(items)]
  BY DEF Outcome
<1> HIDE DEF items, sig, turns
<1> QED BY <1>3, <1>4, <1>5, <1>6

(* What a shrink tries instead of turns of a step.                         *)
LEMMA CandidateType ==
  ASSUME NEW turns \in Messages \cup {<<>>}, NEW c \in Candidates(turns)
  PROVE  c \in Messages
<1>1. turns \in Seq(Turns) /\ Len(turns) \in Nat /\ Len(turns) <= MaxTurns
      /\ DOMAIN turns = 1..Len(turns)
  <2>1. MaxTurns \in Nat
    BY GenerativeAssumption
  <2>2. CASE turns = <<>>
    BY <2>1, <2>2
  <2>3. CASE turns \in Messages
    BY <2>1, <2>3, MessageFacts
  <2> QED BY <2>2, <2>3
<1>2. ASSUME NEW k \in 1..Len(turns), Len(turns) > 1, c = RemoveAt(turns, k)
      PROVE  c \in Messages
  <2> DEFINE a == SubSeq(turns, 1, k - 1)
             b == SubSeq(turns, k + 1, Len(turns))
  <2>1. a \in Seq(Turns) /\ Len(a) = k - 1
    BY <1>1
  <2>2. b \in Seq(Turns) /\ Len(b) = Len(turns) - k
    <3>1. \A i \in (k + 1)..Len(turns) : turns[i] \in Turns
      BY <1>1
    <3>2. /\ b \in Seq(Turns)
          /\ Len(b) = IF k + 1 <= Len(turns) THEN Len(turns) - (k + 1) + 1 ELSE 0
      BY <1>1, <3>1, SubSeqProperties
    <3> DEFINE n == Len(turns)
    <3>3. n \in Nat /\ k \in 1..n
      BY <1>1
    <3>4. Len(b) = IF k + 1 <= n THEN n - (k + 1) + 1 ELSE 0
      BY <3>2
    <3> HIDE DEF b, n
    <3>5. Len(b) = n - k
      BY <3>3, <3>4
    <3>6. Len(b) = Len(turns) - k
      BY <3>5 DEF n
    <3> QED BY <3>2, <3>6
  <2> HIDE DEF a, b
  <2>3. a \o b \in Seq(Turns) /\ Len(a \o b) = Len(turns) - 1
    <3>1. a \o b \in Seq(Turns) /\ Len(a \o b) = Len(a) + Len(b)
      BY <2>1, <2>2, ConcatProperties
    <3> QED BY <1>1, <2>1, <2>2, <3>1
  <2>4. Len(turns) - 1 \in 1..MaxTurns
    BY <1>1, <1>2, GenerativeAssumption
  <2>5. c = a \o b
    BY <1>2 DEF RemoveAt, a, b
  <2> QED BY <2>3, <2>4, <2>5, MessageFacts
<1>3. ASSUME NEW k \in 1..Len(turns), c = [turns EXCEPT ![k] = Plainer[turns[k]]]
      PROVE  c \in Messages
  <2>1. Plainer[turns[k]] \in Turns
    BY <1>1, GenerativeAssumption
  <2>2. c \in Seq(Turns) /\ Len(c) = Len(turns)
    BY <1>1, <1>3, <2>1
  <2>3. Len(turns) \in 1..MaxTurns
    BY <1>1, GenerativeAssumption
  <2> QED BY <2>2, <2>3, MessageFacts
<1> QED BY <1>1, <1>2, <1>3 DEF Candidates

(* Of the trials that failed there is a first.                             *)
LEMMA FirstFacts ==
  ASSUME NEW ts \in SUBSET Trials, ts # {}
  PROVE  FirstOf(ts) \in ts /\ \A u \in ts : FirstOf(ts) <= u
<1>1. ts \subseteq Nat
  BY GenerativeAssumption DEF Trials
<1>2. PICK t \in ts : \A u \in ts : ~(u < t)
  BY <1>1, LeastNat
<1>3. \A u \in ts : t <= u
  BY <1>1, <1>2
<1> QED BY <1>2, <1>3 DEF FirstOf

-----------------------------------------------------------------------------
(* Types.                                                                  *)

LEMMA InitType == Init => TypeOK
<1> SUFFICES ASSUME Init PROVE TypeOK
  OBVIOUS
<1>1. PICK sc \in Scenarios : steps = sc.steps /\ asked = sc.trials
  BY DEF Init
<1>2. [steps |-> steps, trials |-> asked] \in Scenarios
  <2>1. sc \in [steps : Seq(StepKind), trials : 1..MaxTrials]
    BY GenerativeAssumption
  <2>2. sc = [steps |-> sc.steps, trials |-> sc.trials]
    BY <2>1
  <2> QED BY <1>1, <2>2
<1>3. NoFailure \in Failure /\ NoTurns \in Said
  BY DEF NoFailure, Failure, NoTurns, Said
<1>4. Pending \in [ok : BOOLEAN, signature : Failure, turns : Said, dangling : BOOLEAN]
  BY <1>3 DEF Pending
<1> QED BY <1>2, <1>3, <1>4 DEF Init, TypeOK, Failure, Said

LEMMA NextType == TypeOK /\ [Next]_vars => TypeOK'
<1> SUFFICES ASSUME TypeOK, [Next]_vars PROVE TypeOK'
  OBVIOUS
<1> DEFINE Returned == [ok : BOOLEAN, signature : Failure, turns : Said, dangling : BOOLEAN]
<1>1. /\ outcomes \in [Trials -> Returned] /\ target \in Failure
      /\ captured \in Said /\ shrunk \in Said
  BY DEF TypeOK, Failure, Said
<1>2. ASSUME UNCHANGED given,
             phase' \in {"probe", "trials", "shrink", "report", "reported", "raised", "ordinary"},
             trials' \in [Trials -> {"none", "running", "finished", "raised"}],
             outcomes' \in [Trials -> Returned], collected' \subseteq Trials,
             target' \in Failure, captured' \in Said, shrunk' \in Said,
             shrinking' \subseteq GenerativeSteps, extracted' \in BOOLEAN,
             result' \in {"", "passed", "failed", "error"}
      PROVE  TypeOK'
  BY <1>2 DEF TypeOK, given, Failure, Said, GenerativeSteps
<1> USE DEF given, work, shrink
<1> HIDE DEF Returned
<1>3. CASE ProbeApplies
  BY <1>1, <1>2, <1>3 DEF ProbeApplies, TypeOK
<1>4. CASE ProbeDoesNotApply \/ ProbeFails \/ ProbeRaises
  BY <1>1, <1>2, <1>4 DEF ProbeDoesNotApply, ProbeFails, ProbeRaises, TypeOK
<1>5. ASSUME NEW t \in Trials, TrialFinishes(t) PROVE TypeOK'
  <2>1. PICK said \in [GenerativeSteps -> Messages], raw \in BOOLEAN,
             cut \in SUBSET {i \in DOMAIN steps : steps[i] = "simulate"} :
          \E stoppedAt \in IF raw THEN DOMAIN steps ELSE {Len(steps) + 1} :
            outcomes' = [outcomes EXCEPT ![t] = Outcome(said, cut, raw, stoppedAt)]
    BY <1>5 DEF TrialFinishes
  <2>2. PICK stoppedAt :
          outcomes' = [outcomes EXCEPT ![t] = Outcome(said, cut, raw, stoppedAt)]
    BY <2>1
  <2>3. Outcome(said, cut, raw, stoppedAt) \in Returned
    BY OutcomeType DEF Returned
  <2>4. outcomes' \in [Trials -> Returned]
    BY <1>1, <2>2, <2>3
  <2>5. trials' \in [Trials -> {"none", "running", "finished", "raised"}]
    BY <1>5 DEF TrialFinishes, TypeOK
  <2> QED BY <1>1, <1>2, <1>5, <2>4, <2>5 DEF TrialFinishes, TypeOK
<1>6. ASSUME NEW t \in Trials, TrialRaises(t) \/ Collect(t) \/ CollectRaises(t) PROVE TypeOK'
  BY <1>1, <1>2, <1>6 DEF TrialRaises, Collect, CollectRaises, TypeOK
<1>7. CASE TrialsOver
  <2>1. CASE Failing = {} \/ enabled = <<FALSE, FALSE>>
    BY <1>1, <1>2, <1>7, <2>1 DEF TrialsOver, TypeOK
  <2>2. CASE ~(Failing = {} \/ enabled = <<FALSE, FALSE>>)
    <3> DEFINE failed == outcomes[FirstOf(Failing)]
    <3>1. FirstOf(Failing) \in Trials
      BY <2>2, FirstFacts DEF Failing, Started
    <3>2. failed.signature \in Failure /\ failed.turns \in Said
      BY <1>1, <3>1 DEF Returned
    <3>3. ToShrink(failed.turns) \subseteq GenerativeSteps
      BY DEF ToShrink
    <3>4. /\ phase' = "shrink" /\ target' = failed.signature
          /\ captured' = failed.turns /\ shrunk' = failed.turns
          /\ shrinking' = ToShrink(failed.turns)
          /\ UNCHANGED <<given, work, extracted, result>>
      BY <1>7, <2>2 DEF TrialsOver
    <3> HIDE DEF failed
    <3> QED BY <1>1, <1>2, <3>2, <3>3, <3>4 DEF TypeOK
  <2> QED BY <2>1, <2>2
<1>8. ASSUME NEW i \in DOMAIN steps, ShrinkStep(i) PROVE TypeOK'
  <2>1. PICK turns \in Candidates(shrunk[i]) : shrunk' = [shrunk EXCEPT ![i] = turns]
    BY <1>8 DEF ShrinkStep
  <2>2. turns \in Messages
    BY <1>1, <2>1, CandidateType DEF Said
  <2>3. shrunk' \in Said
    BY <1>1, <2>1, <2>2 DEF Said
  <2> QED BY <1>1, <1>2, <1>8, <2>3 DEF ShrinkStep, TypeOK
<1>9. ASSUME NEW i \in DOMAIN steps, ShrinkStepEnds(i) \/ ShrinkStepRaises(i) PROVE TypeOK'
  <2>1. shrunk' \in Said
    BY <1>1, <1>9 DEF ShrinkStepEnds, ShrinkStepRaises, Said
  <2> QED BY <1>1, <1>2, <1>9, <2>1 DEF ShrinkStepEnds, ShrinkStepRaises, TypeOK
<1>10. CASE ShrinkOver
  <2>1. extracted' \in BOOLEAN
    <3>1. enabled[2] \in BOOLEAN
      BY GenerativeAssumption DEF TypeOK
    <3>2. extracted' = (enabled[2] /\ \E i \in GenerativeSteps : shrunk[i] # <<>>)
      BY <1>10 DEF ShrinkOver
    <3> QED BY <3>1, <3>2
  <2> QED BY <1>1, <1>2, <1>10, <2>1 DEF ShrinkOver, TypeOK
<1>11. CASE ExtractFails \/ Report \/ UNCHANGED vars
  BY <1>1, <1>2, <1>11 DEF ExtractFails, Report, vars, TypeOK
<1> QED BY <1>3, <1>4, <1>5, <1>6, <1>7, <1>8, <1>9, <1>10, <1>11 DEF Next, Rest

(* Every reachable state has the types of TypeOK.                          *)
THEOREM TypeCorrect == Spec => []TypeOK
BY InitType, NextType, PTL DEF Spec

-----------------------------------------------------------------------------
(* Nothing is decided while a trial runs.                                  *)

(* What is known at each stage: the trials are awaited before anything is  *)
(* decided, and what was decided on stays as it was.                       *)
Decided == phase \in {"shrink", "report", "reported"}

(* What is shrunk is the failing trial of the lowest number, its turns      *)
(* together with its signature.                                             *)
FirstFailureIsShrunk ==
  target # NoFailure =>
    \E t \in Started :
      /\ outcomes[t].signature = target /\ outcomes[t].turns = captured
      /\ \A u \in Started : outcomes[u].signature # NoFailure => t <= u

(* A trial with a signature failed.                                         *)
SignedFailed == \A t \in Trials : outcomes[t].signature # NoFailure => ~outcomes[t].ok

Stages ==
  /\ \A t \in collected : trials[t] = "finished"
  /\ phase = "probe" => Started = {}
  /\ Decided => \A t \in Started : trials[t] = "finished"
  /\ result # "" => phase = "reported"
  /\ result = "passed" => \A t \in Started : outcomes[t].ok
  /\ target # NoFailure => Decided

(* Once it is decided what to do with the trials, they do not change.      *)
LEMMA DecidedStays ==
  ASSUME TypeOK, Stages, Decided, [Next]_vars
  PROVE  UNCHANGED <<trials, outcomes, collected>>
<1>1. \A t \in Trials : trials[t] # "running"
  BY DEF Stages, Started
<1> QED BY <1>1
    DEF Next, ProbeApplies, ProbeDoesNotApply, ProbeFails, ProbeRaises, TrialFinishes,
        TrialRaises, Collect, CollectRaises, TrialsOver, ShrinkStep, ShrinkStepEnds,
        ShrinkStepRaises, ShrinkOver, ExtractFails, Report, Rest, vars, work, Decided

LEMMA NextStages == TypeOK /\ Stages /\ [Next]_vars => Stages'
<1> SUFFICES ASSUME TypeOK, Stages, [Next]_vars PROVE Stages'
  OBVIOUS
<1> USE DEF given, work, shrink
<1>0. collected \subseteq Trials
  BY DEF TypeOK
<1>1. CASE ProbeApplies
  <2>1. collected = {}
    BY <1>0, <1>1 DEF ProbeApplies, Stages, Started
  <2> QED BY <1>1, <2>1 DEF ProbeApplies, Stages, Decided
<1>2. CASE ProbeDoesNotApply \/ ProbeFails \/ ProbeRaises
  BY <1>2 DEF ProbeDoesNotApply, ProbeFails, ProbeRaises, Stages, Started, Decided
<1>3. ASSUME NEW t \in Trials, TrialFinishes(t) \/ TrialRaises(t) PROVE Stages'
  <2>1. /\ trials[t] = "running" /\ UNCHANGED <<phase, collected, target, result>>
        /\ trials' \in {[trials EXCEPT ![t] = v] : v \in {"finished", "raised"}}
    BY <1>3 DEF TrialFinishes, TrialRaises
  <2>2. ~Decided
    BY <2>1 DEF Stages, Started
  <2>3. t \notin collected
    BY <2>1 DEF Stages
  <2>4. Started # {}
    BY <2>1 DEF Started
  <2>5. \A c \in collected : trials'[c] = trials[c]
    BY <1>0, <2>1, <2>3 DEF TypeOK
  <2> QED BY <2>1, <2>2, <2>4, <2>5 DEF Stages, Decided
<1>4. ASSUME NEW t \in Trials, Collect(t) \/ CollectRaises(t) PROVE Stages'
  BY <1>4 DEF Collect, CollectRaises, Stages, Started, Decided
<1>5. CASE TrialsOver
  <2>1. /\ phase = "trials" /\ \A t \in Started : trials[t] = "finished"
        /\ phase' \in {"report", "shrink"} /\ UNCHANGED <<trials, outcomes, collected, result>>
    BY <1>5 DEF TrialsOver, AllAwaited, Stages
  <2> QED BY <2>1 DEF Stages, Started, Decided
<1>6. ASSUME NEW i \in DOMAIN steps, ShrinkStep(i) \/ ShrinkStepEnds(i) \/ ShrinkStepRaises(i)
      PROVE  Stages'
  BY <1>6 DEF ShrinkStep, ShrinkStepEnds, ShrinkStepRaises, Stages, Started, Decided
<1>7. CASE ShrinkOver \/ ExtractFails
  BY <1>7 DEF ShrinkOver, ExtractFails, Stages, Started, Decided
<1>8. CASE Report
  BY <1>8 DEF Report, Stages, Started, Decided
<1>9. CASE UNCHANGED vars
  BY <1>9 DEF vars, Stages, Started, Decided
<1> QED BY <1>1, <1>2, <1>3, <1>4, <1>5, <1>6, <1>7, <1>8, <1>9 DEF Next, Rest

(* What is shrunk belongs to the first trial that failed.                  *)
LEMMA NextFirst ==
  TypeOK /\ Stages /\ FirstFailureIsShrunk /\ [Next]_vars => FirstFailureIsShrunk'
<1> SUFFICES ASSUME TypeOK, Stages, FirstFailureIsShrunk, [Next]_vars
             PROVE  FirstFailureIsShrunk'
  OBVIOUS
<1>1. CASE TrialsOver
  <2>1. phase = "trials" /\ UNCHANGED <<trials, outcomes>>
    BY <1>1 DEF TrialsOver, work
  <2>2. CASE Failing = {} \/ enabled = <<FALSE, FALSE>>
    <3>1. UNCHANGED target /\ target = NoFailure
      BY <1>1, <2>1, <2>2 DEF TrialsOver, shrink, Stages, Decided
    <3> QED BY <3>1 DEF FirstFailureIsShrunk, NoFailure
  <2>3. CASE ~(Failing = {} \/ enabled = <<FALSE, FALSE>>)
    <3> DEFINE t == FirstOf(Failing)
    <3>1. t \in Failing /\ \A u \in Failing : t <= u
      BY <2>3, FirstFacts DEF Failing, Started
    <3>2. target' = outcomes[t].signature /\ captured' = outcomes[t].turns
      BY <1>1, <2>3 DEF TrialsOver
    <3> HIDE DEF t
    <3>3. /\ t \in Started /\ outcomes[t].signature = target' /\ outcomes[t].turns = captured'
          /\ \A u \in Started : outcomes[u].signature # NoFailure => t <= u
      BY <3>1, <3>2 DEF Failing
    <3> QED BY <2>1, <3>3 DEF FirstFailureIsShrunk, Started
  <2> QED BY <2>2, <2>3
<1>2. CASE ~TrialsOver
  <2>1. UNCHANGED <<target, captured>>
    BY <1>2
    DEF Next, ProbeApplies, ProbeDoesNotApply, ProbeFails, ProbeRaises, TrialFinishes,
        TrialRaises, Collect, CollectRaises, ShrinkStep, ShrinkStepEnds, ShrinkStepRaises,
        ShrinkOver, ExtractFails, Report, Rest, vars, shrink
  <2>2. target # NoFailure => UNCHANGED <<trials, outcomes>>
    BY DecidedStays DEF Stages
  <2> QED BY <2>1, <2>2 DEF FirstFailureIsShrunk, Started, NoFailure
<1> QED BY <1>1, <1>2

LEMMA InitStages == Init => Stages /\ FirstFailureIsShrunk
BY DEF Init, Stages, Started, Decided, FirstFailureIsShrunk

LEMMA StagesInvariance == Spec => [](TypeOK /\ Stages /\ FirstFailureIsShrunk)
<1>1. Init => TypeOK /\ Stages /\ FirstFailureIsShrunk
  BY InitType, InitStages
<1>2. TypeOK /\ Stages /\ FirstFailureIsShrunk /\ [Next]_vars
        => (TypeOK /\ Stages /\ FirstFailureIsShrunk)'
  BY NextType, NextStages, NextFirst
<1> QED BY <1>1, <1>2, PTL DEF Spec

(* A repeat is decided over all of its trials.                             *)
THEOREM ResultMeansAllTrialsHolds == Spec => []ResultMeansAllTrials
<1>1. Stages => ResultMeansAllTrials
  BY DEF Stages, Decided, ResultMeansAllTrials
<1> QED BY <1>1, StagesInvariance, PTL

LEMMA NextSigned == TypeOK /\ SignedFailed /\ [Next]_vars => SignedFailed'
<1> SUFFICES ASSUME TypeOK, SignedFailed, [Next]_vars PROVE SignedFailed'
  OBVIOUS
<1>1. CASE UNCHANGED outcomes
  BY <1>1 DEF SignedFailed, NoFailure
<1>2. ASSUME NEW t \in Trials, TrialFinishes(t) PROVE SignedFailed'
  <2>1. PICK said \in [GenerativeSteps -> Messages], raw \in BOOLEAN,
             cut \in SUBSET {i \in DOMAIN steps : steps[i] = "simulate"} :
          \E stoppedAt \in IF raw THEN DOMAIN steps ELSE {Len(steps) + 1} :
            outcomes' = [outcomes EXCEPT ![t] = Outcome(said, cut, raw, stoppedAt)]
    BY <1>2 DEF TrialFinishes
  <2>2. PICK stoppedAt :
          outcomes' = [outcomes EXCEPT ![t] = Outcome(said, cut, raw, stoppedAt)]
    BY <2>1
  <2> DEFINE o == Outcome(said, cut, raw, stoppedAt)
             items == Transcript(said, cut, Len(steps))
  <2>3. /\ o.ok = (~raw /\ ~FailsAtAll(items))
        /\ o.signature = IF raw THEN NoFailure ELSE Signature(items)
    BY DEF Outcome
  <2> HIDE DEF o, items
  <2>4. o.signature # NoFailure => ~o.ok
    BY <2>3 DEF Signature
  <2>5. ASSUME NEW u \in Trials PROVE outcomes'[u] = IF u = t THEN o ELSE outcomes[u]
    BY <2>2 DEF o, TypeOK
  <2> QED BY <2>4, <2>5 DEF SignedFailed, NoFailure
<1> QED BY <1>1, <1>2
  DEF Next, ProbeApplies, ProbeDoesNotApply, ProbeFails, ProbeRaises, TrialRaises, Collect,
      CollectRaises, TrialsOver, ShrinkStep, ShrinkStepEnds, ShrinkStepRaises, ShrinkOver,
      ExtractFails, Report, Rest, vars, work

(* The trial a failed repeat reports is the one it shrank, if that trial    *)
(* has a signature.                                                         *)
THEOREM ReportedFailureIsShrunkHolds == Spec => []ReportedFailureIsShrunk
<1>1. Init => SignedFailed
  <2>1. Pending.signature = NoFailure
    BY DEF Pending
  <2>2. Init => \A t \in Trials : outcomes[t] = Pending
    BY DEF Init
  <2> QED BY <2>1, <2>2 DEF SignedFailed
<1>2. TypeOK /\ FirstFailureIsShrunk /\ SignedFailed => ReportedFailureIsShrunk
  <2> SUFFICES ASSUME TypeOK, FirstFailureIsShrunk, SignedFailed, target # NoFailure,
                      outcomes[Reported].signature # NoFailure
               PROVE  outcomes[Reported].signature = target /\ outcomes[Reported].turns = captured
    BY DEF ReportedFailureIsShrunk
  <2>1. PICK t \in Started :
          /\ outcomes[t].signature = target /\ outcomes[t].turns = captured
          /\ \A u \in Started : outcomes[u].signature # NoFailure => t <= u
    BY DEF FirstFailureIsShrunk
  <2>2. Started \subseteq Trials /\ Trials \subseteq Nat
    BY GenerativeAssumption DEF Started, Trials
  <2>3. t \in NotOk /\ NotOk \subseteq Started
    BY <2>1, <2>2 DEF NotOk, SignedFailed
  <2>4. Reported \in NotOk /\ \A u \in NotOk : Reported <= u
    BY <2>2, <2>3, FirstFacts DEF Reported
  <2>5. Reported <= t /\ t <= Reported /\ Reported \in Nat /\ t \in Nat
    BY <2>1, <2>2, <2>3, <2>4
  <2>6. Reported = t
    BY <2>5
  <2> QED BY <2>1, <2>6
<1> QED BY <1>1, <1>2, NextSigned, StagesInvariance, NextType, PTL DEF Spec

-----------------------------------------------------------------------------
(* A shrunk step fails as the step did.                                    *)

(* Replay depends on the scenario and on the agent only, and these stay.   *)
LEMMA ReplayStays ==
  ASSUME UNCHANGED <<agent, steps>>, NEW said
  PROVE  Replay(said)' = Replay(said)
<1>1. \A i : Resumed(i, {}) = {} /\ Resumed(i, {})' = {}
  BY DEF Resumed
<1>2. \A i : Segment(i, said, {})' = Segment(i, said, {})
  <2> SUFFICES ASSUME NEW i PROVE Segment(i, said, {})' = Segment(i, said, {})
    OBVIOUS
  <2>1. Segment(i, said, {}) = <<>> \o Exchange(said[i])
    BY <1>1 DEF Segment
  <2>2. Segment(i, said, {})' = <<>> \o Exchange(said[i])
    BY <1>1 DEF Segment
  <2> QED BY <2>1, <2>2
<1> DEFINE items == Merged(said, Len(steps))
<1>3. items' = items
  BY <1>2 DEF Merged, Transcript
<1>4. \A its, k : Fails(its, k)' <=> Fails(its, k)
  BY DEF Fails
<1>5. \A its : UpToFailure(its)' = UpToFailure(its)
  BY <1>4 DEF UpToFailure
<1>6. \A its : FailsAtAll(its)' <=> FailsAtAll(its)
  BY <1>4 DEF FailsAtAll
<1>7. \A its : Signature(its)' = Signature(its)
  BY <1>5, <1>6 DEF Signature
<1> HIDE DEF items
<1>8. Signature(items)' = Signature(items)
  BY <1>3, <1>7
<1> QED BY <1>8 DEF Replay, items

(* A step that changed fails the same way next to the others as they were  *)
(* captured: a candidate stands for what was captured only if it matched,  *)
(* and a shrink that raises gives it back.                                 *)
ShrinkKeepsFailure ==
  \A i \in DOMAIN steps :
    shrunk[i] # captured[i] => Replay([captured EXCEPT ![i] = shrunk[i]]) = target

LEMMA ShrinkKeepsFailureAlways == Spec => []ShrinkKeepsFailure
<1> DEFINE Kept == /\ ShrinkKeepsFailure
                   /\ phase \in {"probe", "trials"} => shrunk = captured
<1>1. Init => Kept
  BY DEF Init, ShrinkKeepsFailure
<1>2. TypeOK /\ Kept /\ [Next]_vars => Kept'
  <2> SUFFICES ASSUME TypeOK, Kept, [Next]_vars PROVE Kept'
    OBVIOUS
  <2>0. captured \in Said /\ shrunk \in Said
    BY DEF TypeOK, Said
  <2>1. UNCHANGED <<agent, steps>>
    BY DEF Next, ProbeApplies, ProbeDoesNotApply, ProbeFails, ProbeRaises, TrialFinishes,
           TrialRaises, Collect, CollectRaises, TrialsOver, ShrinkStep, ShrinkStepEnds,
           ShrinkStepRaises, ShrinkOver, ExtractFails, Report, Rest, vars, given
  <2>2. \A said : Replay(said)' = Replay(said)
    BY <2>1, ReplayStays
  <2>3. ASSUME NEW i \in DOMAIN steps, ShrinkStep(i) PROVE Kept'
    <3>1. PICK turns \in Candidates(shrunk[i]) :
            Matches(i, turns) /\ shrunk' = [shrunk EXCEPT ![i] = turns]
      BY <2>3 DEF ShrinkStep
    <3>2. UNCHANGED <<captured, target>> /\ phase = "shrink" /\ phase' = "shrink"
      BY <2>3 DEF ShrinkStep
    <3>3. Replay([captured EXCEPT ![i] = turns]) = target
      BY <3>1 DEF Matches
    <3>4. ASSUME NEW k \in DOMAIN steps, shrunk'[k] # captured[k]
          PROVE  Replay([captured EXCEPT ![k] = shrunk'[k]]) = target
      <4>1. CASE k = i
        <5>1. shrunk'[k] = turns
          BY <2>0, <3>1, <4>1 DEF Said
        <5> QED BY <3>3, <4>1, <5>1
      <4>2. CASE k # i
        <5>1. shrunk'[k] = shrunk[k]
          BY <2>0, <3>1, <4>2 DEF Said
        <5> QED BY <3>4, <5>1 DEF ShrinkKeepsFailure
      <4> QED BY <4>1, <4>2
    <3> QED BY <2>1, <2>2, <3>2, <3>4 DEF ShrinkKeepsFailure
  <2>4. ASSUME NEW i \in DOMAIN steps, ShrinkStepRaises(i) PROVE Kept'
    <3>1. /\ shrunk' = [shrunk EXCEPT ![i] = captured[i]]
          /\ UNCHANGED <<captured, target>> /\ phase = "shrink" /\ phase' = "shrink"
      BY <2>4 DEF ShrinkStepRaises
    <3>2. \A k \in DOMAIN steps : shrunk'[k] # captured[k] => shrunk'[k] = shrunk[k]
      BY <2>0, <3>1 DEF Said
    <3> QED BY <2>1, <2>2, <3>1, <3>2 DEF ShrinkKeepsFailure
  <2>5. CASE TrialsOver
    <3>1. shrunk = captured
      BY <2>5 DEF TrialsOver
    <3>2. CASE Failing = {} \/ enabled = <<FALSE, FALSE>>
      <4>1. phase' = "report" /\ UNCHANGED <<captured, shrunk>>
        BY <2>5, <3>2 DEF TrialsOver, shrink
      <4> QED BY <3>1, <4>1, <2>1 DEF ShrinkKeepsFailure
    <3>3. CASE ~(Failing = {} \/ enabled = <<FALSE, FALSE>>)
      <4>1. phase' = "shrink" /\ shrunk' = captured'
        BY <2>5, <3>3 DEF TrialsOver
      <4> QED BY <4>1, <2>1 DEF ShrinkKeepsFailure
    <3> QED BY <3>2, <3>3
  <2>6. ASSUME UNCHANGED <<captured, shrunk, target>>,
               phase' \in {"probe", "trials"} => phase \in {"probe", "trials"}
        PROVE  Kept'
    BY <2>1, <2>2, <2>6 DEF ShrinkKeepsFailure
  <2> QED BY <2>3, <2>4, <2>5, <2>6
    DEF Next, ProbeApplies, ProbeDoesNotApply, ProbeFails, ProbeRaises, TrialFinishes,
        TrialRaises, Collect, CollectRaises, ShrinkStepEnds, ShrinkOver, ExtractFails,
        Report, Rest, vars, shrink
<1>3. Kept => ShrinkKeepsFailure
  OBVIOUS
<1> HIDE DEF Kept
<1> QED BY <1>1, <1>2, <1>3, TypeCorrect, PTL DEF Spec

-----------------------------------------------------------------------------
(* What is counted in a conversation.                                       *)
Begins(p, q) == Len(p) <= Len(q) /\ \A k \in 1..Len(p) : q[k] = p[k]

LEMMA BeginsFacts ==
  ASSUME NEW p \in Seq(Item), NEW q \in Seq(Item)
  PROVE  /\ Begins(p, p) /\ p \o q \in Seq(Item) /\ Begins(p, p \o q)
         /\ \A r \in Seq(Item) : Begins(p, q) /\ Begins(q, r) => Begins(p, r)
<1>1. /\ p \o q \in Seq(Item) /\ Len(p \o q) = Len(p) + Len(q) /\ Len(p) \in Nat /\ Len(q) \in Nat
      /\ \A i \in 1..(Len(p) + Len(q)) : (p \o q)[i] = IF i <= Len(p) THEN p[i] ELSE q[i - Len(p)]
  BY ConcatProperties
<1>2. Begins(p, p \o q)
  <2>1. \A i \in 1..Len(p) : i \in 1..(Len(p) + Len(q)) /\ i <= Len(p)
    BY <1>1
  <2> QED BY <1>1, <2>1 DEF Begins
<1>3. ASSUME NEW r \in Seq(Item), Begins(p, q), Begins(q, r) PROVE Begins(p, r)
  <2>1. Len(r) \in Nat /\ \A k \in 1..Len(p) : k \in 1..Len(q)
    BY <1>1, <1>3 DEF Begins
  <2> QED BY <1>1, <1>3, <2>1 DEF Begins
<1> QED BY <1>1, <1>2, <1>3 DEF Begins

(* Before its end, a beginning decides what fails and what is counted.      *)
LEMMA BeginningDecides ==
  ASSUME NEW p \in Seq(Item), NEW q \in Seq(Item), Begins(p, q), NEW k \in 1..Len(p)
  PROVE  /\ Fails(p, k) <=> Fails(q, k)
         /\ \A who : TurnsOf(p, who, k) = TurnsOf(q, who, k)
<1>1. Len(p) \in Nat /\ q[k] = p[k]
  BY DEF Begins
<1>2. \A j \in 1..k : q[j] = p[j]
  BY <1>1 DEF Begins
<1>3. \A j \in 1..(k - 1) : q[j] = p[j]
  BY <1>1, <1>2
<1>4. Fails(p, k) <=> Fails(q, k)
  BY <1>1, <1>3 DEF Fails
<1>5. ASSUME NEW who PROVE TurnsOf(p, who, k) = TurnsOf(q, who, k)
  <2>1. {j \in 1..k : p[j].who \in who} = {j \in 1..k : q[j].who \in who}
    BY <1>2
  <2> QED BY <2>1 DEF TurnsOf
<1> QED BY <1>4, <1>5

Count(q, who) == TurnsOf(q, who, Len(q))

LEMMA CountConcat ==
  ASSUME NEW p \in Seq(Item), NEW q \in Seq(Item), NEW who
  PROVE  /\ Count(p, who) \in Nat /\ Count(q, who) \in Nat
         /\ Count(p \o q, who) = Count(p, who) + Count(q, who)
<1> DEFINE n == Len(p)
           m == Len(q)
           c == p \o q
           A == {j \in 1..n : p[j].who \in who}
           B == {j \in 1..m : q[j].who \in who}
           C == {j \in 1..(n + m) : c[j].who \in who}
           D == {j \in (n + 1)..(n + m) : c[j].who \in who}
           shift == [j \in B |-> n + j]
<1>1. /\ n \in Nat /\ m \in Nat /\ Len(c) = n + m
      /\ \A i \in 1..(n + m) : c[i] = IF i <= n THEN p[i] ELSE q[i - n]
  BY ConcatProperties
<1> HIDE DEF n, m, c
<1>2. IsFiniteSet(A) /\ IsFiniteSet(B) /\ IsFiniteSet(D)
  <2>1. IsFiniteSet(1..n) /\ IsFiniteSet(1..m) /\ IsFiniteSet((n + 1)..(n + m))
    BY <1>1, FS_Interval
  <2> QED BY <2>1, FS_Subset
<1>3. \A j \in 1..n : j \in 1..(n + m) /\ c[j] = p[j]
  BY <1>1
<1>4. \A j \in 1..m : n + j \in (n + 1)..(n + m) /\ c[n + j] = q[j]
  <2> TAKE j \in 1..m
  <2>1. n + j \in (n + 1)..(n + m) /\ n + j \in 1..(n + m) /\ ~(n + j <= n) /\ (n + j) - n = j
    BY <1>1
  <2> QED BY <1>1, <2>1
<1>5. C = A \cup D /\ A \cap D = {}
  <2>1. \A j : j \in 1..(n + m) <=> j \in 1..n \/ j \in (n + 1)..(n + m)
    BY <1>1
  <2>2. \A j : ~(j \in 1..n /\ j \in (n + 1)..(n + m))
    BY <1>1
  <2> QED BY <1>3, <2>1, <2>2
<1>6. Cardinality(D) = Cardinality(B)
  <2>1. shift \in [B -> D]
    BY <1>4
  <2>2. \A i, j \in B : shift[i] = shift[j] => i = j
    BY <1>1
  <2>3. \A d \in D : \E j \in B : shift[j] = d
    <3> TAKE d \in D
    <3>1. d - n \in 1..m /\ n + (d - n) = d
      <4>1. d \in (n + 1)..(n + m) /\ n \in Nat /\ m \in Nat
        BY <1>1
      <4> HIDE DEF D
      <4> QED BY <4>1
    <3>2. c[d] = q[d - n]
      BY <1>4, <3>1
    <3>3. d - n \in B
      BY <3>1, <3>2
    <3> QED BY <3>1, <3>3
  <2> HIDE DEF shift, B, D
  <2>4. shift \in Bijection(B, D)
    BY <2>1, <2>2, <2>3 DEF Bijection, Injection, IsInjective, Surjection
  <2> QED BY <1>2, <2>4, FS_Bijection DEF ExistsBijection
<1>7. Cardinality(C) = Cardinality(A) + Cardinality(D)
  <2>1. /\ Cardinality(A \cup D) = Cardinality(A) + Cardinality(D) - Cardinality(A \cap D)
        /\ Cardinality(A) \in Nat /\ Cardinality(D) \in Nat
    <3> HIDE DEF A, D
    <3> QED BY <1>2, FS_Union, FS_CardinalityType
  <2>2. Cardinality(A \cap D) = 0
    BY <1>5, FS_EmptySet
  <2> HIDE DEF A, C, D
  <2> QED BY <1>5, <2>1, <2>2
<1>8. Count(p, who) = Cardinality(A) /\ Count(q, who) = Cardinality(B) /\ Count(c, who) = Cardinality(C)
  BY <1>1 DEF Count, TurnsOf, n, m
<1>9. Cardinality(A) \in Nat /\ Cardinality(B) \in Nat
  <2> HIDE DEF A, B
  <2> QED BY <1>2, FS_CardinalityType
<1> HIDE DEF A, B, C, D
<1> QED BY <1>6, <1>7, <1>8, <1>9 DEF c

(* By how many turns the user is ahead.                                     *)
Surplus(q) == Count(q, {"user"}) - Count(q, {"agent"})

LEMMA SurplusConcat ==
  ASSUME NEW p \in Seq(Item), NEW q \in Seq(Item)
  PROVE  Surplus(p) \in Int /\ Surplus(q) \in Int /\ Surplus(p \o q) = Surplus(p) + Surplus(q)
<1>1. /\ Count(p, {"user"}) \in Nat /\ Count(q, {"user"}) \in Nat
      /\ Count(p \o q, {"user"}) = Count(p, {"user"}) + Count(q, {"user"})
  BY CountConcat
<1>2. /\ Count(p, {"agent"}) \in Nat /\ Count(q, {"agent"}) \in Nat
      /\ Count(p \o q, {"agent"}) = Count(p, {"agent"}) + Count(q, {"agent"})
  BY CountConcat
<1> QED BY <1>1, <1>2 DEF Surplus

LEMMA CountOne ==
  ASSUME NEW x \in Item, NEW who
  PROVE  Count(<<x>>, who) = IF x.who \in who THEN 1 ELSE 0
<1> DEFINE A == {j \in 1..1 : <<x>>[j].who \in who}
<1>1. Count(<<x>>, who) = Cardinality(A)
  BY DEF Count, TurnsOf
<1>2. A = IF x.who \in who THEN {1} ELSE {}
  OBVIOUS
<1>3. Cardinality({1}) = 1 /\ Cardinality({}) = 0
  BY FS_EmptySet, FS_Singleton
<1> HIDE DEF A
<1> QED BY <1>1, <1>2, <1>3

LEMMA SurplusSmall ==
  /\ Surplus(<<>>) = 0
  /\ \A u \in Turns : /\ Say(u) \in Item /\ Answer(u) \in Item
                      /\ Surplus(<<Say(u)>>) = 1 /\ Surplus(<<Answer(u)>>) = -1
                      /\ Surplus(<<Say(u), Answer(u)>>) = 0
  /\ Verify \in Item /\ Surplus(<<Verify>>) = 0
<1>1. Surplus(<<>>) = 0
  <2>1. \A who : Count(<<>>, who) = 0
    <3> TAKE who
    <3>1. {j \in 1..0 : (<<>>)[j].who \in who} = {}
      OBVIOUS
    <3> QED BY <3>1, FS_EmptySet DEF Count, TurnsOf
  <2> QED BY <2>1 DEF Surplus
<1>2. ASSUME NEW u \in Turns
      PROVE  /\ Say(u) \in Item /\ Answer(u) \in Item
             /\ Surplus(<<Say(u)>>) = 1 /\ Surplus(<<Answer(u)>>) = -1
             /\ Surplus(<<Say(u), Answer(u)>>) = 0
  <2>1. Say(u) \in Item /\ Answer(u) \in Item /\ Say(u).who = "user" /\ Answer(u).who = "agent"
    BY DEF Say, Answer, Item
  <2>2. /\ Count(<<Say(u)>>, {"user"}) = 1 /\ Count(<<Say(u)>>, {"agent"}) = 0
        /\ Count(<<Answer(u)>>, {"user"}) = 0 /\ Count(<<Answer(u)>>, {"agent"}) = 1
    <3>1. \A who : /\ Count(<<Say(u)>>, who) = IF Say(u).who \in who THEN 1 ELSE 0
                   /\ Count(<<Answer(u)>>, who) = IF Answer(u).who \in who THEN 1 ELSE 0
      BY <2>1, CountOne
    <3> QED BY <2>1, <3>1
  <2>3. Surplus(<<Say(u)>>) = 1 /\ Surplus(<<Answer(u)>>) = -1
    BY <2>2 DEF Surplus
  <2>4. <<Say(u), Answer(u)>> = <<Say(u)>> \o <<Answer(u)>>
    BY <2>1
  <2>5. <<Say(u)>> \in Seq(Item) /\ <<Answer(u)>> \in Seq(Item)
    BY <2>1
  <2>6. Surplus(<<Say(u)>> \o <<Answer(u)>>) = Surplus(<<Say(u)>>) + Surplus(<<Answer(u)>>)
    BY <2>5, SurplusConcat
  <2>7. Surplus(<<Say(u), Answer(u)>>) = 0
    <3>1. Surplus(<<Say(u), Answer(u)>>) = 1 + (-1)
      BY <2>3, <2>4, <2>6, Zenon
    <3> QED BY <3>1
  <2> QED BY <2>1, <2>3, <2>7, Zenon
<1>3. Verify \in Item /\ Surplus(<<Verify>>) = 0
  <2>1. Verify \in Item /\ Verify.who = "check"
    BY GenerativeAssumption DEF Verify, Item
  <2>2. \A who : Count(<<Verify>>, who) = IF Verify.who \in who THEN 1 ELSE 0
    BY <2>1, CountOne
  <2> QED BY <2>1, <2>2 DEF Surplus
<1> QED BY <1>1, <1>2, <1>3

(* An answer completes an exchange that was cut short.                      *)
Unchecked(q) == Count(q, {"check"}) = 0

LEMMA ExchangeStep ==
  ASSUME NEW turns \in Seq(Turns), NEW u \in Turns
  PROVE  /\ Exchange(turns) \in Seq(Item) /\ <<Say(u), Answer(u)>> \in Seq(Item)
         /\ Exchange(Append(turns, u)) = Exchange(turns) \o <<Say(u), Answer(u)>>
<1> DEFINE Pair(v) == <<Say(v), Answer(v)>>
           n == Len(turns)
           more == Append(turns, u)
           parts == [k \in 1..n |-> Pair(turns[k])]
<1>1. n \in Nat /\ DOMAIN turns = 1..n
  OBVIOUS
<1>2. \A v \in Turns : Pair(v) \in Seq(Item)
  <2> TAKE v \in Turns
  <2>1. Say(v) \in Item /\ Answer(v) \in Item
    BY DEF Say, Answer, Item
  <2> QED BY <2>1
<1>3. more \in Seq(Turns) /\ DOMAIN more = 1..(n + 1)
      /\ more[n + 1] = u /\ \A k \in 1..n : more[k] = turns[k]
  OBVIOUS
<1>4. \A k \in 1..n : turns[k] \in Turns
  OBVIOUS
<1>5. Exchange(turns) = FlattenSeq(parts)
  BY <1>1 DEF Exchange
<1>6. Exchange(more) = FlattenSeq([k \in 1..(n + 1) |-> Pair(more[k])])
  <2> HIDE DEF more, n
  <2> QED BY <1>3 DEF Exchange
<1> HIDE DEF Pair, n, more
<1>7. parts \in Seq(Seq(Item)) /\ Len(parts) = n
  BY <1>1, <1>2, <1>4
<1>8. Append(parts, Pair(u)) = [k \in 1..(n + 1) |-> Pair(more[k])]
  BY <1>1, <1>3, <1>7
<1> HIDE DEF parts
<1>9. FlattenSeq(Append(parts, Pair(u))) = FlattenSeq(parts) \o Pair(u)
  BY <1>2, <1>7, FlattenAppend
<1>10. Exchange(turns) \in Seq(Item)
  BY ExchangeType
<1> QED BY <1>2, <1>5, <1>6, <1>8, <1>9, <1>10 DEF Pair, more

LEMMA ExchangeCount ==
  ASSUME NEW turns \in Seq(Turns)
  PROVE  Surplus(Exchange(turns)) = 0 /\ Unchecked(Exchange(turns))
<1> DEFINE Fair(q) == Surplus(Exchange(q)) = 0 /\ Unchecked(Exchange(q))
           S == {n \in Nat : \A q \in Seq(Turns) : Len(q) = n => Fair(q)}
<1>1. 0 \in S
  <2>1. Exchange(<<>>) = <<>>
    <3>1. [k \in DOMAIN (<<>>) |-> <<Say((<<>>)[k]), Answer((<<>>)[k])>>] = <<>>
      OBVIOUS
    <3>2. FlattenSeq(<<>>) = <<>>
      <4>1. <<>> \in Seq(Seq(Item)) /\ Len(<<>>) = 0
        OBVIOUS
      <4>2. PICK f \in [0..Len(<<>>) -> Seq(Item)] : Flattens(f, <<>>)
        BY <4>1, FlattenParts
      <4> QED BY <4>1, <4>2, Zenon DEF Flattens
    <3> QED BY <3>1, <3>2 DEF Exchange
  <2>2. Unchecked(<<>>)
    <3>1. {j \in 1..0 : (<<>>)[j].who \in {"check"}} = {}
      OBVIOUS
    <3> QED BY <3>1, FS_EmptySet DEF Unchecked, Count, TurnsOf
  <2>3. Fair(<<>>)
    BY <2>1, <2>2, SurplusSmall
  <2>4. \A q \in Seq(Turns) : Len(q) = 0 => q = <<>>
    OBVIOUS
  <2> HIDE DEF Fair
  <2> QED BY <2>3, <2>4
<1>2. ASSUME NEW n \in Nat, n \in S PROVE n + 1 \in S
  <2> SUFFICES ASSUME NEW q \in Seq(Turns), Len(q) = n + 1 PROVE Fair(q)
    OBVIOUS
  <2> DEFINE p == Front(q)
             u == Last(q)
  <2>1. p \in Seq(Turns) /\ u \in Turns /\ Len(p) = n /\ q = Append(p, u)
    BY DEF Front, Last
  <2>2. Fair(p)
    BY <1>2, <2>1
  <2> HIDE DEF p, u
  <2>3. /\ Exchange(p) \in Seq(Item) /\ <<Say(u), Answer(u)>> \in Seq(Item)
        /\ Exchange(q) = Exchange(p) \o <<Say(u), Answer(u)>>
    BY <2>1, ExchangeStep
  <2>4. Surplus(Exchange(q)) = Surplus(Exchange(p)) + Surplus(<<Say(u), Answer(u)>>)
    BY <2>3, SurplusConcat
  <2>5. Count(Exchange(q), {"check"})
          = Count(Exchange(p), {"check"}) + Count(<<Say(u), Answer(u)>>, {"check"})
    <3>1. Count(Exchange(p) \o <<Say(u), Answer(u)>>, {"check"})
            = Count(Exchange(p), {"check"}) + Count(<<Say(u), Answer(u)>>, {"check"})
      BY <2>3, CountConcat, Zenon
    <3> QED BY <2>3, <3>1, Zenon
  <2>6. Count(<<Say(u), Answer(u)>>, {"check"}) = 0
    <3>1. {j \in 1..2 : (<<Say(u), Answer(u)>>)[j].who \in {"check"}} = {}
      BY DEF Say, Answer
    <3> QED BY <3>1, FS_EmptySet DEF Count, TurnsOf
  <2>7. Surplus(<<Say(u), Answer(u)>>) = 0
    BY <2>1, SurplusSmall
  <2> QED BY <2>2, <2>4, <2>5, <2>6, <2>7 DEF Unchecked
<1>3. Nat \subseteq S
  <2> HIDE DEF S
  <2> QED BY <1>1, <1>2, SetInduction
<1>4. Len(turns) \in Nat
  OBVIOUS
<1> QED BY <1>3, <1>4

LEMMA ExchangeCut ==
  ASSUME NEW turns \in Seq(Turns), turns # <<>>
  PROVE  /\ Front(Exchange(turns)) \in Seq(Item) /\ Answer(Last(turns)) \in Item
         /\ Front(Exchange(turns)) \o <<Answer(Last(turns))>> = Exchange(turns)
         /\ Surplus(Front(Exchange(turns))) = 1 /\ Unchecked(Front(Exchange(turns)))
<1> DEFINE p == Front(turns)
           u == Last(turns)
           a == Exchange(p)
<1>1. p \in Seq(Turns) /\ u \in Turns /\ turns = Append(p, u)
  BY DEF Front, Last
<1>2. Say(u) \in Item /\ Answer(u) \in Item
  BY <1>1 DEF Say, Answer, Item
<1> HIDE DEF p, u
<1>3. a \in Seq(Item) /\ Exchange(turns) = a \o <<Say(u), Answer(u)>>
  BY <1>1, ExchangeStep
<1> HIDE DEF a
<1>4. Front(a \o <<Say(u), Answer(u)>>) = a \o <<Say(u)>>
  BY <1>2, <1>3 DEF Front
<1>5. (a \o <<Say(u)>>) \o <<Answer(u)>> = a \o <<Say(u), Answer(u)>>
  BY <1>2, <1>3
<1>6. Surplus(a) = 0 /\ Count(a, {"check"}) = 0
  BY <1>1, ExchangeCount DEF a, Unchecked
<1>7. <<Say(u)>> \in Seq(Item) /\ a \o <<Say(u)>> \in Seq(Item)
  BY <1>2, <1>3
<1>8. Surplus(a \o <<Say(u)>>) = 1
  <2>1. Surplus(a \o <<Say(u)>>) = Surplus(a) + Surplus(<<Say(u)>>)
    BY <1>3, <1>7, SurplusConcat
  <2>2. Surplus(<<Say(u)>>) = 1
    BY <1>1, SurplusSmall
  <2> QED BY <1>6, <2>1, <2>2
<1>9. Unchecked(a \o <<Say(u)>>)
  <2>1. Count(a \o <<Say(u)>>, {"check"}) = Count(a, {"check"}) + Count(<<Say(u)>>, {"check"})
    BY <1>3, <1>7, CountConcat
  <2>2. Count(<<Say(u)>>, {"check"}) = 0
    <3>1. Say(u).who = "user"
      BY DEF Say
    <3> QED BY <1>2, <3>1, CountOne
  <2> QED BY <1>6, <2>1, <2>2 DEF Unchecked
<1> QED BY <1>2, <1>3, <1>4, <1>5, <1>7, <1>8, <1>9 DEF u

(* A transcript grows by what the next step adds.                           *)
LEMMA TranscriptStep ==
  ASSUME TypeOK, NEW said, NEW cut, Spoken(said, cut)
  PROVE  /\ Transcript(said, cut, 0) = <<>>
         /\ \A i \in 1..Len(steps) :
              /\ Transcript(said, cut, i - 1) \in Seq(Item)
              /\ Part(i, said, cut) \in Seq(Item)
              /\ Transcript(said, cut, i) = Transcript(said, cut, i - 1) \o Part(i, said, cut)
<1> DEFINE Step(i) == Part(i, said, cut)
           parts(n) == [i \in 1..n |-> Step(i)]
<1>1. \A n : Transcript(said, cut, n) = FlattenSeq(parts(n))
  BY DEF Transcript, Part
<1>2. \A i \in 1..Len(steps) : Step(i) \in Seq(Item)
  BY PartType
<1> HIDE DEF Step
<1>3. \A n \in 0..Len(steps) : n \in Nat /\ parts(n) \in Seq(Seq(Item)) /\ Len(parts(n)) = n
  <2> SUFFICES ASSUME NEW n \in 0..Len(steps)
               PROVE  n \in Nat /\ parts(n) \in Seq(Seq(Item)) /\ Len(parts(n)) = n
    OBVIOUS
  <2>1. n \in Nat /\ \A i \in 1..n : i \in 1..Len(steps)
    BY StepFacts
  <2> QED BY <1>2, <2>1
<1>4. Transcript(said, cut, 0) = <<>>
  <2>1. parts(0) = <<>>
    OBVIOUS
  <2>2. <<>> \in Seq(Seq(Item)) /\ Len(<<>>) = 0
    OBVIOUS
  <2>3. PICK f \in [0..Len(<<>>) -> Seq(Item)] : Flattens(f, <<>>)
    BY <2>2, FlattenParts
  <2>4. FlattenSeq(<<>>) = <<>>
    BY <2>2, <2>3, Zenon DEF Flattens
  <2> QED BY <1>1, <2>1, <2>4
<1>5. ASSUME NEW i \in 1..Len(steps)
      PROVE  /\ Transcript(said, cut, i - 1) \in Seq(Item)
             /\ Transcript(said, cut, i) = Transcript(said, cut, i - 1) \o Step(i)
  <2>1. i \in Nat /\ i - 1 \in 0..Len(steps)
    BY StepFacts
  <2>2. parts(i - 1) \in Seq(Seq(Item)) /\ Len(parts(i - 1)) = i - 1
    BY <1>3, <2>1
  <2>3. Append(parts(i - 1), Step(i)) = parts(i)
    BY <2>1, <2>2
  <2>4. FlattenSeq(Append(parts(i - 1), Step(i))) = FlattenSeq(parts(i - 1)) \o Step(i)
    <3> HIDE DEF parts
    <3> QED BY <1>2, <2>2, FlattenAppend
  <2>5. Transcript(said, cut, i - 1) \in Seq(Item)
    BY <2>1, TranscriptType
  <2> HIDE DEF parts
  <2> QED BY <1>1, <2>3, <2>4, <2>5
<1> QED BY <1>2, <1>4, <1>5 DEF Step

-----------------------------------------------------------------------------
(* What a longer transcript has in common with its beginning.               *)

LEMMA FirstFailure ==
  ASSUME NEW q \in Seq(Item)
  PROVE  /\ FailsAtAll(q) => /\ UpToFailure(q) \in 1..Len(q)
                             /\ Fails(q, UpToFailure(q))
                             /\ \A j \in 1..(UpToFailure(q) - 1) : ~Fails(q, j)
         /\ \A k \in 1..Len(q) :
              Fails(q, k) /\ (\A j \in 1..(k - 1) : ~Fails(q, j))
                => FailsAtAll(q) /\ UpToFailure(q) = k
<1>1. DOMAIN q = 1..Len(q) /\ Len(q) \in Nat
  OBVIOUS
<1> DEFINE First(k) == Fails(q, k) /\ \A j \in 1..(k - 1) : ~Fails(q, j)
<1>2. UpToFailure(q) = CHOOSE k \in 1..Len(q) : First(k)
  BY <1>1 DEF UpToFailure
<1>3. FailsAtAll(q) <=> \E k \in 1..Len(q) : Fails(q, k)
  BY <1>1 DEF FailsAtAll
<1>4. ASSUME FailsAtAll(q) PROVE \E k \in 1..Len(q) : First(k)
  <2> DEFINE F == {k \in 1..Len(q) : Fails(q, k)}
  <2>1. F \subseteq Nat /\ F # {}
    BY <1>3, <1>4
  <2>2. PICK k \in F : \A j \in F : ~(j < k)
    <3> HIDE DEF F
    <3> QED BY <2>1, LeastNat
  <2>3. \A j \in 1..(k - 1) : j \in 1..Len(q) /\ j < k
    BY <1>1
  <2> QED BY <2>2, <2>3
<1>5. ASSUME NEW k \in 1..Len(q), NEW m \in 1..Len(q), First(k), First(m) PROVE k = m
  <2>1. CASE k < m
    <3>1. k \in 1..(m - 1)
      BY <2>1
    <3> QED BY <1>5, <3>1
  <2>2. CASE m < k
    <3>1. m \in 1..(k - 1)
      BY <2>2
    <3> QED BY <1>5, <3>1
  <2> QED BY <2>1, <2>2
<1>6. ASSUME FailsAtAll(q) PROVE UpToFailure(q) \in 1..Len(q) /\ First(UpToFailure(q))
  <2> HIDE DEF First
  <2> QED BY <1>2, <1>4, <1>6
<1>7. ASSUME NEW k \in 1..Len(q), First(k) PROVE FailsAtAll(q) /\ UpToFailure(q) = k
  <2>1. FailsAtAll(q)
    BY <1>3, <1>7
  <2>2. UpToFailure(q) \in 1..Len(q) /\ First(UpToFailure(q))
    BY <1>6, <2>1
  <2> HIDE DEF First
  <2> QED BY <1>5, <1>7, <2>1, <2>2
<1> QED BY <1>6, <1>7

(* Once a conversation has failed, or was checked while a turn dangled, it  *)
(* stays so whatever follows.                                               *)
LEMMA VerdictStays ==
  ASSUME NEW p \in Seq(Item), NEW q \in Seq(Item), Begins(p, q)
  PROVE  /\ Dangling(p) => Dangling(q)
         /\ FailsAtAll(p) => FailsAtAll(q) /\ Signature(q) = Signature(p)
<1>1. /\ Len(p) \in Nat /\ Len(q) \in Nat /\ Len(p) <= Len(q)
      /\ DOMAIN p = 1..Len(p) /\ DOMAIN q = 1..Len(q)
  BY DEF Begins
<1>2. \A k \in 1..Len(p) : /\ k \in 1..Len(q) /\ p[k] = q[k]
                           /\ Fails(p, k) <=> Fails(q, k)
                           /\ \A who : TurnsOf(p, who, k) = TurnsOf(q, who, k)
  <2>1. \A k \in 1..Len(p) : k \in 1..Len(q) /\ p[k] = q[k]
    BY <1>1 DEF Begins
  <2> QED BY <2>1, BeginningDecides
<1>3. \A k \in 1..Len(p) : \A j \in 1..(k - 1) : j \in 1..Len(p)
  BY <1>1
<1>4. Dangling(p) => Dangling(q)
  BY <1>1, <1>2, <1>3 DEF Dangling
<1>5. ASSUME FailsAtAll(p) PROVE FailsAtAll(q) /\ Signature(q) = Signature(p)
  <2> DEFINE k == UpToFailure(p)
  <2>1. k \in 1..Len(p) /\ Fails(p, k) /\ \A j \in 1..(k - 1) : ~Fails(p, j)
    BY <1>5, FirstFailure
  <2> HIDE DEF k
  <2>2. k \in 1..Len(q) /\ Fails(q, k) /\ \A j \in 1..(k - 1) : ~Fails(q, j)
    BY <1>2, <1>3, <2>1
  <2>3. FailsAtAll(q) /\ UpToFailure(q) = k
    BY <2>2, FirstFailure
  <2>4. q[k] = p[k] /\ TurnsOf(q, {"user", "agent"}, k) = TurnsOf(p, {"user", "agent"}, k)
    BY <1>2, <2>1
  <2>5. Signature(p) = [kind |-> IF p[k].who = "check" THEN "check" ELSE "agent_error",
                        turn |-> TurnsOf(p, {"user", "agent"}, k) - 1]
    BY <1>5 DEF Signature, k
  <2>6. Signature(q) = [kind |-> IF q[k].who = "check" THEN "check" ELSE "agent_error",
                        turn |-> TurnsOf(q, {"user", "agent"}, k) - 1]
    BY <2>3 DEF Signature
  <2> QED BY <2>3, <2>4, <2>5, <2>6
<1> QED BY <1>4, <1>5

(* What fails first after a part without checks is an agent.                *)
LEMMA FailsInTurns ==
  ASSUME NEW p \in Seq(Item), NEW r \in Seq(Item), ~FailsAtAll(p),
         Unchecked(r), FailsAtAll(p \o r)
  PROVE  Signature(p \o r).kind = "agent_error"
<1> DEFINE q == p \o r
           k == UpToFailure(q)
<1>1. /\ q \in Seq(Item) /\ Len(q) = Len(p) + Len(r) /\ Len(p) \in Nat /\ Len(r) \in Nat
      /\ Begins(p, q)
      /\ \A i \in 1..(Len(p) + Len(r)) : q[i] = IF i <= Len(p) THEN p[i] ELSE r[i - Len(p)]
  BY ConcatProperties, BeginsFacts
<1> HIDE DEF q
<1>2. k \in 1..Len(q) /\ Fails(q, k)
  BY <1>1, FirstFailure DEF q
<1> HIDE DEF k
<1>3. ~(k <= Len(p))
  <2> SUFFICES ASSUME k <= Len(p) PROVE FALSE
    OBVIOUS
  <2>1. k \in 1..Len(p)
    BY <1>1, <1>2
  <2>2. Fails(p, k)
    BY <1>1, <1>2, <2>1, BeginningDecides
  <2> QED BY <2>1, <2>2 DEF FailsAtAll
<1>4. k - Len(p) \in 1..Len(r) /\ q[k] = r[k - Len(p)]
  BY <1>1, <1>2, <1>3
<1>5. \A j \in 1..Len(r) : r[j].who # "check"
  <2> SUFFICES ASSUME NEW j \in 1..Len(r), r[j].who = "check" PROVE FALSE
    OBVIOUS
  <2> DEFINE A == {i \in 1..Len(r) : r[i].who \in {"check"}}
  <2>1. IsFiniteSet(A) /\ j \in A
    <3>1. IsFiniteSet(1..Len(r))
      BY <1>1, FS_Interval
    <3> QED BY <3>1, FS_Subset
  <2>2. Cardinality(A) = 0
    BY DEF Unchecked, Count, TurnsOf
  <2> HIDE DEF A
  <2> QED BY <2>1, <2>2, FS_EmptySet
<1>6. q[k].who # "check"
  BY <1>4, <1>5
<1>7. Signature(q) = [kind |-> IF q[k].who = "check" THEN "check" ELSE "agent_error",
                      turn |-> TurnsOf(q, {"user", "agent"}, k) - 1]
  BY DEF Signature, k, q
<1>8. Signature(q).kind = "agent_error"
  BY <1>6, <1>7
<1> QED BY <1>8 DEF q

(* A check that is not preceded by as many answers as turns dangles.        *)
LEMMA ChecksDangle ==
  ASSUME NEW p \in Seq(Item), ~FailsAtAll(p), Surplus(p) # 0
  PROVE  Dangling(p \o <<Verify>>)
<1> DEFINE q == p \o <<Verify>>
           k == Len(q)
<1>1. Verify \in Item /\ <<Verify>> \in Seq(Item) /\ Verify.who = "check"
  BY GenerativeAssumption DEF Verify, Item
<1>2. /\ q \in Seq(Item) /\ Len(q) = Len(p) + 1 /\ Len(p) \in Nat /\ q[Len(p) + 1] = Verify
      /\ Begins(p, q)
  <2>1. q \in Seq(Item) /\ Begins(p, q)
    BY <1>1, BeginsFacts
  <2>2. Len(q) = Len(p) + 1 /\ Len(p) \in Nat /\ q[Len(p) + 1] = Verify
    BY <1>1
  <2> QED BY <2>1, <2>2
<1>3. k \in DOMAIN q /\ q[k].who = "check"
  BY <1>1, <1>2
<1>4. \A j \in 1..(k - 1) : ~Fails(q, j)
  <2> SUFFICES ASSUME NEW j \in 1..(k - 1) PROVE ~Fails(q, j)
    OBVIOUS
  <2>1. j \in 1..Len(p)
    BY <1>2
  <2>2. ~Fails(p, j)
    BY <2>1 DEF FailsAtAll
  <2> HIDE DEF q
  <2> QED BY <1>2, <2>1, <2>2, BeginningDecides
<1>5. TurnsOf(q, {"user"}, k) # TurnsOf(q, {"agent"}, k)
  <2>1. Surplus(q) = Surplus(p) + Surplus(<<Verify>>)
    BY <1>1, SurplusConcat
  <2>2. Surplus(p) \in Int
    BY SurplusConcat
  <2>3. Surplus(q) # 0
    BY <2>1, <2>2, SurplusSmall
  <2>4. Count(q, {"user"}) \in Nat /\ Count(q, {"agent"}) \in Nat
    <3> HIDE DEF q
    <3> QED BY <1>2, CountConcat
  <2> QED BY <2>3, <2>4 DEF Surplus, Count
<1> HIDE DEF q, k
<1> QED BY <1>3, <1>4, <1>5 DEF Dangling, q

-----------------------------------------------------------------------------
(* A trial and its replay, step by step.                                    *)

(* Turns that were not answered: the answer that follows, if any does.      *)
Owed(i, said, cut) == IF i \in cut THEN <<Answer(Last(said[i]))>> ELSE <<>>

Debt(i, cut) == IF i \in cut THEN 1 ELSE 0

(* The trial has had what its replay has, but for an answer that is owed.   *)
Together(i, said, cut, other) ==
  /\ Transcript(said, cut, i) \o Owed(i, said, cut) = Transcript(other, {}, i)
  /\ Surplus(Transcript(said, cut, i)) = Debt(i, cut)

(* The trial went on without an answer it owed, and owes it for good.       *)
Behind(i, said, cut) == Surplus(Transcript(said, cut, i)) >= 1 + Debt(i, cut)

Alike(i, said, cut, other) ==
  LET trial == Transcript(said, cut, i) IN
  \/ Dangling(trial)
  \/ FailsAtAll(trial) /\ Signature(trial).kind = "agent_error"
  \/ /\ FailsAtAll(trial) /\ FailsAtAll(Transcript(other, {}, i))
     /\ Signature(Transcript(other, {}, i)) = Signature(trial)
  \/ /\ ~FailsAtAll(trial)
     /\ \A h \in cut : h < i => steps[h + 1] # "check"
     /\ Together(i, said, cut, other) \/ Behind(i, said, cut)

(* The part a step adds in a trial and in its replay.                       *)
LEMMA ReplayedPart ==
  ASSUME TypeOK, NEW said, NEW cut, Spoken(said, cut), NEW other, NEW i \in 1..Len(steps),
         i \in GenerativeSteps => other[i] = said[i]
  PROVE  Part(i, other, {}) = IF i \in GenerativeSteps THEN Exchange(said[i])
                              ELSE Part(i, said, cut)
<1>1. i \in DOMAIN steps /\ steps[i] \in StepKind
  BY StepFacts
<1>2. CASE i \in GenerativeSteps
  <2>1. steps[i] # "check" /\ steps[i] # "message"
    BY <1>2 DEF GenerativeSteps, Generative
  <2>2. Resumed(i, {}) = {}
    BY DEF Resumed
  <2>3. Part(i, other, {}) = <<>> \o Exchange(other[i])
    BY <2>1, <2>2 DEF Part, Segment
  <2>4. Exchange(said[i]) \in Seq(Item)
    BY <1>2, ExchangeType DEF Spoken
  <2> QED BY <1>2, <2>3, <2>4
<1>3. CASE i \notin GenerativeSteps
  <2>1. steps[i] = "check" \/ steps[i] = "message"
    BY <1>1, <1>3 DEF GenerativeSteps, StepKind
  <2> QED BY <1>3, <2>1 DEF Part
<1> QED BY <1>2, <1>3

(* An answer is given late only to the turn of the step before.             *)
LEMMA ResumedBefore ==
  ASSUME TypeOK, NEW cut \in SUBSET GenerativeSteps, NEW i \in 1..Len(steps),
         \A h \in cut : h < i - 1 => steps[h + 1] # "check"
  PROVE  Resumed(i, cut) = IF i - 1 \in cut /\ steps[i] = "simulate" THEN {i - 1} ELSE {}
<1>1. i \in Nat /\ cut \subseteq Int
  BY StepFacts DEF GenerativeSteps
<1>2. ASSUME NEW h \in Resumed(i, cut) PROVE h = i - 1 /\ h \in cut /\ steps[i] = "simulate"
  <2>1. h \in cut /\ h < i /\ steps[i] = "simulate"
        /\ \A j \in (h + 1)..(i - 1) : steps[j] = "check"
    BY DEF Resumed
  <2>2. h \in Int
    BY <1>1, <2>1
  <2>3. ~(h < i - 1)
    <3> SUFFICES ASSUME h < i - 1 PROVE FALSE
      OBVIOUS
    <3>1. h + 1 \in (h + 1)..(i - 1)
      BY <1>1, <2>2
    <3> QED BY <2>1, <3>1
  <2> QED BY <1>1, <2>1, <2>2, <2>3
<1>3. ASSUME i - 1 \in cut, steps[i] = "simulate" PROVE i - 1 \in Resumed(i, cut)
  <2>1. i - 1 < i /\ \A j : ~(j \in ((i - 1) + 1)..(i - 1))
    BY <1>1
  <2> QED BY <1>3, <2>1 DEF Resumed
<1> QED BY <1>2, <1>3

(* A step adds what was owed, if a simulation goes on, and then rest: all   *)
(* of its own but for the answer it owes.                                   *)
Adds(rest, i, said, cut, all) ==
  /\ Part(i, said, cut)
       = (IF steps[i] = "simulate" THEN Owed(i - 1, said, cut) ELSE <<>>) \o rest
  /\ rest \o Owed(i, said, cut) = all
  /\ Surplus(rest) = Debt(i, cut) /\ Unchecked(rest)

LEMMA SegmentCut ==
  ASSUME TypeOK, NEW said, NEW cut, Spoken(said, cut), NEW i \in GenerativeSteps,
         \A h \in cut : h < i - 1 => steps[h + 1] # "check"
  PROVE  \E rest \in Seq(Item) : Adds(rest, i, said, cut, Exchange(said[i]))
<1>1. cut \in SUBSET GenerativeSteps /\ said[i] \in Seq(Turns) /\ (i \in cut => said[i] # <<>>)
  BY DEF Spoken
<1>2. i \in 1..Len(steps) /\ steps[i] # "check" /\ steps[i] # "message"
  BY StepFacts DEF GenerativeSteps, Generative
<1>3. Resumed(i, cut) = IF i - 1 \in cut /\ steps[i] = "simulate" THEN {i - 1} ELSE {}
  BY <1>1, <1>2, ResumedBefore
<1> DEFINE first == IF steps[i] = "simulate" THEN Owed(i - 1, said, cut) ELSE <<>>
           rest == IF i \in cut THEN Front(Exchange(said[i])) ELSE Exchange(said[i])
<1>4. Segment(i, said, cut) = first \o rest
  <2>1. CASE i - 1 \in cut /\ steps[i] = "simulate"
    <3>1. (CHOOSE h \in Resumed(i, cut) : TRUE) = i - 1 /\ Resumed(i, cut) # {}
      BY <1>3, <2>1
    <3> QED BY <2>1, <3>1 DEF Segment, Owed
  <2>2. CASE ~(i - 1 \in cut /\ steps[i] = "simulate")
    <3>1. Resumed(i, cut) = {} /\ first = <<>>
      BY <1>3, <2>2 DEF Owed
    <3> QED BY <3>1 DEF Segment
  <2> QED BY <2>1, <2>2
<1>5. Exchange(said[i]) \in Seq(Item)
  BY <1>1, ExchangeType
<1>6. CASE i \in cut
  <2>1. /\ rest \in Seq(Item) /\ rest \o <<Answer(Last(said[i]))>> = Exchange(said[i])
        /\ Surplus(rest) = 1 /\ Unchecked(rest)
    BY <1>1, <1>6, ExchangeCut
  <2> HIDE DEF first, rest
  <2>2. Adds(rest, i, said, cut, Exchange(said[i]))
    BY <1>2, <1>4, <1>6, <2>1 DEF Adds, Part, Owed, Debt, first
  <2> QED BY <2>1, <2>2
<1>7. CASE i \notin cut
  <2>1. /\ rest \in Seq(Item) /\ rest \o <<>> = Exchange(said[i])
        /\ Surplus(rest) = 0 /\ Unchecked(rest)
    BY <1>1, <1>5, <1>7, ExchangeCount
  <2> HIDE DEF first, rest
  <2>2. Adds(rest, i, said, cut, Exchange(said[i]))
    BY <1>2, <1>4, <1>7, <2>1 DEF Adds, Part, Owed, Debt, first
  <2> QED BY <2>1, <2>2
<1> QED BY <1>6, <1>7

LEMMA PartCut ==
  ASSUME TypeOK, NEW said, NEW cut, Spoken(said, cut), NEW other, NEW i \in 1..Len(steps),
         i \in GenerativeSteps => other[i] = said[i],
         \A h \in cut : h < i - 1 => steps[h + 1] # "check", steps[i] # "check"
  PROVE  \E rest \in Seq(Item) : Adds(rest, i, said, cut, Part(i, other, {}))
<1>1. CASE i \in GenerativeSteps
  <2>1. Part(i, other, {}) = Exchange(said[i])
    BY <1>1, ReplayedPart
  <2>2. \E rest \in Seq(Item) : Adds(rest, i, said, cut, Exchange(said[i]))
    BY <1>1, SegmentCut
  <2> QED BY <2>1, <2>2
<1>2. CASE i \notin GenerativeSteps
  <2>1. Part(i, other, {}) = Part(i, said, cut)
    BY <1>2, ReplayedPart
  <2>2. steps[i] = "message" /\ i \notin cut
    BY <1>2, StepFacts DEF GenerativeSteps, StepKind, Spoken
  <2>3. Part(i, said, cut) = Exchange(<<FixedTurn>>)
    BY <2>2 DEF Part
  <2>4. <<FixedTurn>> \in Seq(Turns)
    BY GenerativeAssumption
  <2> DEFINE rest == Exchange(<<FixedTurn>>)
  <2>5. rest \in Seq(Item) /\ Surplus(rest) = 0 /\ Unchecked(rest)
    BY <2>4, ExchangeType, ExchangeCount
  <2> HIDE DEF rest
  <2>6. /\ Part(i, said, cut)
             = (IF steps[i] = "simulate" THEN Owed(i - 1, said, cut) ELSE <<>>) \o rest
        /\ rest \o Owed(i, said, cut) = Part(i, other, {})
        /\ Surplus(rest) = Debt(i, cut)
    BY <2>1, <2>2, <2>3, <2>5 DEF Owed, Debt, rest
  <2>7. Adds(rest, i, said, cut, Part(i, other, {}))
    BY <2>5, <2>6 DEF Adds
  <2> QED BY <2>5, <2>7
<1> QED BY <1>1, <1>2

LEMMA OwedFacts ==
  ASSUME TypeOK, NEW said, NEW cut, Spoken(said, cut), NEW i
  PROVE  /\ Owed(i, said, cut) \in Seq(Item) /\ Surplus(Owed(i, said, cut)) = 0 - Debt(i, cut)
         /\ Unchecked(Owed(i, said, cut)) /\ Debt(i, cut) \in {0, 1}
         /\ Debt(i, cut) = 0 => Owed(i, said, cut) = <<>>
<1>1. CASE i \in cut
  <2>1. Last(said[i]) \in Turns
    <3>1. said[i] \in Seq(Turns) /\ said[i] # <<>>
      BY <1>1 DEF Spoken
    <3> QED BY <3>1 DEF Last
  <2> DEFINE u == Last(said[i])
  <2> HIDE DEF u
  <2>2. Answer(u) \in Item /\ Surplus(<<Answer(u)>>) = -1
    BY <2>1, SurplusSmall DEF u
  <2>3. Count(<<Answer(u)>>, {"check"}) = 0
    <3>1. Answer(u).who = "agent"
      BY DEF Answer
    <3> QED BY <2>2, <3>1, CountOne
  <2>4. Owed(i, said, cut) = <<Answer(u)>> /\ Debt(i, cut) = 1
    BY <1>1 DEF Owed, Debt, u
  <2>5. <<Answer(u)>> \in Seq(Item)
    BY <2>2
  <2> QED BY <2>2, <2>3, <2>4, <2>5 DEF Unchecked
<1>2. CASE i \notin cut
  <2>1. Unchecked(<<>>)
    <3>1. {j \in 1..0 : (<<>>)[j].who \in {"check"}} = {}
      OBVIOUS
    <3> QED BY <3>1, FS_EmptySet DEF Unchecked, Count, TurnsOf
  <2>2. Owed(i, said, cut) = <<>> /\ Debt(i, cut) = 0
    BY <1>2 DEF Owed, Debt
  <2> QED BY <2>1, <2>2, SurplusSmall
<1> QED BY <1>1, <1>2

LEMMA ItemsAssociate ==
  ASSUME NEW p \in Seq(Item), NEW q \in Seq(Item), NEW r \in Seq(Item)
  PROVE  p \o (q \o r) = (p \o q) \o r
BY ConcatAssociative

(* A step that is not a check keeps a trial and its replay alike.           *)
LEMMA AlikeTurns ==
  ASSUME TypeOK, NEW said, NEW cut, Spoken(said, cut), NEW other, Spoken(other, {}),
         \A h \in cut : steps[h] = "simulate", NEW i \in 1..Len(steps), steps[i] # "check",
         i \in GenerativeSteps /\ ~FailsAtAll(Transcript(said, cut, i)) => other[i] = said[i],
         ~FailsAtAll(Transcript(said, cut, i - 1)),
         \A h \in cut : h < i - 1 => steps[h + 1] # "check",
         Together(i - 1, said, cut, other) \/ Behind(i - 1, said, cut)
  PROVE  Alike(i, said, cut, other)
<1> DEFINE a == Transcript(said, cut, i - 1)
           b == Transcript(other, {}, i - 1)
           t == Transcript(said, cut, i)
           v == Transcript(other, {}, i)
           s == Part(i, other, {})
           O == Owed(i - 1, said, cut)
           P == Owed(i, said, cut)
           first == IF steps[i] = "simulate" THEN O ELSE <<>>
<1>1. i \in Nat /\ cut \subseteq Int
  BY StepFacts DEF Spoken, GenerativeSteps
<1>2. a \in Seq(Item) /\ Part(i, said, cut) \in Seq(Item) /\ t = a \o Part(i, said, cut)
  BY TranscriptStep
<1>3. b \in Seq(Item) /\ s \in Seq(Item) /\ v = b \o s
  BY TranscriptStep
<1>4. PICK rest \in Seq(Item) :
        /\ Part(i, said, cut) = first \o rest
        /\ ~FailsAtAll(t) => rest \o P = s
        /\ Surplus(rest) = Debt(i, cut) /\ Unchecked(rest)
  <2>1. CASE i \in GenerativeSteps => other[i] = said[i]
    <3>1. \E rest \in Seq(Item) : Adds(rest, i, said, cut, s)
      BY <2>1, PartCut
    <3> QED BY <3>1 DEF Adds
  <2>2. CASE ~(i \in GenerativeSteps => other[i] = said[i])
    <3>1. \E rest \in Seq(Item) : Adds(rest, i, said, cut, Exchange(said[i]))
      BY <2>2, SegmentCut
    <3>2. FailsAtAll(t)
      BY <2>2
    <3> QED BY <3>1, <3>2 DEF Adds
  <2> QED BY <2>1, <2>2
<1>5. /\ O \in Seq(Item) /\ Surplus(O) = 0 - Debt(i - 1, cut) /\ Unchecked(O)
      /\ Debt(i - 1, cut) \in {0, 1} /\ (Debt(i - 1, cut) = 0 => O = <<>>)
  BY OwedFacts
<1>6. /\ P \in Seq(Item) /\ Debt(i, cut) \in {0, 1} /\ (Debt(i, cut) = 0 => P = <<>>)
  BY OwedFacts
<1>7. /\ first \in Seq(Item) /\ Unchecked(first)
      /\ Surplus(first) = IF steps[i] = "simulate" THEN 0 - Debt(i - 1, cut) ELSE 0
  <2>1. Unchecked(<<>>)
    <3>1. {j \in 1..0 : (<<>>)[j].who \in {"check"}} = {}
      OBVIOUS
    <3> QED BY <3>1, FS_EmptySet DEF Unchecked, Count, TurnsOf
  <2> HIDE DEF O
  <2> QED BY <1>5, <2>1, SurplusSmall
<1>8. steps[i] # "simulate" => Debt(i, cut) = 0
  BY DEF Debt
<1>9. Together(i - 1, said, cut, other) <=> a \o O = b /\ Surplus(a) = Debt(i - 1, cut)
  BY DEF Together
<1>10. Behind(i - 1, said, cut) <=> Surplus(a) >= 1 + Debt(i - 1, cut)
  BY DEF Behind
<1>11. Together(i, said, cut, other) <=> t \o P = v /\ Surplus(t) = Debt(i, cut)
  BY DEF Together
<1>12. Behind(i, said, cut) <=> Surplus(t) >= 1 + Debt(i, cut)
  BY DEF Behind
<1>13. FailsAtAll(t) /\ Signature(t).kind = "agent_error" => Alike(i, said, cut, other)
  BY DEF Alike
<1>14. ~FailsAtAll(t) /\ (Together(i, said, cut, other) \/ Behind(i, said, cut))
         => Alike(i, said, cut, other)
  <2>1. \A h \in cut : h < i => steps[h + 1] # "check"
    <3> SUFFICES ASSUME NEW h \in cut, h < i PROVE steps[h + 1] # "check"
      OBVIOUS
    <3>1. CASE h < i - 1
      BY <3>1
    <3>2. CASE ~(h < i - 1)
      <4>1. h + 1 = i
        BY <1>1, <3>2
      <4> QED BY <4>1
    <3> QED BY <3>1, <3>2
  <2> QED BY <2>1 DEF Alike
<1>15. ~FailsAtAll(a)
  OBVIOUS
<1>16. Together(i - 1, said, cut, other) \/ Behind(i - 1, said, cut)
  OBVIOUS
<1> HIDE DEF a, b, t, v, s, O, P
<1>17. first \o rest \in Seq(Item) /\ Unchecked(first \o rest)
       /\ Surplus(first \o rest) = Surplus(first) + Surplus(rest)
  <2> HIDE DEF first
  <2>1. first \o rest \in Seq(Item)
    BY <1>7
  <2>2. Count(first \o rest, {"check"}) = Count(first, {"check"}) + Count(rest, {"check"})
    BY <1>7, CountConcat
  <2>3. Surplus(first \o rest) = Surplus(first) + Surplus(rest)
    BY <1>7, SurplusConcat
  <2> QED BY <1>4, <1>7, <2>1, <2>2, <2>3 DEF Unchecked
<1>18. t = a \o (first \o rest)
  BY <1>2, <1>4
<1>19. CASE FailsAtAll(t)
  <2>1. Signature(a \o (first \o rest)).kind = "agent_error"
    <3> HIDE DEF first
    <3>1. FailsAtAll(a \o (first \o rest))
      BY <1>18, <1>19
    <3> QED BY <1>2, <1>15, <1>17, <3>1, FailsInTurns
  <2> QED BY <1>13, <1>18, <1>19, <2>1
<1>20. CASE ~FailsAtAll(t)
  <2>1. rest \o P = s
    BY <1>4, <1>20
  <2>2. Surplus(a) \in Int /\ Surplus(t) = Surplus(a) + (Surplus(first) + Surplus(rest))
    <3> HIDE DEF first
    <3>1. Surplus(a \o (first \o rest)) = Surplus(a) + Surplus(first \o rest)
      BY <1>2, <1>17, SurplusConcat
    <3>2. Surplus(a) \in Int
      BY <1>2, SurplusConcat
    <3> QED BY <1>17, <1>18, <3>1, <3>2
  <2>3. Surplus(t) = (Surplus(a) + Debt(i, cut))
                       - (IF steps[i] = "simulate" THEN Debt(i - 1, cut) ELSE 0)
    BY <1>4, <1>5, <1>6, <1>7, <2>2
  <2>4. CASE Behind(i - 1, said, cut)
    <3>1. Surplus(t) >= 1 + Debt(i, cut)
      BY <1>5, <1>6, <1>10, <2>2, <2>3, <2>4
    <3> QED BY <1>12, <1>14, <1>20, <3>1
  <2>5. CASE Together(i - 1, said, cut, other) /\ (steps[i] = "simulate" \/ Debt(i - 1, cut) = 0)
    <3>1. first = O
      BY <1>5, <2>5
    <3>2. Surplus(t) = Debt(i, cut)
      BY <1>5, <1>6, <1>9, <2>3, <2>5
    <3>3. (a \o (O \o rest)) \o P = (a \o O) \o (rest \o P)
      <4> HIDE DEF first
      <4>1. O \o rest \in Seq(Item) /\ a \o O \in Seq(Item)
        BY <1>2, <1>5
      <4>2. a \o (O \o rest) = (a \o O) \o rest
        BY <1>2, <1>5, ItemsAssociate
      <4>3. ((a \o O) \o rest) \o P = (a \o O) \o (rest \o P)
        BY <1>6, <4>1, ItemsAssociate
      <4> QED BY <4>2, <4>3
    <3>4. t \o P = v
      BY <1>3, <1>9, <1>18, <2>1, <2>5, <3>1, <3>3
    <3> QED BY <1>11, <1>14, <1>20, <3>2, <3>4
  <2>6. CASE Together(i - 1, said, cut, other) /\ steps[i] # "simulate" /\ Debt(i - 1, cut) = 1
    <3>1. Surplus(t) >= 1 + Debt(i, cut)
      BY <1>6, <1>8, <1>9, <2>2, <2>3, <2>6
    <3> QED BY <1>12, <1>14, <1>20, <3>1
  <2> QED BY <1>5, <1>16, <2>4, <2>5, <2>6
<1> QED BY <1>19, <1>20

(* A check either dangles or finds a trial and its replay the same.         *)
LEMMA AlikeCheck ==
  ASSUME TypeOK, NEW said, NEW cut, Spoken(said, cut), NEW other, Spoken(other, {}),
         NEW i \in 1..Len(steps), steps[i] = "check",
         ~FailsAtAll(Transcript(said, cut, i - 1)),
         \A h \in cut : h < i - 1 => steps[h + 1] # "check",
         Together(i - 1, said, cut, other) \/ Behind(i - 1, said, cut)
  PROVE  Alike(i, said, cut, other)
<1> DEFINE a == Transcript(said, cut, i - 1)
           b == Transcript(other, {}, i - 1)
           t == Transcript(said, cut, i)
           v == Transcript(other, {}, i)
           O == Owed(i - 1, said, cut)
<1>1. i \in Nat /\ cut \subseteq Int
  BY StepFacts DEF Spoken, GenerativeSteps
<1>2. a \in Seq(Item) /\ t = a \o <<Verify>>
  BY TranscriptStep DEF Part
<1>3. b \in Seq(Item) /\ v = b \o <<Verify>>
  BY TranscriptStep DEF Part
<1>4. Debt(i - 1, cut) \in {0, 1} /\ (Debt(i - 1, cut) = 0 => O = <<>>)
  BY OwedFacts
<1>5. i \notin cut
  BY DEF Spoken, GenerativeSteps, Generative
<1>6. Debt(i, cut) = 0 /\ Owed(i, said, cut) = <<>>
  BY <1>5 DEF Debt, Owed
<1>7. Together(i - 1, said, cut, other) <=> a \o O = b /\ Surplus(a) = Debt(i - 1, cut)
  BY DEF Together
<1>8. Behind(i - 1, said, cut) <=> Surplus(a) >= 1 + Debt(i - 1, cut)
  BY DEF Behind
<1>9. Together(i, said, cut, other) <=> t \o <<>> = v /\ Surplus(t) = 0
  BY <1>6 DEF Together
<1>10. ~FailsAtAll(a)
  OBVIOUS
<1>11. CASE Surplus(a) # 0
  <2>1. Dangling(a \o <<Verify>>)
    <3> HIDE DEF a
    <3> QED BY <1>2, <1>10, <1>11, ChecksDangle
  <2>2. Dangling(t)
    BY <1>2, <2>1
  <2> QED BY <2>2 DEF Alike
<1>12. CASE Surplus(a) = 0
  <2>1. Debt(i - 1, cut) = 0 /\ Together(i - 1, said, cut, other)
    BY <1>4, <1>7, <1>8, <1>12
  <2>2. a \o <<>> = b
    BY <1>4, <1>7, <2>1
  <2>3. a = b /\ t = v /\ t \in Seq(Item) /\ t \o <<>> = v
    <3>1. <<Verify>> \in Seq(Item)
      BY SurplusSmall
    <3> HIDE DEF a, b, t, v
    <3>2. a = b
      BY <1>2, <2>2
    <3> QED BY <1>2, <1>3, <3>1, <3>2
  <2>4. CASE FailsAtAll(t)
    BY <2>3, <2>4 DEF Alike
  <2>5. CASE ~FailsAtAll(t)
    <3>1. \A h \in cut : h < i => steps[h + 1] # "check"
      <4> SUFFICES ASSUME NEW h \in cut, h < i PROVE steps[h + 1] # "check"
        OBVIOUS
      <4>1. h # i - 1
        BY <2>1 DEF Debt
      <4>2. h < i - 1
        BY <1>1, <4>1
      <4> QED BY <4>2
    <3>2. Surplus(t) = 0
      <4>1. Surplus(a \o <<Verify>>) = Surplus(a) + Surplus(<<Verify>>)
        <5>1. <<Verify>> \in Seq(Item)
          BY SurplusSmall
        <5> HIDE DEF a
        <5> QED BY <1>2, <5>1, SurplusConcat
      <4> QED BY <1>2, <1>12, <4>1, SurplusSmall
    <3>3. Together(i, said, cut, other)
      BY <1>9, <2>3, <3>2
    <3> QED BY <2>5, <3>1, <3>3 DEF Alike
  <2> QED BY <2>4, <2>5
<1> QED BY <1>11, <1>12

(* What was decided stays decided.                                          *)
LEMMA AlikeSettled ==
  ASSUME TypeOK, NEW said, NEW cut, Spoken(said, cut), NEW other, Spoken(other, {}),
         NEW i \in 1..Len(steps), Alike(i - 1, said, cut, other)
  PROVE  \/ Alike(i, said, cut, other)
         \/ /\ ~FailsAtAll(Transcript(said, cut, i - 1))
            /\ \A h \in cut : h < i - 1 => steps[h + 1] # "check"
            /\ Together(i - 1, said, cut, other) \/ Behind(i - 1, said, cut)
<1> DEFINE a == Transcript(said, cut, i - 1)
           b == Transcript(other, {}, i - 1)
           t == Transcript(said, cut, i)
           v == Transcript(other, {}, i)
<1>1. a \in Seq(Item) /\ t \in Seq(Item) /\ Begins(a, t)
  <2>1. /\ a \in Seq(Item) /\ Part(i, said, cut) \in Seq(Item)
        /\ t = a \o Part(i, said, cut)
    BY TranscriptStep
  <2> HIDE DEF a, t
  <2> QED BY <2>1, BeginsFacts
<1>2. b \in Seq(Item) /\ v \in Seq(Item) /\ Begins(b, v)
  <2>1. /\ b \in Seq(Item) /\ Part(i, other, {}) \in Seq(Item)
        /\ v = b \o Part(i, other, {})
    BY TranscriptStep
  <2> HIDE DEF b, v
  <2> QED BY <2>1, BeginsFacts
<1>3. /\ Dangling(a) => Dangling(t)
      /\ FailsAtAll(a) => FailsAtAll(t) /\ Signature(t) = Signature(a)
      /\ FailsAtAll(b) => FailsAtAll(v) /\ Signature(v) = Signature(b)
  <2> HIDE DEF a, b, t, v
  <2> QED BY <1>1, <1>2, VerdictStays
<1>4. \/ Dangling(a)
      \/ FailsAtAll(a) /\ Signature(a).kind = "agent_error"
      \/ FailsAtAll(a) /\ FailsAtAll(b) /\ Signature(b) = Signature(a)
      \/ /\ ~FailsAtAll(a)
         /\ \A h \in cut : h < i - 1 => steps[h + 1] # "check"
         /\ Together(i - 1, said, cut, other) \/ Behind(i - 1, said, cut)
  BY DEF Alike
<1>5. /\ Dangling(t) => Alike(i, said, cut, other)
      /\ FailsAtAll(t) /\ Signature(t).kind = "agent_error" => Alike(i, said, cut, other)
      /\ FailsAtAll(t) /\ FailsAtAll(v) /\ Signature(v) = Signature(t)
           => Alike(i, said, cut, other)
  BY DEF Alike
<1> HIDE DEF a, b, t, v
<1>6. CASE Dangling(a)
  BY <1>3, <1>5, <1>6
<1>7. CASE FailsAtAll(a) /\ Signature(a).kind = "agent_error"
  BY <1>3, <1>5, <1>7
<1>8. CASE FailsAtAll(a) /\ FailsAtAll(b) /\ Signature(b) = Signature(a)
  BY <1>3, <1>5, <1>8
<1> QED BY <1>4, <1>6, <1>7, <1>8 DEF a

LEMMA AlikeThroughout ==
  ASSUME TypeOK, NEW said, NEW cut, Spoken(said, cut), NEW other, Spoken(other, {}),
         \A h \in cut : steps[h] = "simulate",
         \A i \in GenerativeSteps : ~FailsAtAll(Transcript(said, cut, i)) => other[i] = said[i]
  PROVE  Alike(Len(steps), said, cut, other)
<1> DEFINE S == {i \in 0..Len(steps) : Alike(i, said, cut, other)}
<1>1. 0 \in S
  <2>1. Transcript(said, cut, 0) = <<>> /\ Transcript(other, {}, 0) = <<>>
    BY TranscriptStep
  <2>2. 0 \in 0..Len(steps) /\ 0 \notin cut /\ \A h \in cut : ~(h < 0)
    BY StepFacts DEF Spoken
  <2>3. Owed(0, said, cut) = <<>> /\ Debt(0, cut) = 0
    BY <2>2 DEF Owed, Debt
  <2>4. ~FailsAtAll(<<>>)
    BY DEF FailsAtAll
  <2>5. (<<>> \o <<>>) = <<>>
    OBVIOUS
  <2>6. Together(0, said, cut, other)
    BY <2>1, <2>3, <2>5, SurplusSmall DEF Together
  <2>7. Alike(0, said, cut, other)
    BY <2>1, <2>2, <2>4, <2>6 DEF Alike
  <2> QED BY <2>2, <2>7
<1>2. ASSUME NEW i \in 1..Len(steps), i - 1 \in S PROVE i \in S
  <2>1. i \in 0..Len(steps) /\ Alike(i - 1, said, cut, other)
    BY <1>2, StepFacts
  <2>2. CASE Alike(i, said, cut, other)
    BY <2>1, <2>2
  <2>3. CASE /\ ~FailsAtAll(Transcript(said, cut, i - 1))
             /\ \A h \in cut : h < i - 1 => steps[h + 1] # "check"
             /\ Together(i - 1, said, cut, other) \/ Behind(i - 1, said, cut)
    <3>1. CASE steps[i] = "check"
      <4>1. Alike(i, said, cut, other)
        BY <2>3, <3>1, AlikeCheck
      <4> QED BY <2>1, <4>1
    <3>2. CASE steps[i] # "check"
      <4>1. i \in GenerativeSteps /\ ~FailsAtAll(Transcript(said, cut, i)) => other[i] = said[i]
        OBVIOUS
      <4>2. Alike(i, said, cut, other)
        BY <2>3, <3>2, <4>1, AlikeTurns
      <4> QED BY <2>1, <4>2
    <3> QED BY <3>1, <3>2
  <2> QED BY <2>1, <2>2, <2>3, AlikeSettled
<1>3. Len(steps) \in Nat /\ Len(steps) \in 0..Len(steps)
  BY StepFacts
<1>4. \A i \in 0..Len(steps) : i \in S
  <2> HIDE DEF S
  <2> QED BY <1>1, <1>2, <1>3, UpToInduction
<1> QED BY <1>3, <1>4

(* What a trial returns replays as it failed, if a check did not dangle.    *)
LEMMA OutcomeReplays ==
  ASSUME TypeOK, NEW said \in [GenerativeSteps -> Messages],
         NEW cut \in SUBSET {i \in DOMAIN steps : steps[i] = "simulate"},
         NEW raw \in BOOLEAN,
         NEW stoppedAt \in IF raw THEN DOMAIN steps ELSE {Len(steps) + 1},
         Outcome(said, cut, raw, stoppedAt).signature.kind = "check",
         ~Outcome(said, cut, raw, stoppedAt).dangling
  PROVE  Replay(Outcome(said, cut, raw, stoppedAt).turns)
           = Outcome(said, cut, raw, stoppedAt).signature
<1> DEFINE n == Len(steps)
           trial == Transcript(said, cut, n)
           turns == Breakdown(said, cut, stoppedAt)
           replay == Transcript(turns, {}, n)
<1>1. /\ Outcome(said, cut, raw, stoppedAt).signature
           = IF raw THEN NoFailure ELSE Signature(trial)
      /\ Outcome(said, cut, raw, stoppedAt).turns = turns
      /\ Outcome(said, cut, raw, stoppedAt).dangling = Dangling(trial)
  BY DEF Outcome
<1>2. ~raw /\ Signature(trial).kind = "check" /\ ~Dangling(trial)
  <2> HIDE DEF trial
  <2> QED BY <1>1 DEF NoFailure
<1>3. stoppedAt = n + 1
  BY <1>2
<1>4. cut \in SUBSET GenerativeSteps /\ \A h \in cut : steps[h] = "simulate"
  BY DEF GenerativeSteps, Generative
<1>5. Spoken(said, cut)
  BY <1>4, SpokenFacts
<1>6. turns \in Said
  BY DEF Breakdown, Said
<1>7. Spoken(turns, {})
  <2> HIDE DEF turns
  <2> QED BY <1>6, SpokenFacts
<1>8. \A i \in GenerativeSteps :
        ~FailsAtAll(Transcript(said, cut, i)) => turns[i] = said[i]
  <2>1. \A i \in GenerativeSteps : i \in DOMAIN steps /\ i < n + 1
    BY StepFacts DEF GenerativeSteps
  <2> QED BY <1>3, <2>1 DEF Breakdown
<1>9. Alike(n, said, cut, turns)
  <2> HIDE DEF turns
  <2> QED BY <1>4, <1>5, <1>7, <1>8, AlikeThroughout
<1>10. FailsAtAll(trial)
  BY <1>2 DEF Signature, NoFailure
<1>11. Signature(replay) = Signature(trial)
  <2> HIDE DEF turns
  <2> QED BY <1>2, <1>9, <1>10 DEF Alike
<1>12. Replay(turns) = Signature(replay)
  BY DEF Replay, Merged
<1> HIDE DEF turns, trial, replay
<1> QED BY <1>1, <1>2, <1>11, <1>12

(* What every trial returned replays as it failed.                          *)
OutcomesReplay ==
  \A t \in Trials :
    outcomes[t].signature.kind = "check" /\ ~outcomes[t].dangling
      => Replay(outcomes[t].turns) = outcomes[t].signature

LEMMA NextReplay == TypeOK /\ OutcomesReplay /\ [Next]_vars => OutcomesReplay'
<1> SUFFICES ASSUME TypeOK, OutcomesReplay, [Next]_vars PROVE OutcomesReplay'
  OBVIOUS
<1>1. UNCHANGED <<agent, steps>>
  BY DEF Next, ProbeApplies, ProbeDoesNotApply, ProbeFails, ProbeRaises, TrialFinishes,
         TrialRaises, Collect, CollectRaises, TrialsOver, ShrinkStep, ShrinkStepEnds,
         ShrinkStepRaises, ShrinkOver, ExtractFails, Report, Rest, vars, given
<1>2. \A said : Replay(said)' = Replay(said)
  BY <1>1, ReplayStays
<1>3. CASE UNCHANGED outcomes
  BY <1>2, <1>3 DEF OutcomesReplay
<1>4. ASSUME NEW t \in Trials, TrialFinishes(t) PROVE OutcomesReplay'
  <2>1. PICK said \in [GenerativeSteps -> Messages], raw \in BOOLEAN,
             cut \in SUBSET {i \in DOMAIN steps : steps[i] = "simulate"} :
          \E stoppedAt \in IF raw THEN DOMAIN steps ELSE {Len(steps) + 1} :
            outcomes' = [outcomes EXCEPT ![t] = Outcome(said, cut, raw, stoppedAt)]
    BY <1>4 DEF TrialFinishes
  <2>2. PICK stoppedAt \in IF raw THEN DOMAIN steps ELSE {Len(steps) + 1} :
          outcomes' = [outcomes EXCEPT ![t] = Outcome(said, cut, raw, stoppedAt)]
    BY <2>1
  <2> DEFINE o == Outcome(said, cut, raw, stoppedAt)
  <2>3. o.signature.kind = "check" /\ ~o.dangling => Replay(o.turns) = o.signature
    BY OutcomeReplays
  <2> HIDE DEF o
  <2>4. outcomes' = [outcomes EXCEPT ![t] = o] /\ DOMAIN outcomes = Trials
    BY <2>2 DEF o, TypeOK
  <2>5. ASSUME NEW u \in Trials PROVE outcomes'[u] = IF u = t THEN o ELSE outcomes[u]
    BY <2>4
  <2>6. \A u \in Trials :
          outcomes'[u].signature.kind = "check" /\ ~outcomes'[u].dangling
            => Replay(outcomes'[u].turns) = outcomes'[u].signature
    BY <2>3, <2>5 DEF OutcomesReplay
  <2> QED BY <1>2, <2>6 DEF OutcomesReplay
<1> QED BY <1>3, <1>4
  DEF Next, ProbeApplies, ProbeDoesNotApply, ProbeFails, ProbeRaises, TrialRaises, Collect,
      CollectRaises, TrialsOver, ShrinkStep, ShrinkStepEnds, ShrinkStepRaises, ShrinkOver,
      ExtractFails, Report, Rest, vars, work

(* A failing check of the trial that is shrunk is found again by replaying  *)
(* what was captured, whatever a simulation owed across steps, provided     *)
(* that no check was made while it owed an answer.                          *)
THEOREM ReplayFindsCheckHolds == Spec => []ReplayFindsCheck
<1>1. Init => OutcomesReplay
  <2>1. Pending.signature.kind # "check"
    BY DEF Pending, NoFailure
  <2>2. Init => \A t \in Trials : outcomes[t] = Pending
    BY DEF Init
  <2> QED BY <2>1, <2>2 DEF OutcomesReplay
<1>2. TypeOK /\ FirstFailureIsShrunk /\ OutcomesReplay => ReplayFindsCheck
  <2> SUFFICES ASSUME TypeOK, FirstFailureIsShrunk, OutcomesReplay, target.kind = "check",
                      ~outcomes[FirstOf(Failing)].dangling
               PROVE  Replay(captured) = target
    BY DEF ReplayFindsCheck
  <2>1. target # NoFailure
    BY DEF NoFailure
  <2>2. PICK t \in Started :
          /\ outcomes[t].signature = target /\ outcomes[t].turns = captured
          /\ \A u \in Started : outcomes[u].signature # NoFailure => t <= u
    BY <2>1 DEF FirstFailureIsShrunk
  <2>3. t \in Failing /\ Failing \subseteq Trials /\ \A u \in Failing : t <= u
    BY <2>1, <2>2 DEF Failing, Started
  <2>4. FirstOf(Failing) \in Failing /\ \A u \in Failing : FirstOf(Failing) <= u
    BY <2>3, FirstFacts
  <2>5. FirstOf(Failing) = t
    <3>1. FirstOf(Failing) \in Nat /\ t \in Nat
      <4>1. Trials \subseteq Nat
        BY GenerativeAssumption DEF Trials
      <4> QED BY <2>3, <2>4, <4>1
    <3>2. t <= FirstOf(Failing) /\ FirstOf(Failing) <= t
      BY <2>3, <2>4
    <3> QED BY <3>1, <3>2
  <2>6. t \in Trials /\ outcomes[t].signature.kind = "check" /\ ~outcomes[t].dangling
    BY <2>2, <2>3, <2>5
  <2> QED BY <2>2, <2>6 DEF OutcomesReplay
<1> QED BY <1>1, <1>2, NextReplay, StagesInvariance, NextType, PTL DEF Spec

(* A regression of which the shrink changed one step fails as the trial     *)
(* did; one of which it changed none does if the failing check did not      *)
(* dangle.                                                                  *)
THEOREM RegressionReproducesAloneHolds == Spec => []RegressionReproducesAlone
<1>1. TypeOK /\ ShrinkKeepsFailure /\ ReplayFindsCheck => RegressionReproducesAlone
  <2> SUFFICES ASSUME TypeOK, ShrinkKeepsFailure, ReplayFindsCheck
               PROVE  RegressionReproducesAlone
    OBVIOUS
  <2>1. /\ captured \in [DOMAIN steps -> Messages \cup {<<>>}]
        /\ shrunk \in [DOMAIN steps -> Messages \cup {<<>>}]
    BY DEF TypeOK
  <2>2. ASSUME NEW i \in DOMAIN steps, Changed = {i} PROVE Replay(shrunk) = target
    <3>1. shrunk[i] # captured[i] /\ \A j \in DOMAIN steps \ {i} : shrunk[j] = captured[j]
      BY <2>2 DEF Changed
    <3>2. shrunk = [captured EXCEPT ![i] = shrunk[i]]
      BY <2>1, <3>1
    <3>3. Replay([captured EXCEPT ![i] = shrunk[i]]) = target
      BY <3>1 DEF ShrinkKeepsFailure
    <3> QED BY <3>2, <3>3
  <2>3. ASSUME Changed = {}, target.kind = "check", ~outcomes[FirstOf(Failing)].dangling
        PROVE  Replay(shrunk) = target
    <3>1. shrunk = captured
      BY <2>1, <2>3 DEF Changed
    <3> QED BY <2>3, <3>1 DEF ReplayFindsCheck
  <2> QED BY <2>2, <2>3 DEF RegressionReproducesAlone
<1> QED BY <1>1, TypeCorrect, ShrinkKeepsFailureAlways, ReplayFindsCheckHolds, PTL

-----------------------------------------------------------------------------
(* The file.                                                               *)

(* What SkipKeepsOut says of the file, said of any text.                   *)
KeptOut(text) ==
  \A i, k \in DOMAIN text :
    i < k /\ text[i].turns = text[k].turns /\ text[i].marked
      => Policy[text[k].scenario] # "skip"

(* What InOrder says of a text, said of its first n pieces, and of what    *)
(* was reported.                                                           *)
OrderedIn(told, n, text) ==
  \E at \in [1..n -> 0..Len(told)] :
    \A i \in 1..n : text[i].whole =>
      /\ at[i] # 0 /\ text[i] = told[at[i]]
      /\ \A k \in 1..(i - 1) : text[k].whole => at[k] < at[i]

(* What is about to be written: what was read, and a whole piece more.     *)
Ready(r) ==
  Extracting(r) =>
    /\ new_src[r] # <<>>
    /\ Last(new_src[r]).whole
    /\ KeptOut(new_src[r])
    /\ Parses(new_src[r])
    /\ OrderedIn(log, Len(new_src[r]) - 1, new_src[r])

OneOpen == \A q, r \in Run : pc[q] = "open" /\ pc[r] = "open" => q = r

(* As long as nothing went wrong there is one extraction at a time, and it *)
(* writes one regression more than were written.                           *)
Apart ==
  mishaps = {} =>
    /\ \A q, r \in Run : Extracting(q) /\ Extracting(r) => q = r
    /\ \A r \in Run :
         Extracting(r) => new_src[r] = Append(log, Last(new_src[r]))

LogWhole == \A i \in DOMAIN log : log[i].whole

TargetInv ==
  /\ TargetTypeOK
  /\ SkipKeepsOut
  /\ \A r \in Run : Ready(r)
  /\ OneOpen
  /\ LogWhole
  /\ Apart
  /\ WrittenInOrder
  /\ StaysParsable

-----------------------------------------------------------------------------
(* Texts                                                                   *)

(* A new regression is a piece with nothing missing.                       *)
LEMMA NewIsPiece ==
  ASSUME NEW s \in Scenario, NEW t \in Conversation
  PROVE  /\ New(s, t) \in Piece
         /\ New(s, t).scenario = s /\ New(s, t).turns = t
         /\ New(s, t).marked /\ New(s, t).parses /\ New(s, t).whole
BY DEF New, Piece

(* The pieces of a text are its first Len(text).                           *)
LEMMA InOrderIsToEnd ==
  ASSUME NEW text \in Seq(Piece)
  PROVE  InOrder(text) <=> OrderedIn(log, Len(text), text)
<1>1. DOMAIN text = 1..Len(text)
  OBVIOUS
<1> QED BY <1>1 DEF InOrder, OrderedIn

(* Fewer pieces, or less of them, are in order too.                        *)
LEMMA InOrderOfLess ==
  ASSUME NEW told, NEW text, NEW n \in Nat, OrderedIn(told, n, text),
         NEW m \in 0..n, NEW less,
         \A i \in 1..m : less[i].whole => text[i].whole /\ less[i] = text[i]
  PROVE  OrderedIn(told, m, less)
<1>1. PICK at \in [1..n -> 0..Len(told)] :
        \A i \in 1..n : text[i].whole =>
          /\ at[i] # 0 /\ text[i] = told[at[i]]
          /\ \A k \in 1..(i - 1) : text[k].whole => at[k] < at[i]
  BY DEF OrderedIn
<1> DEFINE of == [i \in 1..m |-> at[i]]
<1>2. \A i \in 1..m : i \in 1..n /\ of[i] = at[i]
  OBVIOUS
<1>3. of \in [1..m -> 0..Len(told)]
  BY <1>2
<1>4. ASSUME NEW i \in 1..m, less[i].whole
      PROVE  /\ of[i] # 0 /\ less[i] = told[of[i]]
             /\ \A k \in 1..(i - 1) : less[k].whole => of[k] < of[i]
  <2>1. text[i].whole /\ less[i] = text[i] /\ of[i] = at[i] /\ i \in 1..n
    BY <1>2, <1>4
  <2>2. at[i] # 0 /\ less[i] = told[at[i]]
    BY <1>1, <2>1
  <2>3. ASSUME NEW k \in 1..(i - 1), less[k].whole PROVE of[k] < of[i]
    <3>1. k \in 1..m
      OBVIOUS
    <3>2. text[k].whole /\ of[k] = at[k]
      BY <1>2, <2>3, <3>1
    <3> QED BY <1>1, <2>1, <2>3, <3>2
  <2> QED BY <2>1, <2>2, <2>3
<1> HIDE DEF of
<1> QED BY <1>3, <1>4 DEF OrderedIn

(* A piece with something missing may stand behind them.                   *)
LEMMA InOrderWithScrap ==
  ASSUME NEW told \in Seq(Piece),
         NEW text, NEW n \in Nat, OrderedIn(told, n, text), ~ text[n + 1].whole
  PROVE  OrderedIn(told, n + 1, text)
<1>1. PICK at \in [1..n -> 0..Len(told)] :
        \A i \in 1..n : text[i].whole =>
          /\ at[i] # 0 /\ text[i] = told[at[i]]
          /\ \A k \in 1..(i - 1) : text[k].whole => at[k] < at[i]
  BY DEF OrderedIn
<1> DEFINE of == [i \in 1..(n + 1) |-> IF i = n + 1 THEN 0 ELSE at[i]]
<1>2. \A i \in 1..(n + 1) : i # n + 1 => i \in 1..n /\ of[i] = at[i]
  OBVIOUS
<1>3. of \in [1..(n + 1) -> {0} \cup (0..Len(told))]
  <2> SUFFICES ASSUME NEW i \in 1..(n + 1)
               PROVE  (IF i = n + 1 THEN 0 ELSE at[i]) \in {0} \cup (0..Len(told))
    OBVIOUS
  <2> QED BY <1>2
<1>4. ASSUME NEW i \in 1..(n + 1), text[i].whole
      PROVE  /\ of[i] # 0 /\ text[i] = told[of[i]]
             /\ \A k \in 1..(i - 1) : text[k].whole => of[k] < of[i]
  <2>1. i \in 1..n /\ of[i] = at[i]
    BY <1>2, <1>4
  <2>2. \A k \in 1..(i - 1) : of[k] = at[k]
    BY <2>1, <1>2
  <2> HIDE DEF of
  <2> QED BY <1>1, <1>4, <2>1, <2>2
<1> HIDE DEF of
<1>5. {0} \cup (0..Len(told)) = 0..Len(told)
  OBVIOUS
<1> QED BY <1>3, <1>4, <1>5 DEF OrderedIn

(* What is in order stays so when more is reported.                        *)
LEMMA InOrderLater ==
  ASSUME NEW told \in Seq(Piece), NEW p \in Piece,
         NEW text, NEW n \in Nat, OrderedIn(told, n, text)
  PROVE  OrderedIn(Append(told, p), n, text)
<1>1. PICK at \in [1..n -> 0..Len(told)] :
        \A i \in 1..n : text[i].whole =>
          /\ at[i] # 0 /\ text[i] = told[at[i]]
          /\ \A k \in 1..(i - 1) : text[k].whole => at[k] < at[i]
  BY DEF OrderedIn
<1> DEFINE more == Append(told, p)
<1>2. Len(more) = Len(told) + 1 /\ \A j \in 1..Len(told) : more[j] = told[j]
  OBVIOUS
<1>3. at \in [1..n -> 0..Len(more)]
  BY <1>2
<1>4. \A i \in 1..n : text[i].whole => at[i] \in 1..Len(told)
  BY <1>1
<1> HIDE DEF more
<1>5. ASSUME NEW i \in 1..n, text[i].whole
      PROVE  /\ at[i] # 0 /\ text[i] = more[at[i]]
             /\ \A k \in 1..(i - 1) : text[k].whole => at[k] < at[i]
  BY <1>1, <1>2, <1>4, <1>5
<1>6. OrderedIn(more, n, text)
  BY <1>3, <1>5 DEF OrderedIn
<1> QED BY <1>6 DEF more

(* A piece that is reported now is in order behind them.                   *)
LEMMA InOrderReported ==
  ASSUME NEW told \in Seq(Piece), NEW text \in Seq(Piece), NEW n \in Nat,
         n + 1 \in DOMAIN text, OrderedIn(told, n, text)
  PROVE  OrderedIn(Append(told, text[n + 1]), n + 1, text)
<1>1. PICK at \in [1..n -> 0..Len(told)] :
        \A i \in 1..n : text[i].whole =>
          /\ at[i] # 0 /\ text[i] = told[at[i]]
          /\ \A k \in 1..(i - 1) : text[k].whole => at[k] < at[i]
  BY DEF OrderedIn
<1> DEFINE N == Len(told) + 1
           more == Append(told, text[n + 1])
           of == [i \in 1..(n + 1) |-> IF i = n + 1 THEN N ELSE at[i]]
<1>2. text[n + 1] \in Piece
  OBVIOUS
<1>3. /\ Len(more) = N /\ N \in Nat \ {0}
      /\ \A j \in 1..Len(told) : more[j] = told[j]
      /\ more[N] = text[n + 1]
  BY <1>2
<1>4. \A i \in 1..n : at[i] \in 0..Len(told) /\ at[i] < N
  OBVIOUS
<1>5. \A i \in 1..(n + 1) : i # n + 1 => i \in 1..n /\ of[i] = at[i]
  OBVIOUS
<1>6. of[n + 1] = N
  OBVIOUS
<1>7. of \in [1..(n + 1) -> 0..N]
  <2> SUFFICES ASSUME NEW i \in 1..(n + 1)
               PROVE  (IF i = n + 1 THEN N ELSE at[i]) \in 0..N
    OBVIOUS
  <2> QED BY <1>4
<1> HIDE DEF of, N, more
<1>8. ASSUME NEW i \in 1..(n + 1), text[i].whole
      PROVE  /\ of[i] # 0 /\ text[i] = more[of[i]]
             /\ \A k \in 1..(i - 1) : text[k].whole => of[k] < of[i]
  <2>1. CASE i = n + 1
    <3>1. \A k \in 1..(i - 1) : k \in 1..n /\ of[k] = at[k]
      BY <1>5, <2>1
    <3> QED BY <1>3, <1>4, <1>6, <2>1, <3>1
  <2>2. CASE i # n + 1
    <3>1. i \in 1..n /\ of[i] = at[i]
      BY <1>5, <2>2
    <3>2. \A k \in 1..(i - 1) : k \in 1..n /\ of[k] = at[k]
      BY <1>5, <3>1
    <3>3. at[i] \in 1..Len(told) /\ text[i] = told[at[i]]
      BY <1>1, <1>4, <1>8, <3>1
    <3> QED BY <1>1, <1>3, <1>8, <3>1, <3>2, <3>3
  <2> QED BY <2>1, <2>2
<1> QED BY <1>3, <1>7, <1>8 DEF OrderedIn, more

(* A scrap is a piece of the same regression, with no new comment.         *)
LEMMA ScrapsAreRests ==
  ASSUME NEW p \in Piece, NEW q \in Scraps(p)
  PROVE  /\ q \in Piece
         /\ q.scenario = p.scenario /\ q.turns = p.turns
         /\ q.marked => p.marked
BY DEF Scraps

(* Writing a part of a text adds nothing the text does not have.           *)
LEMMA BegunKeepsOut ==
  ASSUME NEW text \in Seq(Piece), KeptOut(text), NEW some \in Begun(text)
  PROVE  some \in Seq(Piece) /\ KeptOut(some)
<1>1. CASE some = <<>>
  BY <1>1 DEF KeptOut
<1>2. ASSUME NEW k \in DOMAIN text, NEW q \in Scraps(text[k]),
             some = Append(SubSeq(text, 1, k - 1), q)
      PROVE  some \in Seq(Piece) /\ KeptOut(some)
  <2>1. k \in 1..Len(text) /\ text[k] \in Piece
    OBVIOUS
  <2>2. /\ q \in Piece /\ q.scenario = text[k].scenario
        /\ q.turns = text[k].turns /\ (q.marked => text[k].marked)
    BY <2>1, ScrapsAreRests
  <2>3. /\ SubSeq(text, 1, k - 1) \in Seq(Piece)
        /\ Len(SubSeq(text, 1, k - 1)) = k - 1
        /\ \A i \in 1..(k - 1) : SubSeq(text, 1, k - 1)[i] = text[i]
    BY <2>1
  <2>4. /\ some \in Seq(Piece) /\ Len(some) = k
        /\ \A i \in 1..(k - 1) : some[i] = text[i]
        /\ some[k] = q
    BY <1>2, <2>1, <2>2, <2>3
  <2>5. ASSUME NEW i \in DOMAIN some, NEW j \in DOMAIN some, i < j,
               some[i].turns = some[j].turns, some[i].marked
        PROVE  Policy[some[j].scenario] # "skip"
    <3>1. /\ i \in 1..(k - 1) /\ j \in 1..k
          /\ i \in DOMAIN text /\ j \in DOMAIN text
          /\ some[i] = text[i]
      BY <2>1, <2>4, <2>5
    <3>2. some[j].turns = text[j].turns /\ some[j].scenario = text[j].scenario
      BY <2>2, <2>4, <3>1
    <3> QED BY <2>5, <3>1, <3>2 DEF KeptOut
  <2> QED BY <2>4, <2>5 DEF KeptOut
<1> QED BY <1>1, <1>2 DEF Begun

(* What a text begins with is in order if all of it but the last piece is. *)
LEMMA BegunInOrder ==
  ASSUME log \in Seq(Piece), NEW text \in Seq(Piece),
         text # <<>>, OrderedIn(log, Len(text) - 1, text), NEW some \in Begun(text)
  PROVE  InOrder(some)
<1>1. CASE some = <<>>
  <2>1. Len(text) - 1 \in Nat
    OBVIOUS
  <2>2. OrderedIn(log, 0, some)
    BY <2>1, InOrderOfLess
  <2>3. some \in Seq(Piece) /\ Len(some) = 0
    BY <1>1
  <2> QED BY <2>2, <2>3, InOrderIsToEnd
<1>2. ASSUME NEW k \in DOMAIN text, NEW q \in Scraps(text[k]),
             some = Append(SubSeq(text, 1, k - 1), q)
      PROVE  InOrder(some)
  <2>1. /\ k \in 1..Len(text) /\ k - 1 \in 0..(Len(text) - 1)
        /\ Len(text) - 1 \in Nat /\ k - 1 \in Nat
    OBVIOUS
  <2>2. q \in Piece /\ ~ q.whole
    BY DEF Scraps
  <2>3. /\ SubSeq(text, 1, k - 1) \in Seq(Piece)
        /\ Len(SubSeq(text, 1, k - 1)) = k - 1
        /\ \A i \in 1..(k - 1) : SubSeq(text, 1, k - 1)[i] = text[i]
    BY <2>1
  <2>4. /\ some \in Seq(Piece) /\ Len(some) = k
        /\ \A i \in 1..(k - 1) : some[i] = text[i]
        /\ some[k] = q
    BY <1>2, <2>1, <2>2, <2>3
  <2>5. OrderedIn(log, k - 1, some)
    BY <2>1, <2>4, InOrderOfLess
  <2>6. (k - 1) + 1 = k
    BY <2>1
  <2>7. OrderedIn(log, k, some)
    BY <2>1, <2>2, <2>4, <2>5, <2>6, InOrderWithScrap
  <2> QED BY <2>4, <2>7, InOrderIsToEnd
<1> QED BY <1>1, <1>2 DEF Begun

(* Splicing appends the piece, and changes at most whether the last one    *)
(* before it parses, where that one is not whole.                          *)
LEMMA SplicedAppends ==
  ASSUME NEW text \in Seq(Piece), NEW p \in Piece, NEW out \in Spliced(text, p)
  PROVE  /\ out \in Seq(Piece) /\ Len(out) = Len(text) + 1
         /\ out[Len(text) + 1] = p
         /\ \A i \in 1..Len(text) :
              /\ out[i].scenario = text[i].scenario
              /\ out[i].turns = text[i].turns
              /\ out[i].marked = text[i].marked
              /\ out[i].whole = text[i].whole
              /\ text[i].whole => out[i] = text[i]
<1>1. CASE out = Append(text, p)
  BY <1>1
<1>2. CASE /\ text # <<>> /\ ~ Last(text).whole
           /\ out = Append([text EXCEPT ![Len(text)].parses = TRUE], p)
  <2> DEFINE n == Len(text)
             mended == [text EXCEPT ![n].parses = TRUE]
  <2>1. n \in 1..n /\ text[n] \in Piece
    BY <1>2
  <2>2. [text[n] EXCEPT !.parses = TRUE] \in Piece
    BY <2>1 DEF Piece
  <2>3. mended \in Seq(Piece) /\ Len(mended) = n
    BY <2>1, <2>2
  <2>4. \A i \in 1..n : mended[i] = IF i = n THEN [text[n] EXCEPT !.parses = TRUE]
                                             ELSE text[i]
    BY <2>1
  <2>5. \A i \in 1..n : /\ mended[i].scenario = text[i].scenario
                        /\ mended[i].turns = text[i].turns
                        /\ mended[i].marked = text[i].marked
                        /\ mended[i].whole = text[i].whole
                        /\ text[i].whole => mended[i] = text[i]
    BY <1>2, <2>1, <2>4 DEF Piece, Last
  <2>6. out = Append(mended, p)
    BY <1>2
  <2> HIDE DEF mended
  <2> QED BY <2>3, <2>5, <2>6
<1> QED BY <1>1, <1>2 DEF Spliced

(* Nothing is mended where nothing is missing.                             *)
LEMMA SplicedToWhole ==
  ASSUME NEW text \in Seq(Piece), NEW p \in Piece, NEW out \in Spliced(text, p),
         \A i \in DOMAIN text : text[i].whole
  PROVE  out = Append(text, p)
<1>1. text # <<>> => Last(text).whole
  BY DEF Last
<1> QED BY <1>1 DEF Spliced

(* A scenario that skips duplicates and was not told of one adds none.     *)
LEMMA SplicedKeepsOut ==
  ASSUME NEW text \in Seq(Piece), KeptOut(text),
         NEW s \in Scenario, NEW t \in Conversation,
         ~ (Policy[s] = "skip" /\ HasFingerprint(text, t)),
         NEW out \in Spliced(text, New(s, t))
  PROVE  KeptOut(out)
<1> DEFINE n == Len(text)
<1>1. /\ out \in Seq(Piece) /\ Len(out) = n + 1
      /\ out[n + 1] = New(s, t)
      /\ \A i \in 1..n : /\ out[i].scenario = text[i].scenario
                         /\ out[i].turns = text[i].turns
                         /\ out[i].marked = text[i].marked
  BY SplicedAppends, NewIsPiece
<1>2. SUFFICES ASSUME NEW i \in DOMAIN out, NEW k \in DOMAIN out, i < k,
                      out[i].turns = out[k].turns, out[i].marked
               PROVE  Policy[out[k].scenario] # "skip"
  BY DEF KeptOut
<1>3. i \in 1..n /\ i \in DOMAIN text /\ k \in 1..(n + 1)
  BY <1>1, <1>2
<1>4. CASE k = n + 1
  BY <1>1, <1>2, <1>3, <1>4, NewIsPiece DEF HasFingerprint
<1>5. CASE k # n + 1
  <2>1. k \in 1..n /\ k \in DOMAIN text
    BY <1>3, <1>5
  <2> QED BY <1>1, <1>2, <1>3, <2>1 DEF KeptOut
<1> QED BY <1>4, <1>5

-----------------------------------------------------------------------------
(* The invariant                                                           *)

LEMMA InitTarget == TargetInit => TargetInv
<1> SUFFICES ASSUME TargetInit PROVE TargetInv
  OBVIOUS
<1>1. TargetTypeOK
  BY DEF TargetInit, TargetTypeOK
<1>2. SkipKeepsOut /\ LogWhole /\ StaysParsable
  BY DEF TargetInit, SkipKeepsOut, LogWhole, StaysParsable, Parses
<1>4. WrittenInOrder
  <2>1. InOrder(<<>>)
    <3> DEFINE at == [i \in {} |-> 0]
    <3>1. DOMAIN << >> = {} /\ at \in [{} -> 0..Len(log)]
      OBVIOUS
    <3> QED BY <3>1 DEF InOrder
  <2> QED BY <2>1 DEF TargetInit, WrittenInOrder
<1>3. (\A r \in Run : Ready(r)) /\ OneOpen /\ Apart
  BY DEF TargetInit, Ready, OneOpen, Apart, Extracting
<1> QED BY <1>1, <1>2, <1>3, <1>4 DEF TargetInv

(* What a run is about to write is ready as long as nothing is reported.   *)
LEMMA ReadyStays ==
  ASSUME NEW r \in Run, Ready(r), log' = log,
         Extracting(r)' => Extracting(r) /\ new_src'[r] = new_src[r]
  PROVE  Ready(r)'
<1> SUFFICES ASSUME Extracting(r)' PROVE Ready(r)'
  BY DEF Ready
<1>1. /\ new_src'[r] = new_src[r] /\ new_src[r] # <<>>
      /\ Last(new_src[r]).whole /\ KeptOut(new_src[r]) /\ Parses(new_src[r])
      /\ OrderedIn(log, Len(new_src[r]) - 1, new_src[r])
  BY DEF Ready
<1>2. OrderedIn(log, Len(new_src[r]) - 1, new_src[r])'
  BY <1>1 DEF OrderedIn
<1> QED BY <1>1, <1>2 DEF Ready, KeptOut, Parses

(* A run that leaves the file and the log alone and does not extract when  *)
(* it is done.                                                             *)
LEMMA IdleStep ==
  ASSUME TargetInv, NEW r \in Run, NEW there \in {"off", "crashed", "on"},
         pc' = [pc EXCEPT ![r] = there],
         new_src' = [new_src EXCEPT ![r] = <<>>] \/ new_src' = new_src,
         report' \in {"none", "written", "skipped_duplicate", "errored"},
         UNCHANGED <<file, log>>,
         mishaps' \in SUBSET Mishap, mishaps \subseteq mishaps',
         pc[r] = "open" => "cut" \in mishaps'
  PROVE  TargetInv'
<1> USE DEF TargetInv
<1>0. <<>> \in Seq(Piece)
  OBVIOUS
<1>1. TargetTypeOK'
  BY <1>0 DEF TargetTypeOK
<1>2. \A q \in Run : pc'[q] = IF q = r THEN there ELSE pc[q]
  BY DEF TargetTypeOK
<1>3. \A q \in Run : Extracting(q)' => Extracting(q) /\ q # r
  BY <1>2 DEF Extracting
<1>4. \A q \in Run : q # r => new_src'[q] = new_src[q]
  BY DEF TargetTypeOK
<1>5. SkipKeepsOut' /\ LogWhole'
  BY DEF SkipKeepsOut, LogWhole
<1>6. \A q \in Run : Ready(q)'
  BY <1>3, <1>4, ReadyStays
<1>7. OneOpen'
  BY <1>2 DEF OneOpen
<1>8. mishaps' = {} => mishaps = {}
  OBVIOUS
<1>9. Apart'
  BY <1>3, <1>4, <1>8 DEF Apart
<1>10. WrittenInOrder'
  <2>1. InOrder(file)'
    BY DEF WrittenInOrder, InOrder
  <2>2. Closed' /\ "cut" \notin mishaps' => Closed
    BY <1>2 DEF Closed
  <2>3. "cut" \notin mishaps' => "cut" \notin mishaps
    OBVIOUS
  <2> QED BY <1>8, <2>1, <2>2, <2>3 DEF WrittenInOrder
<1>11. StaysParsable'
  <2> SUFFICES ASSUME mishaps' \subseteq {"overlap"}, \A q \in Run : pc'[q] # "open"
               PROVE  Parses(file)
    BY DEF StaysParsable, Parses, Closed
  <2>1. pc[r] # "open"
    OBVIOUS
  <2>2. \A q \in Run : pc[q] # "open"
    BY <1>2, <2>1
  <2> QED BY <2>2 DEF StaysParsable, Closed
<1> QED BY <1>1, <1>5, <1>6, <1>7, <1>9, <1>10, <1>11

LEMMA BuildStep ==
  ASSUME TargetInv, NEW r \in Run, Build(r)
  PROVE  TargetInv'
<1> USE DEF TargetInv
<1>1. PICK s \in Scenario, t \in Conversation :
        /\ ~ (Policy[s] = "skip" /\ HasFingerprint(file, t))
        /\ \E text \in Spliced(file, New(s, t)) :
             Parses(text) /\ new_src' = [new_src EXCEPT ![r] = text]
  BY DEF Build
<1>2. PICK text \in Spliced(file, New(s, t)) :
        Parses(text) /\ new_src' = [new_src EXCEPT ![r] = text]
  BY <1>1
<1>3. /\ pc[r] = "on" /\ pc' = [pc EXCEPT ![r] = "built"]
      /\ mishaps' = IF \E q \in Run \ {r} : Extracting(q)
                    THEN mishaps \cup {"overlap"} ELSE mishaps
      /\ UNCHANGED <<file, report, log>>
  BY DEF Build
<1>4. file \in Seq(Piece) /\ New(s, t) \in Piece /\ New(s, t).whole
  BY NewIsPiece DEF TargetTypeOK
<1>5. /\ text \in Seq(Piece) /\ Len(text) = Len(file) + 1
      /\ text[Len(file) + 1] = New(s, t)
  BY <1>4, SplicedAppends
<1>6. text # <<>> /\ Last(text) = New(s, t)
  BY <1>4, <1>5 DEF Last
<1>7. KeptOut(file)
  BY DEF SkipKeepsOut, KeptOut
<1>8. KeptOut(text)
  BY <1>1, <1>4, <1>7, SplicedKeepsOut
<1>9. \A q \in Run : /\ pc'[q] = IF q = r THEN "built" ELSE pc[q]
                     /\ new_src'[q] = IF q = r THEN text ELSE new_src[q]
  BY <1>2, <1>3 DEF TargetTypeOK
<1>10. mishaps \subseteq mishaps' /\ mishaps' \subseteq Mishap
  BY <1>3 DEF TargetTypeOK, Mishap
<1>11. TargetTypeOK'
  BY <1>2, <1>3, <1>5, <1>10 DEF TargetTypeOK
<1>12. SkipKeepsOut' /\ LogWhole'
  BY <1>3 DEF SkipKeepsOut, LogWhole
<1>13. \A q \in Run : Ready(q)'
  <2>1. OrderedIn(log, Len(text) - 1, text)
    <3>1. OrderedIn(log, Len(file), file)
      BY <1>4, InOrderIsToEnd DEF WrittenInOrder
    <3>2. \A i \in 1..Len(file) :
            text[i].whole => file[i].whole /\ text[i] = file[i]
      BY <1>4, SplicedAppends
    <3>3. Len(text) - 1 = Len(file) /\ Len(file) \in 0..Len(file)
      BY <1>4, <1>5
    <3> QED BY <3>1, <3>2, <3>3, InOrderOfLess
  <2>2. \A q \in Run : Extracting(q)' => q = r \/ Extracting(q)
    BY <1>9 DEF Extracting
  <2>3. \A q \in Run : q # r => Ready(q)'
    BY <1>3, <1>9, <2>2, ReadyStays
  <2>4. OrderedIn(log, Len(text) - 1, text)'
    BY <1>3, <2>1 DEF OrderedIn
  <2>5. Ready(r)'
    BY <1>2, <1>4, <1>6, <1>8, <1>9, <2>4 DEF Ready, Parses, KeptOut
  <2> QED BY <2>3, <2>5
<1>14. OneOpen'
  BY <1>9 DEF OneOpen
<1>15. WrittenInOrder' /\ StaysParsable'
  <2>1. Closed' => Closed
    BY <1>3, <1>9 DEF Closed
  <2>2. InOrder(file)'
    BY <1>3 DEF WrittenInOrder, InOrder
  <2> QED BY <1>3, <1>10, <2>1, <2>2 DEF WrittenInOrder, StaysParsable, Parses
<1>16. Apart'
  <2> SUFFICES ASSUME mishaps' = {}
               PROVE  /\ \A q, p \in Run : Extracting(q)' /\ Extracting(p)' => q = p
                      /\ \A q \in Run : Extracting(q)' =>
                           new_src'[q] = Append(log, Last(new_src'[q]))
    BY <1>3 DEF Apart
  <2>1. mishaps = {} /\ \A q \in Run : Extracting(q) => q = r
    BY <1>3
  <2>2. \A q \in Run : Extracting(q)' => q = r
    BY <1>9, <2>1 DEF Extracting
  <2>3. \A q \in Run : pc[q] # "open"
    BY <1>3, <2>1 DEF Extracting
  <2>4. file = log
    BY <2>1, <2>3 DEF WrittenInOrder, Closed
  <2>5. text = Append(file, New(s, t))
    BY <1>4, <2>4, SplicedToWhole DEF LogWhole
  <2> QED BY <1>6, <1>9, <2>2, <2>4, <2>5
<1> QED BY <1>11, <1>12, <1>13, <1>14, <1>15, <1>16

(* What run r, which has the file open, leaves in it.                      *)
LEMMA PutStep ==
  ASSUME TargetInv, NEW r \in Run, Open(r) \/ Flush(r)
  PROVE  TargetInv'
<1> USE DEF TargetInv
<1>1. Extracting(r) /\ (\A q \in Run : pc[q] = "open" => q = r)
  BY DEF Open, Flush, Extracting, OneOpen
<1>2. pc' = [pc EXCEPT ![r] = "open"] /\ UNCHANGED <<new_src, report, log, mishaps>>
  BY DEF Open, Flush, TargetTypeOK
<1>3. \A q \in Run : pc'[q] = IF q = r THEN "open" ELSE pc[q]
  BY <1>2 DEF TargetTypeOK
<1>4. new_src[r] \in Seq(Piece) /\ KeptOut(new_src[r])
  BY <1>1 DEF TargetTypeOK, Ready
<1>5. file' \in Begun(new_src[r])
  BY DEF Open, Flush, Begun
<1>6. file' \in Seq(Piece) /\ KeptOut(file')
  BY <1>4, <1>5, BegunKeepsOut
<1>7. TargetTypeOK'
  BY <1>2, <1>6 DEF TargetTypeOK
<1>8. SkipKeepsOut'
  BY <1>6 DEF SkipKeepsOut, KeptOut
<1>9. \A q \in Run : Extracting(q)' <=> Extracting(q)
  BY <1>1, <1>3 DEF Extracting
<1>10. (\A q \in Run : Ready(q)') /\ LogWhole' /\ Apart'
  BY <1>2, <1>9, ReadyStays DEF LogWhole, Apart
<1>11. OneOpen' /\ ~ Closed'
  BY <1>1, <1>3 DEF OneOpen, Closed
<1>12. InOrder(file)'
  <2>1. new_src[r] # <<>> /\ OrderedIn(log, Len(new_src[r]) - 1, new_src[r])
    BY <1>1 DEF Ready
  <2>2. log \in Seq(Piece) /\ log' = log
    BY <1>2 DEF TargetTypeOK
  <2>3. InOrder(file')
    BY <1>4, <1>5, <2>1, <2>2, BegunInOrder
  <2> QED BY <2>2, <2>3 DEF InOrder
<1>13. WrittenInOrder' /\ StaysParsable'
  BY <1>11, <1>12 DEF WrittenInOrder, StaysParsable
<1> QED BY <1>7, <1>8, <1>10, <1>11, <1>13

LEMMA WriteStep ==
  ASSUME TargetInv, NEW r \in Run, Write(r)
  PROVE  TargetInv'
<1> USE DEF TargetInv
<1>1. /\ pc[r] = "open" /\ file' = new_src[r]
      /\ log' = Append(log, Last(new_src[r]))
      /\ pc' = [pc EXCEPT ![r] = "on"]
      /\ new_src' = [new_src EXCEPT ![r] = <<>>]
      /\ report' = "written" /\ mishaps' = mishaps
  BY DEF Write, Finish, Idle
<1>2. /\ new_src[r] \in Seq(Piece) /\ new_src[r] # <<>>
      /\ Last(new_src[r]).whole /\ KeptOut(new_src[r]) /\ Parses(new_src[r])
  BY <1>1 DEF TargetTypeOK, Ready, Extracting
<1>3. Last(new_src[r]) \in Piece
  BY <1>2 DEF Last
<1>4. \A q \in Run : /\ pc'[q] = IF q = r THEN "on" ELSE pc[q]
                     /\ new_src'[q] = IF q = r THEN <<>> ELSE new_src[q]
  BY <1>1 DEF TargetTypeOK
<1>5. log' \in Seq(Piece) /\ LogWhole'
  BY <1>1, <1>2, <1>3 DEF TargetTypeOK, LogWhole
<1>6. TargetTypeOK'
  <2>1. <<>> \in Seq(Piece)
    OBVIOUS
  <2> QED BY <1>1, <1>2, <1>5, <2>1 DEF TargetTypeOK
<1>7. SkipKeepsOut' /\ StaysParsable'
  BY <1>1, <1>2 DEF SkipKeepsOut, KeptOut, StaysParsable, Parses
<1>8. \A q \in Run : Extracting(q)' => Extracting(q) /\ q # r
  BY <1>4 DEF Extracting
<1>9. (\A q \in Run : Ready(q)') /\ OneOpen'
  <2>1. OneOpen'
    BY <1>4 DEF OneOpen
  <2>2. ASSUME NEW q \in Run, Extracting(q)' PROVE Ready(q)'
    <3>1. Extracting(q) /\ q # r /\ new_src'[q] = new_src[q]
      BY <1>4, <1>8, <2>2
    <3>2. /\ new_src[q] # <<>> /\ Last(new_src[q]).whole
          /\ KeptOut(new_src[q]) /\ Parses(new_src[q])
          /\ OrderedIn(log, Len(new_src[q]) - 1, new_src[q])
          /\ new_src[q] \in Seq(Piece)
      BY <3>1 DEF Ready, TargetTypeOK
    <3>3. Len(new_src[q]) - 1 \in Nat /\ log \in Seq(Piece)
      BY <3>2 DEF TargetTypeOK
    <3>4. OrderedIn(log', Len(new_src[q]) - 1, new_src[q])
      BY <1>1, <1>3, <3>2, <3>3, InOrderLater
    <3>5. OrderedIn(log, Len(new_src[q]) - 1, new_src[q])'
      BY <3>1, <3>4 DEF OrderedIn
    <3> QED BY <3>1, <3>2, <3>5 DEF Ready, KeptOut, Parses
  <2> QED BY <2>1, <2>2 DEF Ready
<1>11. WrittenInOrder'
  <2> DEFINE n == Len(new_src[r]) - 1
  <2>1. /\ n \in Nat /\ n + 1 = Len(new_src[r]) /\ n + 1 \in DOMAIN new_src[r]
        /\ Last(new_src[r]) = new_src[r][n + 1] /\ log \in Seq(Piece)
    BY <1>2 DEF Last, TargetTypeOK
  <2>2. OrderedIn(log, n, new_src[r])
    BY <1>1 DEF Ready, Extracting
  <2> HIDE DEF n
  <2>3. OrderedIn(log', n + 1, file')
    BY <1>1, <1>2, <2>1, <2>2, InOrderReported
  <2>4. InOrder(file)'
    <3>1. DOMAIN file' = 1..(n + 1)
      BY <1>1, <1>2, <2>1
    <3> QED BY <2>3, <3>1 DEF InOrder, OrderedIn
  <2>5. file' # <<>> /\ Last(file') = Last(log')
    BY <1>1, <1>2, <1>3, <2>1 DEF Last
  <2>6. mishaps = {} => file' = log'
    BY <1>1 DEF Apart, Extracting
  <2> QED BY <1>1, <2>4, <2>5, <2>6 DEF WrittenInOrder
<1>10. Apart'
  <2> SUFFICES ASSUME mishaps = {}
               PROVE  \A q \in Run : ~ Extracting(q)'
    BY <1>1 DEF Apart
  <2>1. Extracting(r) /\ \A q \in Run : Extracting(q) => q = r
    BY <1>1 DEF Apart, Extracting
  <2> QED BY <1>8, <2>1
<1> QED BY <1>5, <1>6, <1>7, <1>9, <1>10, <1>11

LEMMA NextTarget == TargetInv /\ [TargetNext]_targetVars => TargetInv'
<1> SUFFICES ASSUME TargetInv, [TargetNext]_targetVars PROVE TargetInv'
  OBVIOUS
<1>1. CASE UNCHANGED targetVars
  <2>1. UNCHANGED <<file, pc, new_src, report, log, mishaps>>
    BY <1>1 DEF targetVars
  <2>2. \A r \in Run : Ready(r)'
    BY <2>1, ReadyStays DEF TargetInv, Extracting
  <2>3. WrittenInOrder'
    BY <2>1 DEF TargetInv, WrittenInOrder, InOrder, Closed
  <2> QED BY <2>1, <2>2, <2>3 DEF TargetInv, TargetTypeOK, SkipKeepsOut, OneOpen,
        LogWhole, Apart, StaysParsable, Extracting, Parses, Closed
<1>2. ASSUME NEW r \in Run, Start(r) PROVE TargetInv'
  <2> DEFINE there == IF Importable(file) THEN "on" ELSE "crashed"
  <2>1. there \in {"off", "crashed", "on"}
    OBVIOUS
  <2>2. /\ pc' = [pc EXCEPT ![r] = there] /\ new_src' = new_src
        /\ pc[r] # "open" /\ UNCHANGED <<file, report, log, mishaps>>
    BY <1>2 DEF Start
  <2>3. mishaps \in SUBSET Mishap
        /\ report \in {"none", "written", "skipped_duplicate", "errored"}
    BY DEF TargetInv, TargetTypeOK
  <2> HIDE DEF there
  <2> QED BY <2>1, <2>2, <2>3, IdleStep
<1>3. ASSUME NEW r \in Run,
             \/ Exit(r) \/ SkipDuplicate(r) \/ Refuse(r)
             \/ OpenFails(r) \/ WriteFails(r) \/ Kill(r)
      PROVE  TargetInv'
  <2>1. PICK there \in {"off", "on"} : pc' = [pc EXCEPT ![r] = there]
    BY <1>3 DEF Exit, SkipDuplicate, Refuse, OpenFails, WriteFails, Kill, Finish, Idle
  <2>2. /\ new_src' = [new_src EXCEPT ![r] = <<>>]
        /\ UNCHANGED <<file, log>>
    BY <1>3 DEF Exit, SkipDuplicate, Refuse, OpenFails, WriteFails, Kill, Finish, Idle
  <2>3. report' \in {"none", "written", "skipped_duplicate", "errored"}
    BY <1>3 DEF Exit, SkipDuplicate, Refuse, OpenFails, WriteFails, Kill, Finish,
        TargetInv, TargetTypeOK
  <2>4. mishaps' \in SUBSET Mishap /\ mishaps \subseteq mishaps'
    BY <1>3 DEF Exit, SkipDuplicate, Refuse, OpenFails, WriteFails, Kill,
        TargetInv, TargetTypeOK, Mishap
  <2>5. pc[r] = "open" => "cut" \in mishaps'
    BY <1>3 DEF Exit, SkipDuplicate, Refuse, OpenFails, WriteFails, Kill
  <2> QED BY <2>1, <2>2, <2>3, <2>4, <2>5, IdleStep
<1> QED BY <1>1, <1>2, <1>3, BuildStep, PutStep, WriteStep DEF TargetNext

LEMMA AlwaysTarget == TargetSpec => []TargetInv
BY InitTarget, NextTarget, PTL DEF TargetSpec

-----------------------------------------------------------------------------
(* The theorems                                                            *)

(* Texts are texts, and a run is in one place of an extraction.            *)
THEOREM TargetTypeCorrect == TargetSpec => []TargetTypeOK
<1>1. TargetInv => TargetTypeOK
  BY DEF TargetInv
<1> QED BY <1>1, AlwaysTarget, PTL

(* However extractions overlap or are cut short, what stands whole in the  *)
(* file was reported as written, in that order; the last one reported is   *)
(* at its end unless a write was cut; nothing is lost if nothing overlaps. *)
THEOREM WrittenInOrderHolds == TargetSpec => []WrittenInOrder
<1>1. TargetInv => WrittenInOrder
  BY DEF TargetInv
<1> QED BY <1>1, AlwaysTarget, PTL

(* However runs overlap or are cut short, a scenario with the policy skip  *)
(* never adds turns the file has.                                          *)
THEOREM SkipKeepsOutHolds == TargetSpec => []SkipKeepsOut
<1>1. TargetInv => SkipKeepsOut
  BY DEF TargetInv
<1> QED BY <1>1, AlwaysTarget, PTL

(* What runs that overlap and are not cut short leave in the file parses.  *)
THEOREM StaysParsableHolds == TargetSpec => []StaysParsable
<1>1. TargetInv => StaysParsable
  BY DEF TargetInv
<1> QED BY <1>1, AlwaysTarget, PTL

=============================================================================
