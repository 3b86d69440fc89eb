------------------------- MODULE ScenarioStepsProofs -------------------------
(***************************************************************************)
(* What holds of ScenarioSteps for every set of steps, every length of a   *)
(* segment, every cast and every bound.                                    *)
(***************************************************************************)
EXTENDS ScenarioSteps, SequenceTheorems, TLAPS

-----------------------------------------------------------------------------
(* The inductive invariant.                                                *)

(* The step under way is of the kind the awaited reply belongs to.         *)
AwaitInv ==
  /\ executed <= Len(steps)
  /\ pc = "reply" => executed < Len(steps) /\ Current.kind = "user_message"
  /\ pc = "segment" => executed < Len(steps) /\ Current.kind = "simulate"

(* Turns belong to steps that were begun and that talk, in their order.    *)
StepInv ==
  \A k \in 1..Len(turns) :
    /\ turns[k].step <= Len(steps)
    /\ turns[k].step <= executed + 1
    /\ steps[turns[k].step].kind \in {"user_message", "simulate"}
    /\ \A j \in 1..(k - 1) : turns[j].step <= turns[k].step

(* Who speaks next answers the last turn that did not raise; nothing       *)
(* follows that turn but ones that did and what their messages left.       *)
FloorInv ==
  IF nextActor = NoActor
  THEN /\ nextInput = 0
       /\ pc = "segment" => turns = <<>> /\ Current.seed \in cast
  ELSE /\ nextInput \in 1..Len(turns)
       /\ ~Broken(turns[nextInput])
       /\ nextActor = Other(turns[nextInput].actor)
       /\ \A j \in (nextInput + 1)..Len(turns) :
            \/ Broken(turns[j])
            \/ turns[j].step = executed + 1 /\ ~IsSimulated(j)

(* What a segment has said so far gave it no reason to stop.               *)
SegmentInv ==
  pc = "segment" =>
    /\ Len(turns) = segFrom + inSegment
    /\ inSegment < Current.max_turns
    /\ \A j \in (segFrom + 1)..Len(turns) : ~StopDue(turns[j])

(* The agent is asked right after the message was written down.            *)
MessageInv ==
  pc = "reply" /\ Target = "agent" =>
    /\ turns # <<>>
    /\ turns[Len(turns)].actor = "user"
    /\ turns[Len(turns)].step = executed + 1

(* A turn of the user at the end is a simulated one or an open message.    *)
LastTurnInv ==
  "agent" \in cast /\ turns # <<>> =>
    \/ turns[Len(turns)].actor = "agent"
    \/ IsSimulated(Len(turns))
    \/ turns[Len(turns)].step = executed + 1

(* The steps that ran to their end are those before the counter.           *)
ProgressInv ==
  /\ passedSteps = 1..executed
  /\ outcome = "passed" => pc = "over" /\ executed = Len(steps)
  /\ pc = "over" => outcome # "none"

Inv ==
  /\ TypeOK
  /\ AwaitInv
  /\ StepInv
  /\ FloorInv
  /\ SegmentInv
  /\ MessageInv
  /\ LastTurnInv
  /\ ProgressInv

-----------------------------------------------------------------------------
(* Facts about steps, turns and the transcript.                            *)

(* What the fields of a step may be.                                       *)
LEMMA StepFacts ==
  ASSUME NEW s \in StepSet
  PROVE  /\ s.kind \in {"user_message", "fuzz", "callable", "simulate", "check"}
         /\ s.kind = "simulate" =>
              s.max_turns \in Nat \ {0} /\ s.seed \in Actor \cup {NoActor}
BY StepsAssumption
   DEF IsStep, UserMessage, FuzzConversation, Callable, Simulate, Check

(* The other actor takes part too.                                         *)
LEMMA OtherFacts ==
  ASSUME NEW a \in cast, cast \in Casts
  PROVE  Other(a) \in cast /\ (cast = Actor => Other(a) # a)
<1>1. CASE cast = Actor
  <2>1. \E b \in Actor : b # a
    BY DEF Actor
  <2> QED BY <1>1, <2>1 DEF Other
<1>2. CASE cast # Actor
  BY <1>2 DEF Other
<1> QED BY <1>1, <1>2

(* The bounds are natural numbers.                                         *)
LEMMA BoundFacts == MaxSteps \in Nat /\ MaxCalls \in Nat /\ MaxTurns \in Nat
BY StepsAssumption

(* Those who take part are actors, and somebody does.                      *)
LEMMA CastFacts ==
  ASSUME cast \in Casts
  PROVE  cast \subseteq Actor /\ Target \in cast /\ NoActor \notin cast
BY StepsAssumption DEF Actor, Target, NoActor

(* A longer transcript holds the same turns before the new one.            *)
LEMMA AppendTurn ==
  ASSUME turns \in Seq(Turn), NEW t \in Turn, turns' = Append(turns, t)
  PROVE  /\ turns' \in Seq(Turn)
         /\ Len(turns) \in Nat
         /\ Len(turns') = Len(turns) + 1
         /\ turns' # <<>>
         /\ turns'[Len(turns) + 1] = t
         /\ \A k \in 1..Len(turns) : turns'[k] = turns[k] /\ turns[k] \in Turn
BY AppendProperties, LenProperties, ElementOfSeq

(* Whether a turn was simulated does not change when steps are queued.     *)
LEMMA QueueFacts ==
  ASSUME steps \in Seq(StepSet), NEW s \in StepSet, steps' = Append(steps, s)
  PROVE  /\ steps' \in Seq(StepSet)
         /\ Len(steps) \in Nat
         /\ Len(steps') = Len(steps) + 1
         /\ \A i \in 1..Len(steps) : steps'[i] = steps[i]
BY AppendProperties, LenProperties

(* In a state of the invariant the step under way is a step.               *)
LEMMA CurrentFacts ==
  ASSUME TypeOK, executed < Len(steps)
  PROVE  Current \in StepSet /\ executed + 1 \in 1..Len(steps)
<1>1. Len(steps) \in Nat /\ executed + 1 \in 1..Len(steps)
  BY LenProperties DEF TypeOK
<1> QED BY <1>1, ElementOfSeq DEF TypeOK, Current

-----------------------------------------------------------------------------
(* The invariant holds at the start and is preserved.                      *)

LEMMA InitInv == Init => Inv
<1> SUFFICES ASSUME Init PROVE Inv
  OBVIOUS
<1>1. Len(turns) = 0 /\ turns \in Seq(Turn) /\ Len(steps) = 0 /\ steps \in Seq(StepSet)
  BY EmptySeq DEF Init
<1>2. TypeOK
  <2>1. subjects \subseteq [step : 1..Len(steps), seen : SUBSET (1..Len(turns))]
    BY DEF Init
  <2>2. 0 \in 0..MaxCalls
    BY BoundFacts
  <2>3. nextActor \in cast \cup {NoActor} /\ executed = 0 /\ cast \in Casts
    BY DEF Init
  <2>4. passedSteps \subseteq 1..Len(steps)
    BY DEF Init
  <2>5. nextInput \in 0..Len(turns) /\ executed \in 0..Len(steps) /\ segFrom \in 0..Len(turns)
    BY <1>1 DEF Init
  <2> QED BY <1>1, <2>1, <2>2, <2>3, <2>4, <2>5 DEF TypeOK, Init
<1>3. AwaitInv /\ StepInv /\ SegmentInv /\ MessageInv /\ ProgressInv
  BY <1>1 DEF Init, AwaitInv, StepInv, SegmentInv, MessageInv, ProgressInv
<1>4. FloorInv /\ LastTurnInv
  BY <1>1 DEF Init, FloorInv, LastTurnInv
<1> QED BY <1>2, <1>3, <1>4 DEF Inv

(* Steps that leave the transcript, the floor and the counter alone and    *)
(* await nobody.                                                           *)
LEMMA QuietInv ==
  ASSUME Inv,
         UNCHANGED <<cast, steps, executed, turns, nextActor, nextInput, passedSteps>>,
         pc' \in {"body", "loop", "over"}
  PROVE  /\ AwaitInv' /\ StepInv' /\ FloorInv' /\ SegmentInv' /\ MessageInv'
         /\ LastTurnInv'
         /\ passedSteps' = 1..executed'
<1>1. AwaitInv' /\ StepInv' /\ SegmentInv' /\ MessageInv'
  BY DEF Inv, AwaitInv, StepInv, SegmentInv, MessageInv
<1>2. FloorInv'
  BY DEF Inv, FloorInv, Other, Broken, IsSimulated
<1>3. LastTurnInv'
  BY DEF Inv, LastTurnInv, IsSimulated
<1> QED BY <1>1, <1>2, <1>3 DEF Inv, ProgressInv

LEMMA QueueInv ==
  ASSUME Inv, NEW s \in StepSet, Queue(s)
  PROVE  Inv'
<1>1. /\ steps' \in Seq(StepSet)
      /\ Len(steps) \in Nat
      /\ Len(steps') = Len(steps) + 1
      /\ \A i \in 1..Len(steps) : steps'[i] = steps[i]
  BY QueueFacts DEF Inv, TypeOK, Queue
<1>2. \A k \in 1..Len(turns) : turns[k].step \in 1..Len(steps)
  <2> TAKE k \in 1..Len(turns)
  <2>1. turns[k] \in Turn
    BY ElementOfSeq DEF Inv, TypeOK
  <2>2. turns[k].step \in Nat \ {0} /\ turns[k].step <= Len(steps)
    BY <2>1 DEF Turn, Inv, StepInv
  <2> QED BY <1>1, <2>2
<1>3. \A k \in 1..Len(turns) : IsSimulated(k)' <=> IsSimulated(k)
  BY <1>1, <1>2 DEF IsSimulated, Queue, talk
<1>4. TypeOK'
  BY <1>1 DEF Inv, TypeOK, Queue, control, talk, segment, history
<1>5. AwaitInv' /\ SegmentInv' /\ MessageInv'
  BY <1>1 DEF Inv, TypeOK, Queue, control, talk, segment, AwaitInv, SegmentInv, MessageInv
<1>6. StepInv'
  BY <1>1, <1>2 DEF Inv, TypeOK, Queue, talk, StepInv
<1>7. FloorInv'
  BY <1>3 DEF Inv, TypeOK, Queue, control, talk, FloorInv, Other, Broken
<1>8. LastTurnInv'
  <2>1. turns # <<>> => Len(turns) \in 1..Len(turns)
    BY EmptySeq, LenProperties DEF Inv, TypeOK
  <2> QED BY <1>3, <2>1 DEF Inv, Queue, talk, LastTurnInv
<1>9. ProgressInv'
  BY DEF Inv, Queue, control, history, ProgressInv
<1> QED BY <1>4, <1>5, <1>6, <1>7, <1>8, <1>9 DEF Inv

LEMMA BodyInv ==
  ASSUME Inv, Materialise \/ BodyReturns \/ BodyRaises \/ MaterialiseReturns
  PROVE  Inv'
<1>1. TypeOK'
  <2>1. UNCHANGED <<cast, steps, executed, turns, started, nextActor, nextInput,
                    inSegment, segFrom, passedSteps, subjects>>
    BY DEF Materialise, BodyReturns, BodyRaises, MaterialiseReturns, talk, segment, history
  <2>2. calls' \in 0..MaxCalls
    BY BoundFacts DEF Inv, TypeOK, Materialise, BodyReturns, BodyRaises, MaterialiseReturns
  <2>3. /\ pc' \in {"body", "loop", "reply", "segment", "over"}
        /\ runner' \in BOOLEAN
        /\ outcome' \in {"none", "passed", "raised"}
    BY DEF Inv, TypeOK, Materialise, BodyReturns, BodyRaises, MaterialiseReturns
  <2> QED BY <2>1, <2>2, <2>3 DEF Inv, TypeOK
<1>2. pc' \in {"body", "loop", "over"}
  BY DEF Inv, TypeOK, Materialise, BodyReturns, BodyRaises, MaterialiseReturns
<1>3. UNCHANGED <<cast, steps, executed, turns, nextActor, nextInput, passedSteps>>
  BY DEF Materialise, BodyReturns, BodyRaises, MaterialiseReturns, talk, history
<1>4. ProgressInv'
  <2>1. executed = Len(steps) \/ executed < Len(steps)
    BY LenProperties DEF Inv, TypeOK, AwaitInv
  <2> QED
    BY <1>3, <2>1 DEF Inv, ProgressInv, AwaitInv, Materialise, BodyReturns, BodyRaises,
       MaterialiseReturns
<1> QED BY <1>1, <1>2, <1>3, <1>4, QuietInv DEF Inv

(* The step that raised stays the current one.                             *)
LEMMA FailsInv ==
  ASSUME Inv, pc \in {"loop", "reply", "segment"}, Fails, started' \in BOOLEAN,
         UNCHANGED <<cast, calls, steps, turns, nextActor, nextInput, segment, subjects>>
  PROVE  Inv'
<1>1. UNCHANGED <<cast, steps, executed, turns, nextActor, nextInput, passedSteps>>
  BY DEF Fails
<1>2. pc' \in {"body", "loop", "over"} /\ outcome' \in {"none", "passed", "raised"}
  BY DEF Fails, Inv, TypeOK
<1>3. TypeOK'
  BY <1>1, <1>2 DEF Fails, Inv, TypeOK, segment
<1>4. ProgressInv'
  BY <1>1 DEF Fails, Inv, ProgressInv
<1> QED BY <1>1, <1>2, <1>3, <1>4, QuietInv DEF Inv

(* A step that does not talk ran to its end.                               *)
LEMMA SilentSuccessInv ==
  ASSUME Inv, At("callable") \/ At("check"), Succeeds,
         UNCHANGED <<cast, calls, steps, talk, segment>>,
         subjects' \subseteq [step : 1..Len(steps'), seen : SUBSET (1..Len(turns'))]
  PROVE  Inv'
<1>1. Len(steps) \in Nat /\ executed + 1 \in 1..Len(steps) /\ executed \in Nat
  BY CurrentFacts, LenProperties DEF Inv, TypeOK, At
<1>2. \A k \in 1..Len(turns) :
        turns[k].step \in Nat /\ turns[k].step <= executed + 1 /\ turns[k].step # executed + 1
  <2> TAKE k \in 1..Len(turns)
  <2>1. turns[k] \in Turn
    BY ElementOfSeq DEF Inv, TypeOK
  <2>2. turns[k].step \in Nat
    BY <2>1 DEF Turn
  <2>3. steps[turns[k].step].kind \in {"user_message", "simulate"} /\ turns[k].step <= executed + 1
    BY DEF Inv, StepInv
  <2> QED BY <2>2, <2>3 DEF At, Current
<1>3. TypeOK'
  BY <1>1 DEF Inv, TypeOK, Succeeds, talk, segment
<1>4. AwaitInv' /\ SegmentInv' /\ MessageInv'
  BY <1>1 DEF Succeeds, AwaitInv, SegmentInv, MessageInv
<1>5. StepInv'
  BY <1>1, <1>2 DEF Inv, StepInv, Succeeds, talk
<1>6. FloorInv'
  BY <1>2 DEF Inv, FloorInv, Succeeds, talk, Other, Broken, IsSimulated
<1>7. LastTurnInv'
  <2>1. turns # <<>> => Len(turns) \in 1..Len(turns)
    BY EmptySeq, LenProperties DEF Inv, TypeOK
  <2> QED BY <1>2, <2>1 DEF Inv, LastTurnInv, talk, IsSimulated
<1>8. ProgressInv'
  BY <1>1 DEF Inv, ProgressInv, Succeeds, At
<1> QED BY <1>3, <1>4, <1>5, <1>6, <1>7, <1>8 DEF Inv

LEMMA SilentInv ==
  ASSUME Inv, RunCallable \/ RefuseFuzz \/ RunCheck \/ ReplyRaises \/ SegmentRaises
  PROVE  Inv'
<1>1. CASE Fails /\ UNCHANGED subjects
  <2>1. /\ pc \in {"loop", "reply", "segment"} /\ started' \in BOOLEAN
        /\ UNCHANGED <<cast, calls, steps, turns, nextActor, nextInput, segment, subjects>>
    BY <1>1 DEF RunCallable, RefuseFuzz, RunCheck, ReplyRaises, SegmentRaises, At, talk,
       Inv, TypeOK
  <2> QED BY <1>1, <2>1, FailsInv
<1>2. CASE RunCallable /\ Succeeds
  <2>1. subjects' \subseteq [step : 1..Len(steps'), seen : SUBSET (1..Len(turns'))]
    BY <1>2 DEF RunCallable, Inv, TypeOK, talk
  <2> QED BY <1>2, <2>1, SilentSuccessInv DEF RunCallable
<1>3. CASE RunCheck /\ ~(Fails /\ UNCHANGED subjects)
  <2>1. Subject(Current) \in SUBSET (1..Len(turns))
    BY DEF Subject, TurnsOf
  <2>2. executed + 1 \in 1..Len(steps)
    BY <1>3, CurrentFacts DEF RunCheck, At, Inv
  <2>3. subjects' = subjects \cup {[step |-> executed + 1, seen |-> Subject(Current)]}
    BY <1>3 DEF RunCheck
  <2>4. [step |-> executed + 1, seen |-> Subject(Current)]
           \in [step : 1..Len(steps), seen : SUBSET (1..Len(turns))]
    BY <2>1, <2>2
  <2>5. subjects \subseteq [step : 1..Len(steps), seen : SUBSET (1..Len(turns))]
    BY DEF Inv, TypeOK
  <2>6. subjects' \subseteq [step : 1..Len(steps), seen : SUBSET (1..Len(turns))]
    BY <2>3, <2>4, <2>5
  <2>7. UNCHANGED <<steps, turns>>
    BY <1>3 DEF RunCheck, talk
  <2> QED BY <1>3, <2>6, <2>7, SilentSuccessInv DEF RunCheck
<1> QED BY <1>1, <1>2, <1>3 DEF RunCallable, RefuseFuzz, RunCheck, ReplyRaises, SegmentRaises

-----------------------------------------------------------------------------
(* Steps that talk.                                                        *)

(* However the current step ends, the steps before the counter passed.     *)
LEMMA EndFacts ==
  ASSUME Inv, pc # "over", executed < Len(steps), steps' = steps, Fails \/ Succeeds
  PROVE  /\ runner' \in BOOLEAN /\ outcome' \in {"none", "passed", "raised"}
         /\ executed' \in 0..Len(steps')
         /\ passedSteps' \subseteq 1..Len(steps')
         /\ ProgressInv'
<1>1. /\ executed \in Nat /\ Len(steps) \in Nat /\ passedSteps = 1..executed
      /\ outcome \in {"none", "raised"} /\ runner \in BOOLEAN
  BY LenProperties DEF Inv, TypeOK, ProgressInv
<1>2. executed' \in 0..Len(steps) /\ passedSteps' = 1..executed'
  <2>1. 1..(executed + 1) = (1..executed) \cup {executed + 1}
    BY <1>1
  <2>2. CASE Fails
    BY <1>1, <2>2 DEF Fails, Inv, TypeOK
  <2>3. CASE Succeeds
    BY <1>1, <2>1, <2>3 DEF Succeeds
  <2> QED BY <2>2, <2>3
<1>3. /\ runner' \in BOOLEAN /\ outcome' \in {"none", "raised"}
      /\ pc' = "over" => outcome' # "none"
  BY <1>1 DEF Fails, Succeeds
<1>4. passedSteps' \subseteq 1..Len(steps')
  BY <1>1, <1>2
<1> QED BY <1>2, <1>3, <1>4 DEF ProgressInv

(* What a turn of the current step does to the order of the transcript.    *)
LEMMA SpeakFacts ==
  ASSUME Inv, executed < Len(steps), Current.kind \in {"user_message", "simulate"},
         NEW t \in Turn, t.step = executed + 1, turns' = Append(turns, t),
         steps' = steps, executed' \in {executed, executed + 1}
  PROVE  /\ turns' \in Seq(Turn)
         /\ Len(turns) \in Nat /\ Len(turns') = Len(turns) + 1 /\ turns' # <<>>
         /\ turns'[Len(turns) + 1] = t
         /\ \A k \in 1..Len(turns) : turns'[k] = turns[k]
         /\ \A k \in 1..Len(turns) : IsSimulated(k)' <=> IsSimulated(k)
         /\ \A k : k = Len(turns) + 1 =>
                    (IsSimulated(k)' <=> Current.kind = "simulate")
         /\ StepInv'
         /\ executed \in Nat /\ Len(steps) \in Nat /\ executed + 1 \in 1..Len(steps)
<1>1. /\ turns' \in Seq(Turn)
      /\ Len(turns) \in Nat /\ Len(turns') = Len(turns) + 1 /\ turns' # <<>>
      /\ turns'[Len(turns) + 1] = t
      /\ \A k \in 1..Len(turns) : turns'[k] = turns[k] /\ turns[k] \in Turn
  BY AppendTurn DEF Inv, TypeOK
<1>2. executed \in Nat /\ Len(steps) \in Nat /\ executed + 1 \in 1..Len(steps)
  BY CurrentFacts, LenProperties DEF Inv, TypeOK
<1>3. \A k \in 1..Len(turns) : IsSimulated(k)' <=> IsSimulated(k)
  BY <1>1 DEF IsSimulated
<1>4. \A k : k = Len(turns) + 1 => (IsSimulated(k)' <=> Current.kind = "simulate")
  BY <1>1 DEF IsSimulated, Current
<1>5. \A k \in 1..Len(turns) : turns[k].step \in Nat
  BY <1>1 DEF Turn
<1>6. StepInv'
  <2> SUFFICES ASSUME NEW k \in 1..Len(turns')
               PROVE  /\ turns'[k].step <= Len(steps)
                      /\ turns'[k].step <= executed' + 1
                      /\ steps[turns'[k].step].kind \in {"user_message", "simulate"}
                      /\ \A j \in 1..(k - 1) : turns'[j].step <= turns'[k].step
    BY DEF StepInv
  <2>1. CASE k = Len(turns) + 1
    BY <1>1, <1>2, <1>5, <2>1 DEF Inv, StepInv, Current
  <2>2. CASE k # Len(turns) + 1
    <3>1. k \in 1..Len(turns)
      BY <1>1, <2>2
    <3>2. /\ turns[k].step <= Len(steps)
          /\ turns[k].step <= executed + 1
          /\ steps[turns[k].step].kind \in {"user_message", "simulate"}
          /\ \A j \in 1..(k - 1) : turns[j].step <= turns[k].step
      BY <3>1 DEF Inv, StepInv
    <3> QED BY <1>1, <1>2, <1>5, <3>1, <3>2
  <2> QED BY <2>1, <2>2
<1> QED BY <1>1, <1>2, <1>3, <1>4, <1>6

(* Said makes a turn of the current step.                                  *)
LEMMA SaidFacts ==
  ASSUME executed \in Nat, NEW a \in Actor, NEW h \in Nat, NEW ok \in BOOLEAN,
         NEW errs \in BOOLEAN, NEW m \in BOOLEAN
  PROVE  /\ Said(a, h, ok, errs, m) \in Turn
         /\ Said(a, h, ok, errs, m).step = executed + 1
         /\ Said(a, h, ok, errs, m).actor = a
         /\ Said(a, h, ok, errs, m).ok = ok
         /\ Said(a, h, ok, errs, m).errs = errs
         /\ Said(a, h, ok, errs, m).heard = h
BY DEF Said, Turn

(* Whether error texts are searched for or not, there are some or none.    *)
LEMMA ErrFacts ==
  ASSUME NEW a
  PROVE  MayErr(a) \subseteq BOOLEAN
BY DEF MayErr

(* The floor after a turn that went on, and after one that raised.         *)
LEMMA HandOverFloor ==
  ASSUME Inv, executed < Len(steps), Current.kind \in {"user_message", "simulate"},
         NEW t \in Turn, t.step = executed + 1, turns' = Append(turns, t),
         t.actor \in cast, HandOver(t),
         steps' = steps, cast' = cast, executed' \in {executed, executed + 1},
         Broken(t) => executed' = executed /\ pc' # "segment"
  PROVE  /\ FloorInv'
         /\ nextActor' \in cast' \cup {NoActor}
         /\ nextInput' \in 0..Len(turns')
<1>1. /\ Len(turns) \in Nat /\ Len(turns') = Len(turns) + 1
      /\ turns'[Len(turns) + 1] = t
      /\ \A k \in 1..Len(turns) : turns'[k] = turns[k]
      /\ \A k \in 1..Len(turns) : IsSimulated(k)' <=> IsSimulated(k)
  BY SpeakFacts
<1>2. nextActor \in cast \cup {NoActor} /\ nextInput \in 0..Len(turns) /\ cast \in Casts
  BY DEF Inv, TypeOK
<1>0. \A a : Other(a)' = Other(a)
  BY DEF Other
<1>3. CASE ~Broken(t)
  <2>1. nextInput' = Len(turns') /\ nextActor' = Other(t.actor)
    BY <1>1, <1>3 DEF HandOver
  <2>2. nextActor' \in cast /\ nextActor' # NoActor
    BY <1>2, <2>1, OtherFacts, CastFacts
  <2>3. /\ nextInput' \in 1..Len(turns')
        /\ ~Broken(turns'[nextInput'])
        /\ nextActor' = Other(turns'[nextInput'].actor)
        /\ \A j : j \notin (nextInput' + 1)..Len(turns')
    BY <1>1, <1>3, <2>1
  <2>4. FloorInv'
    BY <1>0, <2>2, <2>3 DEF FloorInv, Broken
  <2>5. nextInput' \in 0..Len(turns')
    BY <1>1, <2>3
  <2> QED BY <2>2, <2>4, <2>5
<1>4. CASE Broken(t)
  <2>1. UNCHANGED <<nextActor, nextInput>> /\ executed' = executed /\ pc' # "segment"
    BY <1>4 DEF HandOver
  <2>2. CASE nextActor = NoActor
    BY <1>1, <1>2, <2>1, <2>2 DEF Inv, FloorInv
  <2>3. CASE nextActor # NoActor
    <3>1. /\ nextInput \in 1..Len(turns)
          /\ ~Broken(turns[nextInput])
          /\ nextActor = Other(turns[nextInput].actor)
          /\ \A j \in (nextInput + 1)..Len(turns) :
               \/ Broken(turns[j])
               \/ turns[j].step = executed + 1 /\ ~IsSimulated(j)
      BY <2>3 DEF Inv, FloorInv
    <3>2. \A j \in (nextInput + 1)..Len(turns') :
               \/ Broken(turns'[j])
               \/ turns'[j].step = executed' + 1 /\ ~IsSimulated(j)'
      BY <1>1, <1>4, <2>1, <3>1
    <3>3. /\ nextInput' \in 1..Len(turns')
          /\ ~Broken(turns'[nextInput'])
          /\ nextActor' = Other(turns'[nextInput'].actor)
      BY <1>1, <2>1, <3>1
    <3>4. FloorInv'
      BY <1>0, <2>1, <2>3, <3>2, <3>3 DEF FloorInv, Broken
    <3> QED BY <1>1, <1>2, <2>1, <3>4
  <2> QED BY <2>2, <2>3
<1> QED BY <1>3, <1>4

LEMMA SendUserMessageInv ==
  ASSUME Inv, SendUserMessage
  PROVE  Inv'
<1>1. executed < Len(steps) /\ Current.kind = "user_message" /\ executed \in Nat
  BY LenProperties DEF SendUserMessage, At, Inv, TypeOK
<1>2. /\ UNCHANGED <<cast, runner, calls, outcome, steps, executed, started,
                     nextActor, nextInput, segment, history>>
      /\ pc = "loop" /\ pc' = "reply"
  BY DEF SendUserMessage, At
<1>3. CASE Target = "agent"
  <2> DEFINE t == Said("user", 0, TRUE, FALSE, FALSE)
  <2>1. t \in Turn /\ t.step = executed + 1 /\ t.actor = "user" /\ turns' = Append(turns, t)
    BY <1>1, <1>3 DEF SendUserMessage, Said, Turn, Actor
  <2> HIDE DEF t
  <2>2. /\ turns' \in Seq(Turn)
        /\ Len(turns) \in Nat /\ Len(turns') = Len(turns) + 1 /\ turns' # <<>>
        /\ turns'[Len(turns) + 1] = t
        /\ \A k \in 1..Len(turns) : turns'[k] = turns[k]
        /\ \A k \in 1..Len(turns) : IsSimulated(k)' <=> IsSimulated(k)
        /\ \A k : k = Len(turns) + 1 =>
                    (IsSimulated(k)' <=> Current.kind = "simulate")
        /\ StepInv'
    BY <1>1, <1>2, <2>1, SpeakFacts
  <2>3. TypeOK'
    <3>1. subjects' \subseteq [step : 1..Len(steps'), seen : SUBSET (1..Len(turns'))]
      <4>1. SUBSET (1..Len(turns)) \subseteq SUBSET (1..Len(turns'))
        BY <2>2
      <4> QED BY <1>2, <4>1 DEF Inv, TypeOK, history
    <3>2. nextInput' \in 0..Len(turns') /\ segFrom' \in 0..Len(turns')
      BY <1>2, <2>2 DEF Inv, TypeOK, segment
    <3> QED BY <1>2, <2>2, <3>1, <3>2 DEF Inv, TypeOK, segment, history
  <2>4. AwaitInv' /\ SegmentInv' /\ ProgressInv'
    BY <1>1, <1>2 DEF Inv, AwaitInv, SegmentInv, ProgressInv, Current, history
  <2>5. MessageInv' /\ LastTurnInv'
    BY <1>2, <2>1, <2>2 DEF MessageInv, LastTurnInv
  <2>6. FloorInv'
    <3>1. CASE nextActor = NoActor
      BY <1>2, <3>1 DEF Inv, FloorInv
    <3>2. CASE nextActor # NoActor
      <4>0. \A a : Other(a)' = Other(a)
        BY <1>2 DEF Other
      <4>1. /\ nextInput \in 1..Len(turns)
            /\ ~Broken(turns[nextInput])
            /\ nextActor = Other(turns[nextInput].actor)
            /\ \A j \in (nextInput + 1)..Len(turns) :
                 \/ Broken(turns[j])
                 \/ turns[j].step = executed + 1 /\ ~IsSimulated(j)
        BY <3>2 DEF Inv, FloorInv
      <4>2. \A j \in (nextInput + 1)..Len(turns') :
                 \/ Broken(turns'[j])
                 \/ turns'[j].step = executed' + 1 /\ ~IsSimulated(j)'
        <5> TAKE j \in (nextInput + 1)..Len(turns')
        <5>1. CASE j = Len(turns) + 1
          BY <1>1, <1>2, <2>1, <2>2, <5>1
        <5>2. CASE j # Len(turns) + 1
          <6>1. j \in 1..Len(turns) /\ j \in (nextInput + 1)..Len(turns)
            BY <2>2, <4>1, <5>2
          <6> QED BY <1>2, <2>2, <4>1, <6>1
        <5> QED BY <5>1, <5>2
      <4>3. /\ nextInput' \in 1..Len(turns')
            /\ ~Broken(turns'[nextInput'])
            /\ nextActor' = Other(turns'[nextInput'].actor)
        BY <1>2, <2>2, <4>1
      <4> QED BY <1>2, <3>2, <4>0, <4>2, <4>3 DEF FloorInv, Broken
    <3> QED BY <3>1, <3>2
  <2> QED BY <2>2, <2>3, <2>4, <2>5, <2>6 DEF Inv
<1>4. CASE Target # "agent"
  <2>1. turns' = turns
    BY <1>4 DEF SendUserMessage
  <2>2. TypeOK'
    BY <1>2, <2>1 DEF Inv, TypeOK, segment, history
  <2>3. AwaitInv' /\ StepInv' /\ SegmentInv' /\ ProgressInv' /\ MessageInv'
    BY <1>1, <1>2, <1>4, <2>1
       DEF Inv, AwaitInv, StepInv, SegmentInv, ProgressInv, MessageInv, Current, history, Target
  <2>4. FloorInv'
    BY <1>2, <2>1 DEF Inv, FloorInv, Other, Broken, IsSimulated
  <2>5. LastTurnInv'
    BY <1>2, <2>1 DEF Inv, LastTurnInv, IsSimulated
  <2> QED BY <2>2, <2>3, <2>4, <2>5 DEF Inv
<1> QED BY <1>3, <1>4

LEMMA ReplyInv ==
  ASSUME Inv, Reply
  PROVE  Inv'
<1>1. executed < Len(steps) /\ Current.kind = "user_message" /\ executed \in Nat
  BY LenProperties DEF Reply, Inv, TypeOK, AwaitInv
<1>2. Target \in cast /\ Target \in Actor /\ Len(turns) \in Nat
  BY CastFacts, LenProperties DEF Inv, TypeOK
<1>3. PICK ok \in BOOLEAN, errs \in BOOLEAN :
        LET t == Said(Target, IF Target = "agent" THEN Len(turns) ELSE 0, ok, errs,
                      FALSE)
        IN /\ turns' = Append(turns, t)
           /\ HandOver(t)
           /\ IF Broken(t) THEN Fails /\ UNCHANGED started
              ELSE Succeeds /\ started' = TRUE
  <2>1. MayErr(Target) \subseteq BOOLEAN
    BY ErrFacts
  <2> QED BY <2>1, Zenon DEF Reply
<1> DEFINE t == Said(Target, IF Target = "agent" THEN Len(turns) ELSE 0, ok, errs, FALSE)
<1>4. t \in Turn /\ t.step = executed + 1 /\ t.actor = Target
  <2> DEFINE h == IF Target = "agent" THEN Len(turns) ELSE 0
  <2>1. h \in Nat
    BY <1>2
  <2> HIDE DEF h
  <2>2. LET u == Said(Target, h, ok, errs, FALSE)
        IN  u \in Turn /\ u.step = executed + 1 /\ u.actor = Target
    BY <1>1, <1>2, <2>1 DEF Said, Turn
  <2> QED BY <2>2 DEF h
<1>5. /\ turns' = Append(turns, t)
      /\ HandOver(t)
      /\ IF Broken(t) THEN Fails /\ UNCHANGED started
         ELSE Succeeds /\ started' = TRUE
  BY <1>3
<1> HIDE DEF t
<1>6. UNCHANGED <<cast, calls, steps, segment, subjects>> /\ pc = "reply"
  BY DEF Reply
<1>7. /\ executed' \in {executed, executed + 1} /\ pc' \in {"body", "loop", "over"}
      /\ Broken(t) => executed' = executed
  BY <1>5 DEF Fails, Succeeds
<1>8. /\ turns' \in Seq(Turn)
      /\ Len(turns) \in Nat /\ Len(turns') = Len(turns) + 1 /\ turns' # <<>>
      /\ turns'[Len(turns) + 1] = t
      /\ StepInv'
      /\ Len(steps) \in Nat /\ executed + 1 \in 1..Len(steps)
  BY <1>1, <1>4, <1>5, <1>6, <1>7, SpeakFacts
<1>9. FloorInv' /\ nextActor' \in cast' \cup {NoActor} /\ nextInput' \in 0..Len(turns')
  BY <1>1, <1>2, <1>4, <1>5, <1>6, <1>7, HandOverFloor
<1>10. TypeOK'
  <2>1. subjects' \subseteq [step : 1..Len(steps'), seen : SUBSET (1..Len(turns'))]
    <3>1. SUBSET (1..Len(turns)) \subseteq SUBSET (1..Len(turns'))
      BY <1>8
    <3> QED BY <1>6, <3>1 DEF Inv, TypeOK
  <2>2. segFrom' \in 0..Len(turns') /\ inSegment' \in Nat
    BY <1>6, <1>8 DEF Inv, TypeOK, segment
  <2>3. /\ runner' \in BOOLEAN /\ outcome' \in {"none", "passed", "raised"}
        /\ executed' \in 0..Len(steps')
        /\ passedSteps' \subseteq 1..Len(steps')
    BY <1>1, <1>5, <1>6, EndFacts
  <2>4. started' \in BOOLEAN
    BY <1>5 DEF Inv, TypeOK
  <2> QED BY <1>6, <1>7, <1>8, <1>9, <2>1, <2>2, <2>3, <2>4 DEF Inv, TypeOK
<1>11. AwaitInv' /\ SegmentInv' /\ MessageInv'
  BY <1>1, <1>6, <1>7, <1>8 DEF AwaitInv, SegmentInv, MessageInv
<1>12. LastTurnInv'
  <2>1. Len(turns') = Len(turns) + 1 /\ turns'[Len(turns')] = t
    BY <1>8
  <2>2. "agent" \in cast => t.actor = "agent"
    BY <1>4 DEF Target
  <2> QED BY <1>6, <2>1, <2>2 DEF LastTurnInv
<1>13. ProgressInv'
  BY <1>1, <1>5, <1>6, EndFacts
<1> QED BY <1>8, <1>9, <1>10, <1>11, <1>12, <1>13 DEF Inv

LEMMA StartSegmentInv ==
  ASSUME Inv, StartSegment
  PROVE  Inv'
<1>1. /\ executed < Len(steps) /\ Current.kind = "simulate" /\ pc = "loop"
      /\ UNCHANGED <<cast, calls, steps, turns, nextActor, nextInput, subjects>>
      /\ started' \in BOOLEAN
  BY DEF StartSegment, At, Inv, TypeOK
<1>2. CASE Fails /\ UNCHANGED segment
  BY <1>1, <1>2, FailsInv
<1>3. CASE ~(Fails /\ UNCHANGED segment)
  <2>1. /\ IF First THEN Current.seed \in cast ELSE nextActor # NoActor
        /\ pc' = "segment" /\ inSegment' = 0 /\ segFrom' = Len(turns)
        /\ UNCHANGED <<runner, outcome, executed, passedSteps>>
    BY <1>3 DEF StartSegment
  <2>2. Len(turns) \in Nat /\ Current.max_turns \in Nat \ {0}
    BY <1>1, CurrentFacts, StepFacts, LenProperties DEF Inv, TypeOK
  <2>3. TypeOK'
    BY <1>1, <2>1, <2>2 DEF Inv, TypeOK
  <2>4. AwaitInv' /\ StepInv' /\ MessageInv' /\ ProgressInv'
    BY <1>1, <2>1 DEF Inv, AwaitInv, StepInv, MessageInv, ProgressInv, Current
  <2>5. SegmentInv'
    <3>1. Current' = Current
      BY <1>1, <2>1 DEF Current
    <3> QED BY <1>1, <2>1, <2>2, <3>1 DEF SegmentInv
  <2>6. FloorInv'
    <3>1. CASE nextActor = NoActor
      BY <1>1, <2>1, <3>1 DEF Inv, FloorInv, First, Current
    <3>2. CASE nextActor # NoActor
      BY <1>1, <2>1, <3>2 DEF Inv, FloorInv, Other, Broken, IsSimulated
    <3> QED BY <3>1, <3>2
  <2>7. LastTurnInv'
    BY <1>1, <2>1 DEF Inv, LastTurnInv, IsSimulated
  <2> QED BY <2>3, <2>4, <2>5, <2>6, <2>7 DEF Inv
<1> QED BY <1>2, <1>3

(* A turn of a segment, be it the one that opens it or one of the loop.    *)
SegmentTurn == FirstTurn \/ NextTurn

(* The turn a segment adds, and how the segment goes on after it.          *)
LEMMA SegmentTurnFacts ==
  ASSUME Inv, SegmentTurn
  PROVE  \E t \in Turn :
           /\ t.actor = Speaker /\ t.actor \in cast /\ t.step = executed + 1
           /\ t.heard = nextInput
           /\ turns' = Append(turns, t)
           /\ HandOver(t)
           /\ inSegment' = inSegment + 1
           /\ \/ Fails
              \/ Succeeds /\ LastOfSegment(t) /\ ~Broken(t)
              \/ /\ UNCHANGED <<pc, runner, outcome, executed, passedSteps>>
                 /\ ~LastOfSegment(t) /\ ~Broken(t)
           /\ inSegment = 0 /\ ~t.ok /\ ~Broken(t) => Succeeds
<1>1. executed < Len(steps) /\ Current.kind = "simulate" /\ pc = "segment" /\ executed \in Nat
  BY LenProperties DEF SegmentTurn, FirstTurn, NextTurn, Inv, TypeOK, AwaitInv
<1>2. Speaker \in cast /\ Speaker \in Actor /\ nextInput \in Nat
  <2>1. nextActor \in cast \cup {NoActor} /\ cast \subseteq Actor
    BY CastFacts DEF Inv, TypeOK
  <2>2. nextActor = NoActor => Current.seed \in cast
    BY <1>1 DEF Inv, FloorInv
  <2>3. nextInput \in Nat
    BY LenProperties DEF Inv, TypeOK
  <2> QED BY <2>1, <2>2, <2>3 DEF Speaker
<1>3. PICK t \in Utterances :
        /\ Speaks(t)
        /\ IF Broken(t) THEN Fails
           ELSE IF inSegment = 0 /\ ~t.ok THEN Succeeds
           ELSE StopOrGoOn(t)
  <2>1. inSegment \in Nat
    BY DEF Inv, TypeOK
  <2> QED BY <2>1 DEF SegmentTurn, FirstTurn, NextTurn
<1>4. t \in Turn /\ t.actor = Speaker /\ t.step = executed + 1 /\ t.heard = nextInput
  <2>1. PICK ok \in BOOLEAN, errs \in BOOLEAN, m \in BOOLEAN :
          t = Said(Speaker, nextInput, ok, errs, m)
    BY <1>3, ErrFacts DEF Utterances
  <2> QED BY <1>1, <1>2, <2>1, SaidFacts
<1>5. turns' = Append(turns, t) /\ HandOver(t) /\ inSegment' = inSegment + 1
  BY <1>3 DEF Speaks
<1>6. \/ Fails
      \/ Succeeds /\ LastOfSegment(t) /\ ~Broken(t)
      \/ /\ UNCHANGED <<pc, runner, outcome, executed, passedSteps>>
         /\ ~LastOfSegment(t) /\ ~Broken(t)
  BY <1>3 DEF StopOrGoOn, LastOfSegment
<1>7. inSegment = 0 /\ ~t.ok /\ ~Broken(t) => Succeeds
  BY <1>3
<1> QED BY <1>2, <1>4, <1>5, <1>6, <1>7

LEMMA SegmentTurnInv ==
  ASSUME Inv, SegmentTurn
  PROVE  Inv'
<1>1. /\ executed < Len(steps) /\ Current.kind = "simulate" /\ pc = "segment" /\ executed \in Nat
      /\ UNCHANGED <<cast, calls, steps, started, segFrom, subjects>>
  BY LenProperties DEF SegmentTurn, FirstTurn, NextTurn, Inv, TypeOK, AwaitInv
<1>2. PICK t \in Turn :
        /\ t.actor = Speaker /\ t.actor \in cast /\ t.step = executed + 1
        /\ turns' = Append(turns, t)
        /\ HandOver(t)
        /\ inSegment' = inSegment + 1
        /\ \/ Fails
           \/ Succeeds /\ LastOfSegment(t) /\ ~Broken(t)
           \/ /\ UNCHANGED <<pc, runner, outcome, executed, passedSteps>>
              /\ ~LastOfSegment(t) /\ ~Broken(t)
  BY SegmentTurnFacts
<1>3. /\ executed' \in {executed, executed + 1}
      /\ Broken(t) => executed' = executed /\ pc' # "segment"
      /\ pc' \in {"body", "loop", "over", "segment"}
  BY <1>1, <1>2 DEF Fails, Succeeds
<1>4. /\ turns' \in Seq(Turn)
      /\ Len(turns) \in Nat /\ Len(turns') = Len(turns) + 1 /\ turns' # <<>>
      /\ turns'[Len(turns) + 1] = t
      /\ \A k \in 1..Len(turns) : turns'[k] = turns[k]
      /\ \A k : k = Len(turns) + 1 =>
                 (IsSimulated(k)' <=> Current.kind = "simulate")
      /\ StepInv'
      /\ Len(steps) \in Nat /\ executed + 1 \in 1..Len(steps)
  BY <1>1, <1>2, <1>3, SpeakFacts
<1>5. FloorInv' /\ nextActor' \in cast' \cup {NoActor} /\ nextInput' \in 0..Len(turns')
  BY <1>1, <1>2, <1>3, HandOverFloor
<1>6. /\ runner' \in BOOLEAN /\ outcome' \in {"none", "passed", "raised"}
      /\ executed' \in 0..Len(steps')
      /\ passedSteps' \subseteq 1..Len(steps')
      /\ ProgressInv'
  <2>1. CASE Fails \/ Succeeds
    BY <1>1, <2>1, EndFacts
  <2>2. CASE UNCHANGED <<pc, runner, outcome, executed, passedSteps>>
    BY <1>1, <2>2 DEF Inv, TypeOK, ProgressInv
  <2> QED BY <1>2, <2>1, <2>2
<1>7. TypeOK'
  <2>1. subjects' \subseteq [step : 1..Len(steps'), seen : SUBSET (1..Len(turns'))]
    <3>1. SUBSET (1..Len(turns)) \subseteq SUBSET (1..Len(turns'))
      BY <1>4
    <3> QED BY <1>1, <3>1 DEF Inv, TypeOK
  <2>2. segFrom' \in 0..Len(turns') /\ inSegment' \in Nat
    BY <1>1, <1>2, <1>4 DEF Inv, TypeOK
  <2> QED BY <1>1, <1>3, <1>4, <1>5, <1>6, <2>1, <2>2 DEF Inv, TypeOK
<1>8. AwaitInv' /\ MessageInv'
  <2>1. pc' = "segment" => executed' = executed
    BY <1>1, <1>2 DEF Fails, Succeeds
  <2> QED BY <1>1, <1>3, <1>4, <2>1 DEF AwaitInv, MessageInv, Current
<1>9. SegmentInv'
  <2> SUFFICES ASSUME pc' = "segment" PROVE SegmentInv'
    BY DEF SegmentInv
  <2>1. executed' = executed /\ ~LastOfSegment(t)
    BY <1>2 DEF Fails, Succeeds
  <2>2. Current' = Current
    BY <1>1, <2>1 DEF Current
  <2>3. /\ Len(turns) = segFrom + inSegment
        /\ \A j \in (segFrom + 1)..Len(turns) : ~StopDue(turns[j])
        /\ segFrom \in Nat /\ inSegment \in Nat
    BY <1>1, <1>4 DEF Inv, SegmentInv, TypeOK
  <2>4. ~StopDue(t) /\ inSegment + 1 < Current.max_turns
    <3>1. Current.max_turns \in Nat
      BY <1>1, CurrentFacts, StepFacts DEF Inv
    <3> QED BY <2>1, <2>3, <3>1 DEF LastOfSegment, StopDue, Eligible
  <2>5. \A j \in (segFrom + 1)..Len(turns') : ~StopDue(turns'[j])
    BY <1>4, <2>3, <2>4
  <2> QED BY <1>1, <1>2, <1>4, <2>2, <2>3, <2>4, <2>5 DEF SegmentInv, StopDue
<1>10. LastTurnInv'
  <2>1. \A k : k = Len(turns') => IsSimulated(k)'
    BY <1>1, <1>4
  <2> QED BY <2>1 DEF LastTurnInv
<1> QED BY <1>4, <1>5, <1>6, <1>7, <1>8, <1>9, <1>10 DEF Inv

(* In every reachable state the invariant holds.                           *)
THEOREM Invariance == Spec => []Inv
<1>1. Init => Inv
  BY InitInv
<1>2. Inv /\ [Next]_vars => Inv'
  <2> SUFFICES ASSUME Inv, [Next]_vars PROVE Inv'
    OBVIOUS
  <2>1. ASSUME NEW s \in StepSet, Queue(s) PROVE Inv'
    BY <2>1, QueueInv
  <2>2. CASE Materialise \/ BodyReturns \/ BodyRaises \/ MaterialiseReturns
    BY <2>2, BodyInv
  <2>3. CASE RunCallable \/ RefuseFuzz \/ RunCheck \/ ReplyRaises \/ SegmentRaises
    BY <2>3, SilentInv
  <2>4. CASE SendUserMessage
    BY <2>4, SendUserMessageInv
  <2>5. CASE Reply
    BY <2>5, ReplyInv
  <2>6. CASE StartSegment
    BY <2>6, StartSegmentInv
  <2>7. CASE SegmentTurn
    BY <2>7, SegmentTurnInv
  <2>8. CASE UNCHANGED vars
    BY <2>8 DEF vars, control, talk, segment, history, Inv, TypeOK, AwaitInv, StepInv,
       FloorInv, SegmentInv, MessageInv, LastTurnInv, ProgressInv, Current, Broken, Other,
       IsSimulated, StopDue, Target
  <2> QED
    BY <2>1, <2>2, <2>3, <2>4, <2>5, <2>6, <2>7, <2>8 DEF Next, Rest, SegmentTurn
<1> QED BY <1>1, <1>2, PTL DEF Spec

-----------------------------------------------------------------------------
(* What the invariant is for.                                              *)

(* Every variable of a scenario keeps its type.                            *)
THEOREM TypeCorrect == Spec => []TypeOK
<1>1. Inv => TypeOK
  BY DEF Inv
<1> QED BY <1>1, Invariance, PTL

(* A step changes nothing in the queue or the transcript; it may append a  *)
(* step, or one turn of the current step.                                  *)
LEMMA NextGrows ==
  ASSUME Inv, [Next]_vars
  PROVE  /\ cast' = cast
         /\ Len(turns) \in Nat
         /\ \A i \in 1..Len(steps) : steps'[i] = steps[i] /\ i \in 1..Len(steps')
         /\ \A k \in 1..Len(turns) :
              /\ k \in 1..Len(turns') /\ turns'[k] = turns[k]
              /\ turns[k].step \in 1..Len(steps)
              /\ IsSimulated(k)' <=> IsSimulated(k)
         /\ \/ turns' = turns
            \/ /\ SendUserMessage \/ Reply \/ SegmentTurn
               /\ steps' = steps /\ executed < Len(steps)
               /\ Len(turns') = Len(turns) + 1
               /\ turns'[Len(turns) + 1].step = executed + 1
<1>1. Len(turns) \in Nat /\ Len(steps) \in Nat /\ steps \in Seq(StepSet)
  BY LenProperties DEF Inv, TypeOK
<1>2. \A k \in 1..Len(turns) : turns[k].step \in 1..Len(steps)
  <2> TAKE k \in 1..Len(turns)
  <2>1. turns[k] \in Turn
    BY ElementOfSeq DEF Inv, TypeOK
  <2>2. turns[k].step \in Nat \ {0} /\ turns[k].step <= Len(steps)
    BY <2>1 DEF Turn, Inv, StepInv
  <2> QED BY <1>1, <2>2
<1>3. CASE turns' = turns
  <2>1. cast' = cast
    BY DEF Next, Rest, vars, Queue, Materialise, BodyReturns, BodyRaises, MaterialiseReturns,
       RunCallable, RefuseFuzz, RunCheck, SendUserMessage, Reply, ReplyRaises, StartSegment,
       FirstTurn, NextTurn, Speaks, SegmentRaises
  <2>2. steps' = steps \/ \E s \in StepSet : steps' = Append(steps, s)
    BY DEF Next, Rest, vars, Queue, Materialise, BodyReturns, BodyRaises, MaterialiseReturns,
       RunCallable, RefuseFuzz, RunCheck, SendUserMessage, Reply, ReplyRaises, StartSegment,
       FirstTurn, NextTurn, SegmentRaises
  <2>3. \A i \in 1..Len(steps) : steps'[i] = steps[i] /\ i \in 1..Len(steps')
    <3>1. CASE steps' = steps
      BY <3>1
    <3>2. ASSUME NEW s \in StepSet, steps' = Append(steps, s)
          PROVE  \A i \in 1..Len(steps) : steps'[i] = steps[i] /\ i \in 1..Len(steps')
      BY <1>1, <3>2, QueueFacts
    <3> QED BY <2>2, <3>1, <3>2
  <2> QED BY <1>1, <1>2, <1>3, <2>1, <2>3 DEF IsSimulated
<1>4. CASE turns' # turns
  <2>1. SendUserMessage \/ Reply \/ SegmentTurn
    BY <1>4 DEF SegmentTurn, Next, Rest, vars, talk, Queue, Materialise, BodyReturns,
       BodyRaises, MaterialiseReturns, RunCallable, RefuseFuzz, RunCheck, ReplyRaises,
       StartSegment, SegmentRaises
  <2>2. cast' = cast /\ steps' = steps /\ executed < Len(steps)
    BY <2>1 DEF SendUserMessage, Reply, SegmentTurn, FirstTurn, NextTurn, Inv, AwaitInv, At
  <2>3. executed \in Nat /\ turns \in Seq(Turn)
    BY <1>1 DEF Inv, TypeOK
  <2>4. \E t \in Turn : t.step = executed + 1 /\ turns' = Append(turns, t)
    <3>1. CASE SendUserMessage
      <4>1. LET u == Said("user", 0, TRUE, FALSE, FALSE)
            IN  u \in Turn /\ u.step = executed + 1
        BY <2>3 DEF Said, Turn, Actor
      <4> QED BY <1>4, <3>1, <4>1 DEF SendUserMessage
    <3>2. CASE Reply
      <4>1. Target \in Actor
        BY DEF Target, Actor
      <4>2. PICK ok \in BOOLEAN, errs \in BOOLEAN :
              turns' = Append(turns, Said(Target, IF Target = "agent" THEN Len(turns) ELSE 0,
                                          ok, errs, FALSE))
        BY <3>2, ErrFacts DEF Reply
      <4> DEFINE h == IF Target = "agent" THEN Len(turns) ELSE 0
      <4>3. h \in Nat /\ turns' = Append(turns, Said(Target, h, ok, errs, FALSE))
        BY <1>1, <4>2
      <4> HIDE DEF h
      <4>4. LET u == Said(Target, h, ok, errs, FALSE)
            IN  u \in Turn /\ u.step = executed + 1
        BY <2>3, <4>1, <4>3 DEF Said, Turn
      <4> QED BY <4>3, <4>4
    <3>3. CASE SegmentTurn
      BY <3>3, SegmentTurnFacts
    <3> QED BY <2>1, <3>1, <3>2, <3>3
  <2>5. /\ Len(turns') = Len(turns) + 1
        /\ turns'[Len(turns) + 1].step = executed + 1
        /\ \A k \in 1..Len(turns) : turns'[k] = turns[k]
    BY <2>3, <2>4, AppendTurn
  <2> QED BY <1>1, <1>2, <2>1, <2>2, <2>5 DEF IsSimulated
<1> QED BY <1>3, <1>4

(* A scenario passes only when every step it queued ran to its end.        *)
THEOREM PassedMeansEveryStepHolds == Spec => []PassedMeansEveryStep
<1>1. Inv => PassedMeansEveryStep
  BY DEF Inv, ProgressInv, PassedMeansEveryStep
<1> QED BY <1>1, Invariance, PTL

(* Every simulated turn answers the last turn before it that did not raise.*)
THEOREM ConversationIsChainHolds == Spec => []ConversationIsChain
<1>1. Init => ConversationIsChain
  BY EmptySeq DEF Init, ConversationIsChain
<1>2. Inv /\ ConversationIsChain /\ [Next]_vars => ConversationIsChain'
  <2> SUFFICES ASSUME Inv, ConversationIsChain, [Next]_vars,
                      NEW k \in 1..Len(turns'), IsSimulated(k)'
               PROVE  LET h == turns'[k].heard IN
                      IF h = 0
                      THEN \A j \in 1..(k - 1) : Broken(turns'[j])
                      ELSE /\ h < k
                           /\ ~Broken(turns'[h])
                           /\ cast = Actor => turns'[h].actor # turns'[k].actor
                           /\ \A j \in (h + 1)..(k - 1) : Broken(turns'[j])
    BY NextGrows DEF ConversationIsChain, Broken
  <2>1. /\ Len(turns) \in Nat
        /\ \A j \in 1..Len(turns) : turns'[j] = turns[j]
    BY NextGrows
  <2>2. CASE k \in 1..Len(turns)
    <3>1. IsSimulated(k)
      BY <2>2, NextGrows
    <3>2. turns[k].heard \in Nat
      <4>1. turns[k] \in Turn
        BY <2>2, ElementOfSeq DEF Inv, TypeOK
      <4> QED BY <4>1 DEF Turn
    <3> DEFINE h == turns[k].heard
    <3>3. IF h = 0
          THEN \A j \in 1..(k - 1) : Broken(turns[j])
          ELSE /\ h < k
               /\ ~Broken(turns[h])
               /\ cast = Actor => turns[h].actor # turns[k].actor
               /\ \A j \in (h + 1)..(k - 1) : Broken(turns[j])
      BY <2>2, <3>1 DEF ConversationIsChain
    <3>4. turns'[k] = turns[k] /\ h \in Nat
      BY <2>1, <2>2, <3>2
    <3> HIDE DEF h
    <3>5. CASE h = 0
      <4>1. \A j \in 1..(k - 1) : Broken(turns'[j])
        BY <2>1, <2>2, <3>3, <3>5
      <4> QED BY <3>4, <3>5, <4>1 DEF h
    <3>6. CASE h # 0
      <4>1. /\ h < k /\ h \in 1..Len(turns)
            /\ ~Broken(turns'[h])
            /\ cast = Actor => turns'[h].actor # turns'[k].actor
        BY <2>1, <2>2, <3>3, <3>4, <3>6
      <4>2. \A j \in (h + 1)..(k - 1) : Broken(turns'[j])
        BY <2>1, <2>2, <3>3, <3>4, <3>6
      <4> QED BY <3>4, <3>6, <4>1, <4>2 DEF h
    <3> QED BY <3>5, <3>6
  <2>3. CASE k \notin 1..Len(turns)
    <3>1. /\ SendUserMessage \/ Reply \/ SegmentTurn
          /\ steps' = steps /\ executed < Len(steps)
          /\ Len(turns') = Len(turns) + 1 /\ turns'[Len(turns) + 1].step = executed + 1
      BY <2>3, NextGrows
    <3>2. k = Len(turns) + 1
      BY <2>1, <2>3, <3>1
    <3>3. SegmentTurn
      BY <3>1, <3>2 DEF IsSimulated, SendUserMessage, Reply, At, Current, Inv, AwaitInv
    <3>4. PICK t \in Turn : /\ t.actor = Speaker /\ t.heard = nextInput
                            /\ turns' = Append(turns, t)
      BY <3>3, SegmentTurnFacts
    <3>5. turns'[k] = t
      BY <3>2, <3>4, AppendTurn DEF Inv, TypeOK
    <3>6. pc = "segment" /\ Current.kind = "simulate"
      BY <3>3 DEF SegmentTurn, FirstTurn, NextTurn, Inv, AwaitInv
    <3>7. CASE nextActor = NoActor
      <4>1. nextInput = 0 /\ Len(turns) = 0
        BY <3>6, <3>7, EmptySeq DEF Inv, FloorInv
      <4> QED BY <3>2, <3>4, <3>5, <4>1
    <3>8. CASE nextActor # NoActor
      <4>1. /\ nextInput \in 1..Len(turns)
            /\ ~Broken(turns[nextInput])
            /\ nextActor = Other(turns[nextInput].actor)
            /\ \A j \in (nextInput + 1)..Len(turns) :
                 \/ Broken(turns[j])
                 \/ turns[j].step = executed + 1 /\ ~IsSimulated(j)
        BY <3>8 DEF Inv, FloorInv
      <4>2. \A j \in (nextInput + 1)..Len(turns) : Broken(turns[j])
        BY <3>6, <4>1 DEF IsSimulated, Current
      <4>3. cast = Actor => turns[nextInput].actor # t.actor
        <5>1. turns[nextInput] \in Turn
          BY <4>1, ElementOfSeq DEF Inv, TypeOK
        <5>2. turns[nextInput].actor \in Actor
          BY <5>1 DEF Turn
        <5>3. cast \in Casts
          BY DEF Inv, TypeOK
        <5>4. cast = Actor => nextActor # turns[nextInput].actor
          BY <4>1, <5>2, <5>3, OtherFacts
        <5> QED BY <3>4, <3>8, <5>4 DEF Speaker
      <4> QED BY <2>1, <3>2, <3>4, <3>5, <4>1, <4>2, <4>3
    <3> QED BY <3>7, <3>8
  <2> QED BY <2>2, <2>3
<1> QED BY <1>1, <1>2, Invariance, PTL DEF Spec

(* A segment that completes had a reason to, and no earlier one.           *)
THEOREM SegmentStopsWhenDueHolds == Spec => SegmentStopsWhenDue
<1>1. ASSUME Inv, [Next]_vars, pc = "segment", executed' = executed + 1
      PROVE  LET said == SubSeq(turns', segFrom + 1, Len(turns'))
                 n == Len(said)
             IN /\ n \in 1..Current.max_turns
                /\ \A j \in 1..(n - 1) : ~StopDue(said[j])
                /\ n < Current.max_turns => StopDue(said[n])
  <2>1. executed \in Nat /\ Len(turns) \in Nat /\ segFrom \in Nat /\ inSegment \in Nat
    <3>1. executed \in 0..Len(steps) /\ segFrom \in 0..Len(turns) /\ inSegment \in Nat
      BY <1>1 DEF Inv, TypeOK
    <3>2. Len(turns) \in Nat
      BY <1>1, NextGrows
    <3> QED BY <3>1, <3>2
  <2>2. SegmentTurn /\ executed' # executed
    BY <1>1, <2>1 DEF SegmentTurn, Next, Rest, vars, control, Queue, Materialise, BodyReturns, BodyRaises,
       MaterialiseReturns, RunCallable, RefuseFuzz, RunCheck, SendUserMessage, Reply,
       ReplyRaises, StartSegment, SegmentRaises, At, Fails
  <2>3. PICK t \in Turn : turns' = Append(turns, t) /\ LastOfSegment(t)
    BY <1>1, <2>2, SegmentTurnFacts DEF Fails
  <2>4. /\ Len(turns) = segFrom + inSegment
        /\ inSegment < Current.max_turns
        /\ \A j \in (segFrom + 1)..Len(turns) : ~StopDue(turns[j])
        /\ Current.max_turns \in Nat \ {0}
    BY <1>1, CurrentFacts, StepFacts DEF Inv, SegmentInv, AwaitInv
  <2>5. /\ turns' \in Seq(Turn) /\ Len(turns') = Len(turns) + 1
        /\ turns'[Len(turns) + 1] = t
        /\ \A k \in 1..Len(turns) : turns'[k] = turns[k]
    BY <1>1, <2>3, AppendTurn DEF Inv, TypeOK
  <2> DEFINE said == SubSeq(turns', segFrom + 1, Len(turns'))
  <2>6. /\ Len(said) = inSegment + 1
        /\ \A j \in 1..(inSegment + 1) : said[j] = turns'[segFrom + j]
    <3>1. segFrom + 1 \in 1..(Len(turns') + 1) /\ Len(turns') \in (segFrom + 1 - 1)..Len(turns')
      BY <2>1, <2>4, <2>5
    <3> QED BY <2>1, <2>4, <2>5, <3>1, SubSeqProperties
  <2> HIDE DEF said
  <2>7. \A j \in 1..inSegment : ~StopDue(said[j])
    <3> TAKE j \in 1..inSegment
    <3>1. segFrom + j \in (segFrom + 1)..Len(turns) /\ segFrom + j \in 1..Len(turns)
      BY <2>1, <2>4
    <3>2. said[j] = turns[segFrom + j]
      BY <2>1, <2>5, <2>6, <3>1
    <3> QED BY <2>4, <3>1, <3>2
  <2>8. said[inSegment + 1] = t
    BY <2>1, <2>4, <2>5, <2>6
  <2>9. inSegment + 1 < Current.max_turns => StopDue(t)
    BY <2>1, <2>3, <2>4 DEF LastOfSegment, StopDue, Eligible
  <2>10. /\ Len(said) \in 1..Current.max_turns
         /\ \A j \in 1..(Len(said) - 1) : ~StopDue(said[j])
         /\ Len(said) < Current.max_turns => StopDue(said[Len(said)])
    BY <2>1, <2>4, <2>6, <2>7, <2>8, <2>9
  <2> QED BY <2>10 DEF said
<1>2. ASSUME Inv, [Next]_vars, pc = "segment", Len(turns') = segFrom + 1,
             Len(turns) = segFrom, ~turns'[segFrom + 1].ok, ~Broken(turns'[segFrom + 1])
      PROVE  executed' = executed + 1
  <2>1. Len(turns) \in Nat /\ turns' # turns
    BY <1>2, NextGrows
  <2>2. SegmentTurn
    BY <1>2, <2>1, NextGrows DEF SendUserMessage, Reply, At
  <2>3. PICK t \in Turn : /\ turns' = Append(turns, t)
                          /\ inSegment = 0 /\ ~t.ok /\ ~Broken(t) => Succeeds
    BY <1>2, <2>2, SegmentTurnFacts
  <2>4. turns'[segFrom + 1] = t
    BY <1>2, <2>3, AppendTurn DEF Inv, TypeOK
  <2>5. inSegment = 0
    BY <1>2, <2>1 DEF Inv, TypeOK, SegmentInv
  <2> QED BY <1>2, <2>3, <2>4, <2>5 DEF Succeeds
<1> QED BY <1>1, <1>2, Invariance, PTL DEF Spec, SegmentStopsWhenDue

(* What may advance the counter.                                           *)
LEMMA CounterMoves ==
  ASSUME Inv, [Next]_vars, executed' # executed
  PROVE  /\ executed' = executed + 1 /\ executed < Len(steps)
         /\ At("callable") \/ At("check") \/ Reply \/ pc = "segment"
<1>1. RunCallable \/ RunCheck \/ Reply \/ SegmentTurn
  BY DEF SegmentTurn, Next, Rest, vars, control, Queue, Materialise, BodyReturns, BodyRaises,
     MaterialiseReturns, RefuseFuzz, SendUserMessage, ReplyRaises, StartSegment,
     SegmentRaises, Fails
<1>2. executed' = executed + 1
  BY <1>1 DEF RunCallable, RunCheck, Reply, SegmentTurn, FirstTurn, NextTurn, StopOrGoOn,
     Fails, Succeeds
<1>3. executed < Len(steps)
  BY <1>1 DEF RunCallable, RunCheck, Reply, SegmentTurn, FirstTurn, NextTurn, At, Inv,
     AwaitInv
<1> QED BY <1>1, <1>2, <1>3 DEF RunCallable, RunCheck, SegmentTurn, FirstTurn, NextTurn

(* Every completed message stands right before its answer.                 *)
THEOREM EachMessageAnsweredHolds == Spec => []EachMessageAnswered
<1> DEFINE Answered(i, k) ==
             /\ turns[k - 1].step = i /\ turns[k - 1].actor = "user"
             /\ turns[k].step = i /\ turns[k].actor = "agent"
             /\ ~Broken(turns[k]) /\ turns[k].heard = k - 1
             /\ \A j \in (k + 1)..Len(turns) : turns[j].step > i
<1>1. Init => EachMessageAnswered
  BY DEF Init, EachMessageAnswered
<1>2. Inv /\ EachMessageAnswered /\ [Next]_vars => EachMessageAnswered'
  <2> SUFFICES ASSUME Inv, EachMessageAnswered, [Next]_vars,
                      NEW i \in 1..executed', steps'[i].kind = "user_message",
                      "agent" \in cast
               PROVE  \E k \in 2..Len(turns') : Answered(i, k)'
    BY NextGrows DEF EachMessageAnswered
  <2>1. executed \in Nat /\ Len(steps) \in Nat /\ executed <= Len(steps)
    BY LenProperties DEF Inv, TypeOK
  <2>2. /\ Len(turns) \in Nat
        /\ \A j \in 1..Len(turns) : turns'[j] = turns[j]
        /\ turns' = turns \/ Len(turns') = Len(turns) + 1
    BY NextGrows
  <2>3. CASE i \in 1..executed
    <3>1. steps[i].kind = "user_message"
      BY <2>1, <2>3, NextGrows
    <3>2. PICK k \in 2..Len(turns) : Answered(i, k)
      BY <2>3, <3>1 DEF EachMessageAnswered
    <3>3. \A j \in (k + 1)..Len(turns') : turns'[j].step > i
      <4>1. turns' # turns => turns'[Len(turns) + 1].step = executed + 1 /\ Len(turns') = Len(turns) + 1
        BY NextGrows
      <4> QED BY <2>1, <2>2, <2>3, <3>2, <4>1
    <3>4. k \in 2..Len(turns') /\ turns'[k] = turns[k] /\ turns'[k - 1] = turns[k - 1]
      BY <2>2, <3>2
    <3> QED BY <3>2, <3>3, <3>4
  <2>4. CASE i \notin 1..executed
    <3>0. /\ executed' = executed + 1 /\ executed < Len(steps)
          /\ At("callable") \/ At("check") \/ Reply \/ pc = "segment"
      BY <2>1, <2>4, CounterMoves
    <3>1. executed' = executed + 1 /\ i = executed + 1
      BY <2>1, <2>4, <3>0
    <3>2. Reply
      <4>1. Current.kind = "user_message"
        BY <2>1, <3>0, <3>1, NextGrows DEF Current
      <4> QED BY <3>0, <4>1 DEF At, Inv, AwaitInv
    <3>3. PICK ok \in BOOLEAN, errs \in BOOLEAN :
            LET t == Said(Target, IF Target = "agent" THEN Len(turns) ELSE 0, ok, errs,
                          FALSE)
            IN /\ turns' = Append(turns, t)
               /\ IF Broken(t) THEN Fails /\ UNCHANGED started
                  ELSE Succeeds /\ started' = TRUE
      BY <3>2, ErrFacts DEF Reply
    <3> DEFINE t == Said("agent", Len(turns), ok, errs, FALSE)
    <3>4. Target = "agent"
      BY DEF Target
    <3>5. turns' = Append(turns, t) /\ ~Broken(t)
      <4>1. ~Fails
        BY <2>1, <3>1 DEF Fails
      <4>2. LET u == Said(Target, IF Target = "agent" THEN Len(turns) ELSE 0, ok, errs, FALSE)
            IN turns' = Append(turns, u) /\ ~Broken(u)
        BY <3>3, <4>1
      <4> QED BY <3>4, <4>2
    <3>6. t \in Turn /\ t.actor = "agent" /\ t.step = i /\ t.heard = Len(turns)
      BY <2>1, <2>2, <3>1 DEF Said, Turn, Actor
    <3> HIDE DEF t
    <3>8. turns' \in Seq(Turn) /\ Len(turns') = Len(turns) + 1 /\ turns'[Len(turns) + 1] = t
      BY <3>5, <3>6, AppendTurn DEF Inv, TypeOK
    <3>9. /\ turns # <<>>
          /\ turns[Len(turns)].actor = "user"
          /\ turns[Len(turns)].step = i
      BY <3>1, <3>2, <3>4 DEF Reply, Inv, MessageInv
    <3>10. Len(turns) \in 1..Len(turns)
      BY <2>2, <3>9, EmptySeq DEF Inv, TypeOK
    <3> DEFINE k == Len(turns) + 1
    <3>11. k \in 2..Len(turns') /\ k - 1 = Len(turns) /\ turns'[k - 1] = turns[Len(turns)]
      BY <2>2, <3>8, <3>10
    <3>12. \A j \in (k + 1)..Len(turns') : turns'[j].step > i
      BY <2>2, <3>8
    <3>13. turns'[k] = t
      BY <3>8
    <3> HIDE DEF k
    <3>14. /\ turns'[k - 1].step = i /\ turns'[k - 1].actor = "user"
           /\ turns'[k].step = i /\ turns'[k].actor = "agent"
           /\ ~Broken(turns'[k]) /\ turns'[k].heard = k - 1
      BY <3>5, <3>6, <3>9, <3>11, <3>13
    <3> QED BY <3>11, <3>12, <3>14 DEF Broken
  <2> QED BY <2>3, <2>4
<1> QED BY <1>1, <1>2, Invariance, PTL DEF Spec

(* An open check is about the agent unless a simulated turn came last.     *)
THEOREM OpenCheckSeesAgentHolds == Spec => []OpenCheckSeesAgent
<1>1. Init => OpenCheckSeesAgent
  BY DEF Init, OpenCheckSeesAgent
<1>2. Inv /\ OpenCheckSeesAgent /\ [Next]_vars => OpenCheckSeesAgent'
  <2> SUFFICES ASSUME Inv, OpenCheckSeesAgent, [Next]_vars,
                      NEW c \in subjects',
                      steps'[c.step].actor = NoActor, steps'[c.step].turn = "last",
                      "agent" \in cast,
                      NEW k \in c.seen
               PROVE  turns'[k].actor = "agent" \/ IsSimulated(k)'
    BY NextGrows DEF OpenCheckSeesAgent
  <2>1. CASE c \in subjects
    <3>1. c.step \in 1..Len(steps) /\ k \in 1..Len(turns)
      BY <2>1 DEF Inv, TypeOK
    <3>2. steps[c.step].actor = NoActor /\ steps[c.step].turn = "last"
      BY <3>1, NextGrows
    <3>3. turns[k].actor = "agent" \/ IsSimulated(k)
      BY <2>1, <3>2 DEF OpenCheckSeesAgent
    <3> QED BY <3>1, <3>3, NextGrows
  <2>2. CASE c \notin subjects
    <3>1. RunCheck /\ subjects' # subjects
      BY <2>2 DEF Next, Rest, vars, history, Queue, Materialise, BodyReturns, BodyRaises,
         MaterialiseReturns, RunCallable, RefuseFuzz, SendUserMessage, Reply, ReplyRaises,
         StartSegment, FirstTurn, NextTurn, SegmentRaises
    <3>2. /\ turns # <<>> /\ At("check") /\ steps' = steps /\ turns' = turns
          /\ subjects' = subjects \cup {[step |-> executed + 1, seen |-> Subject(Current)]}
      BY <3>1 DEF RunCheck, talk
    <3>3. c.step = executed + 1 /\ k \in Subject(Current)
      BY <2>2, <3>2
    <3>4. Current.actor = NoActor /\ Current.turn = "last"
      BY <3>2, <3>3 DEF Current
    <3>5. Len(turns) \in 1..Len(turns) /\ Len(turns) \in Nat
      BY <3>2, EmptySeq, LenProperties DEF Inv, TypeOK
    <3>6. k = Len(turns)
      <4>1. SubjectActor(Current) = turns[Len(turns)].actor
        BY <3>2, <3>4 DEF SubjectActor, DefaultActor
      <4>2. Len(turns) \in TurnsOf(SubjectActor(Current))
        BY <3>5, <4>1 DEF TurnsOf
      <4>3. k \in 1..Len(turns) /\ Len(turns) <= k
        BY <3>3, <3>4, <4>2 DEF Subject, TurnsOf
      <4> QED BY <3>5, <4>3
    <3>7. turns[k].step # executed + 1
      <4>1. steps[turns[k].step].kind \in {"user_message", "simulate"}
        BY <3>5, <3>6 DEF Inv, StepInv
      <4> QED BY <3>2, <4>1 DEF At, Current
    <3> QED BY <3>2, <3>6, <3>7 DEF Inv, LastTurnInv, IsSimulated
  <2> QED BY <2>1, <2>2
<1> QED BY <1>1, <1>2, Invariance, PTL DEF Spec

=============================================================================
