---------------------------- MODULE ScenarioSteps ----------------------------
(***************************************************************************)
(* A Scenario of scenario_core.py while its body runs.  The body queues    *)
(* steps and calls materialise, which runs the steps not yet executed; a   *)
(* body that catches what materialise raised may call it again, and the    *)
(* runner calls it once more for the steps still pending when the body     *)
(* returns.                                                                *)
(*                                                                         *)
(* A turn's output is identified with the position of the turn in the      *)
(* transcript; 0 stands for a text the body wrote.  The status of a turn,  *)
(* whether it carries an error text, and whether its output matches the    *)
(* stop condition, what actions, assertions and matchers return, and every *)
(* exception out of an await are choices of the environment.               *)
(***************************************************************************)
EXTENDS Integers, Sequences

CONSTANTS
  Casts,        \* who may take part: subsets of {"agent", "user"}
  StepSet,      \* the steps a body may queue
  MaxSteps,     \* bound: steps queued
  MaxCalls,     \* bound: calls of materialise by the body
  MaxTurns      \* bound: turns in the transcript

Actor == {"agent", "user"}
NoActor == "none"

(* A step; the fields a kind has no use for are absent.                    *)
UserMessage == [kind |-> "user_message"]
FuzzConversation == [kind |-> "fuzz"]

(* action(fn) and assert_that(fn): a callable that returns or raises.      *)
Callable == [kind |-> "callable"]

(* stop_on = "never" is a segment without stop_condition.                  *)
Simulate(max_turns, stop_on, seed) ==
  [kind |-> "simulate", max_turns |-> max_turns, stop_on |-> stop_on,
   seed |-> seed]

(* assert_output, assert_tool_calls, forbid_tool_calls.                    *)
Check(turn, actor) == [kind |-> "check", turn |-> turn, actor |-> actor]

IsStep(s) ==
  \/ s \in {UserMessage, FuzzConversation, Callable}
  \/ /\ s.kind = "simulate"
     /\ s = Simulate(s.max_turns, s.stop_on, s.seed)
     /\ s.max_turns \in Nat \ {0}
     /\ s.stop_on \in Actor \cup {"any", "never"}
     /\ s.seed \in Actor \cup {NoActor}
  \/ /\ s.kind = "check"
     /\ s = Check(s.turn, s.actor)
     /\ s.turn \in {"last", "up_to_now"}
     /\ s.actor \in Actor \cup {NoActor}

ASSUME StepsAssumption ==
  /\ Casts \subseteq (SUBSET Actor) \ {{}}
  /\ \A s \in StepSet : IsStep(s)
  /\ MaxSteps \in Nat
  /\ MaxCalls \in Nat
  /\ MaxTurns \in Nat

VARIABLES
  cast,         \* the adapted agents given to create_scenario
  pc,           \* "body", "loop" (of materialise), "reply", "segment" (awaits), "over"
  runner,       \* has the body returned, so that the runner materialises?
  calls,        \* calls of materialise by the body so far
  outcome,      \* "passed", "raised", or "none" while it runs
  steps,        \* _steps
  executed,     \* _executed_until
  turns,        \* _turn_results
  started,      \* _simulation_started
  nextActor,    \* _next_actor
  nextInput,    \* _next_input
  inSegment,    \* turns_in_segment of the segment under way
  segFrom,      \* history: length of the transcript when that segment began
  passedSteps,  \* history: the steps that ran to their end without raising
  subjects      \* history: the checks that passed, with the turns they looked at

vars == <<cast, pc, runner, calls, outcome, steps, executed, turns, started,
          nextActor, nextInput, inSegment, segFrom, passedSteps, subjects>>

control == <<pc, runner, calls, outcome>>
talk == <<turns, started, nextActor, nextInput>>
segment == <<inSegment, segFrom>>
history == <<passedSteps, subjects>>

Init ==
  /\ cast \in Casts
  /\ pc = "body" /\ runner = FALSE /\ calls = 0 /\ outcome = "none"
  /\ steps = <<>> /\ executed = 0
  /\ turns = <<>> /\ started = FALSE
  /\ nextActor = NoActor /\ nextInput = 0
  /\ inSegment = 0 /\ segFrom = 0
  /\ passedSteps = {} /\ subjects = {}

-----------------------------------------------------------------------------
(* The body, and the runner around it.                                     *)

Queue(s) ==
  /\ pc = "body"
  /\ Len(steps) < MaxSteps
  /\ steps' = Append(steps, s)
  /\ UNCHANGED <<cast, control, executed, talk, segment, history>>

Materialise ==
  /\ pc = "body"
  /\ calls < MaxCalls
  /\ calls' = calls + 1
  /\ pc' = "loop"
  /\ UNCHANGED <<cast, runner, outcome, steps, executed, talk, segment, history>>

BodyReturns ==
  /\ pc = "body"
  /\ IF executed < Len(steps)
     THEN pc' = "loop" /\ runner' = TRUE /\ UNCHANGED outcome
     ELSE pc' = "over" /\ outcome' = "passed" /\ UNCHANGED runner
  /\ UNCHANGED <<cast, calls, steps, executed, talk, segment, history>>

(* The body raises, be it what materialise raised before.                  *)
BodyRaises ==
  /\ pc = "body"
  /\ pc' = "over"
  /\ outcome' = "raised"
  /\ UNCHANGED <<cast, runner, calls, steps, executed, talk, segment, history>>

MaterialiseReturns ==
  /\ pc = "loop"
  /\ executed = Len(steps)
  /\ pc' = IF runner THEN "over" ELSE "body"
  /\ outcome' = IF runner THEN "passed" ELSE outcome
  /\ UNCHANGED <<cast, runner, calls, steps, executed, talk, segment, history>>

-----------------------------------------------------------------------------
(* How one step of the queue ends.                                         *)

Current == steps[executed + 1]

At(kind) == pc = "loop" /\ executed < Len(steps) /\ Current.kind = kind

Succeeds ==
  /\ executed' = executed + 1
  /\ pc' = "loop"
  /\ passedSteps' = passedSteps \cup {executed + 1}
  /\ UNCHANGED <<runner, outcome>>

(* Mutant: the counter advances although the step raised.                  *)
FailsPastStep ==
  /\ executed' = executed + 1
  /\ pc' = IF runner THEN "over" ELSE "body"
  /\ outcome' = IF runner THEN "raised" ELSE outcome
  /\ UNCHANGED <<runner, passedSteps>>

(* Mutant: the loop tries a step that raised again, until it passes.       *)
FailsRetried ==
  /\ pc' = "loop"
  /\ UNCHANGED <<runner, outcome, executed, passedSteps>>

(* The exception leaves materialise, with _executed_until at this step.    *)
Fails ==
  /\ pc' = IF runner THEN "over" ELSE "body"
  /\ outcome' = IF runner THEN "raised" ELSE outcome
  /\ UNCHANGED <<runner, executed, passedSteps>>

RunCallable ==
  /\ At("callable")
  /\ Succeeds \/ Fails
  /\ UNCHANGED <<cast, calls, steps, talk, segment, subjects>>

RefuseFuzz ==
  /\ At("fuzz")
  /\ Fails
  /\ UNCHANGED <<cast, calls, steps, talk, segment, subjects>>

-----------------------------------------------------------------------------
(* Assertions about the conversation.                                      *)

DefaultActor == IF turns = <<>> THEN "agent" ELSE turns[Len(turns)].actor

SubjectActor(s) == IF s.actor = NoActor THEN DefaultActor ELSE s.actor

TurnsOf(a) == {k \in 1..Len(turns) : turns[k].actor = a}

Subject(s) ==
  LET of == TurnsOf(SubjectActor(s)) IN
  IF s.turn = "last" THEN {k \in of : \A j \in of : j <= k} ELSE of

(* Without a turn to look at the check raises AssertionError.              *)
RunCheck ==
  /\ At("check")
  /\ \/ /\ turns # <<>>
        /\ Current.turn = "last" => Subject(Current) # {}
        /\ Succeeds
        /\ subjects' = subjects \cup
             {[step |-> executed + 1, seen |-> Subject(Current)]}
     \/ Fails /\ UNCHANGED subjects
  /\ UNCHANGED <<cast, calls, steps, talk, segment>>

-----------------------------------------------------------------------------
(* Turns.                                                                  *)

(* ok: status is "ok".  errs: _agent_turn_error_messages finds a text.     *)
Turn == [actor : Actor, heard : Nat, step : Nat \ {0}, ok : BOOLEAN,
         errs : BOOLEAN, matches : BOOLEAN]

Said(a, heard, ok, errs, matches) ==
  [actor |-> a, heard |-> heard, step |-> executed + 1, ok |-> ok,
   errs |-> errs, matches |-> matches]

(* Only an agent's turn is searched for error texts.  They do not follow   *)
(* from the status: an error "" is no text and does not count as missing   *)
(* either, and the events of a turn with status "ok" may hold one.         *)
MayErr(a) == IF a = "agent" THEN BOOLEAN ELSE {FALSE}

(* _raise_if_agent_turn_errors.                                            *)
Broken(t) == t.errs

(* _other_actor: with one adapted agent, it goes on talking to itself.     *)
Other(a) ==
  IF cast = Actor THEN (CHOOSE b \in Actor : b # a) ELSE a

(* Mutant: the floor passes on before the turn is looked at.               *)
HandOverAlways(t) ==
  /\ nextInput' = Len(turns) + 1
  /\ nextActor' = Other(t.actor)

(* A broken turn raises before _next_input and _next_actor are set.        *)
HandOver(t) ==
  IF Broken(t) THEN UNCHANGED <<nextInput, nextActor>>
  ELSE /\ nextInput' = Len(turns) + 1
       /\ nextActor' = Other(t.actor)

-----------------------------------------------------------------------------
(* user_message.                                                           *)

Target == IF "agent" \in cast THEN "agent" ELSE "user"

(* The agent's turn is preceded by a turn of the user that holds the text. *)
SendUserMessage ==
  /\ At("user_message")
  /\ Len(turns) < MaxTurns
  /\ turns' = IF Target = "agent"
              THEN Append(turns, Said("user", 0, TRUE, FALSE, FALSE))
              ELSE turns
  /\ pc' = "reply"
  /\ UNCHANGED <<cast, runner, calls, outcome, steps, executed, started,
                 nextActor, nextInput, segment, history>>

(* Mutant: the answer is put before the message it answers.                *)
ReplySwapped ==
  /\ pc = "reply"
  /\ \E ok \in BOOLEAN, errs \in MayErr(Target) :
       LET t == Said(Target, IF Target = "agent" THEN Len(turns) ELSE 0, ok, errs,
                     FALSE)
       IN /\ turns' = IF Target = "agent"
                      THEN SubSeq(turns, 1, Len(turns) - 1)
                             \o <<t, turns[Len(turns)]>>
                      ELSE Append(turns, t)
          /\ HandOver(t)
          /\ IF Broken(t) THEN Fails /\ UNCHANGED started
             ELSE Succeeds /\ started' = TRUE
  /\ UNCHANGED <<cast, calls, steps, segment, subjects>>

Reply ==
  /\ pc = "reply"
  /\ \E ok \in BOOLEAN, errs \in MayErr(Target) :
       LET t == Said(Target, IF Target = "agent" THEN Len(turns) ELSE 0, ok, errs,
                     FALSE)
       IN /\ turns' = Append(turns, t)
          /\ HandOver(t)
          /\ IF Broken(t) THEN Fails /\ UNCHANGED started
             ELSE Succeeds /\ started' = TRUE
  /\ UNCHANGED <<cast, calls, steps, segment, subjects>>

(* Mutant: an adapter that raises is taken for an empty answer.            *)
ReplyRaisesSwallowed ==
  /\ pc = "reply"
  /\ Succeeds
  /\ UNCHANGED <<cast, calls, steps, talk, segment, subjects>>

(* The adapter raises, or the timeout of the job cancels it.               *)
ReplyRaises ==
  /\ pc = "reply"
  /\ Fails
  /\ UNCHANGED <<cast, calls, steps, talk, segment, subjects>>

-----------------------------------------------------------------------------
(* simulate_conversation.                                                  *)

First == ~started /\ turns = <<>>

(* The seed must name somebody present; only a first segment reads it.     *)
StartSegment ==
  /\ At("simulate")
  /\ started' = (started \/ (First /\ Current.seed # NoActor))
  /\ IF IF First THEN Current.seed \in cast ELSE nextActor # NoActor
     THEN /\ pc' = "segment"
          /\ inSegment' = 0 /\ segFrom' = Len(turns)
          /\ UNCHANGED <<runner, outcome, executed, passedSteps>>
     ELSE Fails /\ UNCHANGED segment
  /\ UNCHANGED <<cast, calls, steps, turns, nextActor, nextInput, subjects>>

Speaker == IF nextActor = NoActor THEN Current.seed ELSE nextActor

Eligible(t) == Current.stop_on \in {"any", t.actor}

(* A turn of the segment: appended whatever it is, and the floor passes on *)
(* unless it carries an error text.                                        *)
Speaks(t) ==
  /\ turns' = Append(turns, t)
  /\ HandOver(t)
  /\ inSegment' = inSegment + 1

(* Mutant: the first turn is not counted.                                  *)
LastOfSegmentLate(t) ==
  \/ ~t.ok
  \/ Eligible(t) /\ t.matches
  \/ inSegment >= Current.max_turns

(* What makes the turn t, appended, the last one of its segment.           *)
LastOfSegment(t) ==
  \/ ~t.ok
  \/ Eligible(t) /\ t.matches
  \/ inSegment + 1 >= Current.max_turns

(* The matcher of the stop condition is asked, and may raise, before the   *)
(* status and the budget are looked at.                                    *)
StopOrGoOn(t) ==
  \/ Eligible(t) /\ Fails
  \/ IF LastOfSegment(t) THEN Succeeds
     ELSE UNCHANGED <<pc, runner, outcome, executed, passedSteps>>

(* The matcher is asked about the turns it may stop at, unless they raise. *)
Utterances ==
  {t \in {Said(Speaker, nextInput, ok, errs, matches) :
            ok \in BOOLEAN, errs \in MayErr(Speaker), matches \in BOOLEAN} :
     t.matches => Eligible(t) /\ ~Broken(t)}

(* The turn that opens a segment: if it is not ok, nobody asks the matcher.*)
FirstTurn ==
  /\ pc = "segment" /\ inSegment = 0
  /\ Len(turns) < MaxTurns
  /\ \E t \in Utterances :
       /\ Speaks(t)
       /\ IF Broken(t) THEN Fails
          ELSE IF ~t.ok THEN Succeeds
          ELSE StopOrGoOn(t)
  /\ UNCHANGED <<cast, calls, steps, started, segFrom, subjects>>

(* A turn of the loop, where the matcher comes first.                      *)
NextTurn ==
  /\ pc = "segment" /\ inSegment > 0
  /\ Len(turns) < MaxTurns
  /\ \E t \in Utterances :
       /\ Speaks(t)
       /\ IF Broken(t) THEN Fails ELSE StopOrGoOn(t)
  /\ UNCHANGED <<cast, calls, steps, started, segFrom, subjects>>

SegmentRaises ==
  /\ pc = "segment"
  /\ Fails
  /\ UNCHANGED <<cast, calls, steps, talk, segment, subjects>>

-----------------------------------------------------------------------------
Rest == pc = "over" /\ UNCHANGED vars

Next ==
  \/ \E s \in StepSet : Queue(s)
  \/ Materialise
  \/ BodyReturns
  \/ BodyRaises
  \/ MaterialiseReturns
  \/ RunCallable
  \/ RefuseFuzz
  \/ RunCheck
  \/ SendUserMessage
  \/ Reply
  \/ ReplyRaises
  \/ StartSegment
  \/ FirstTurn
  \/ NextTurn
  \/ SegmentRaises
  \/ Rest

Spec == Init /\ [][Next]_vars

(* asyncio goes on with what is ready; whom it awaits answers in the end,  *)
(* or raises; the body is a finite program.                                *)
FairSpec == Spec /\ WF_vars(Next)

-----------------------------------------------------------------------------
(* Every variable keeps its type.                                          *)
TypeOK ==
  /\ cast \in Casts
  /\ pc \in {"body", "loop", "reply", "segment", "over"}
  /\ runner \in BOOLEAN
  /\ calls \in 0..MaxCalls
  /\ outcome \in {"none", "passed", "raised"}
  /\ steps \in Seq(StepSet)
  /\ executed \in 0..Len(steps)
  /\ turns \in Seq(Turn)
  /\ started \in BOOLEAN
  /\ nextActor \in cast \cup {NoActor}
  /\ nextInput \in 0..Len(turns)
  /\ inSegment \in Nat
  /\ segFrom \in 0..Len(turns)
  /\ passedSteps \subseteq 1..Len(steps)
  /\ subjects \subseteq [step : 1..Len(steps), seen : SUBSET (1..Len(turns))]

IsSimulated(k) == steps[turns[k].step].kind = "simulate"

(***************************************************************************)
(* A simulated turn that continues the conversation answers the last turn  *)
(* that did not raise: it never hears a turn with error texts, never one   *)
(* that another turn without them has followed, and with two adapted       *)
(* agents never its own.  Between the turn heard and the one that hears it *)
(* stand only turns of attempts that raised.  A turn with a bad status and *)
(* no text is answered like any other                                      *)
(* (scenario_core.py:558-568, 605-635, 653-664, 814-826).                  *)
(***************************************************************************)
ConversationIsChain ==
  \A k \in 1..Len(turns) : IsSimulated(k) =>
    LET h == turns[k].heard IN
    IF h = 0
    THEN \A j \in 1..(k - 1) : Broken(turns[j])
    ELSE /\ h < k
         /\ ~Broken(turns[h])
         /\ cast = Actor => turns[h].actor # turns[k].actor
         /\ \A j \in (h + 1)..(k - 1) : Broken(turns[j])

(***************************************************************************)
(* A segment that completes had a reason to: its last turn is one that was *)
(* not ok, or that matched the stop condition for its actor, or the one    *)
(* that used up max_turns; and no earlier turn of it was any of these.     *)
(* And one that is opened by a turn that was not ok, but carries no error  *)
(* text, completes: only later turns are shown to the matcher before their *)
(* status is looked at, and may fail it                                    *)
(* (_run_simulation_segment, scenario_core.py:570-645).                    *)
(***************************************************************************)
StopDue(t) ==
  \/ ~t.ok
  \/ Current.stop_on \in {"any", t.actor} /\ t.matches

SegmentStopsWhenDue ==
  [][ /\ pc = "segment" /\ executed' = executed + 1 =>
           LET said == SubSeq(turns', segFrom + 1, Len(turns'))
               n == Len(said)
           IN /\ n \in 1..Current.max_turns
              /\ \A j \in 1..(n - 1) : ~StopDue(said[j])
              /\ n < Current.max_turns => StopDue(said[n])
      /\ pc = "segment" /\ Len(turns') = segFrom + 1 =>
           LET t == turns'[segFrom + 1]
           IN Len(turns) = segFrom /\ ~t.ok /\ ~Broken(t) => executed' = executed + 1
    ]_vars

(***************************************************************************)
(* Every message of a completed user_message step stands in the transcript *)
(* directly before a turn of the agent that heard it and carries no error  *)
(* text, and nothing of that step follows, however often it was tried      *)
(* before (scenario_core.py:647-664, 814-832).                             *)
(***************************************************************************)
EachMessageAnswered ==
  \A i \in 1..executed :
    steps[i].kind = "user_message" /\ "agent" \in cast =>
      \E k \in 2..Len(turns) :
        /\ turns[k - 1].step = i /\ turns[k - 1].actor = "user"
        /\ turns[k].step = i /\ turns[k].actor = "agent"
        /\ ~Broken(turns[k]) /\ turns[k].heard = k - 1
        /\ \A j \in (k + 1)..Len(turns) : turns[j].step > i

(***************************************************************************)
(* A check that leaves its actor open looks at what the agent did, unless  *)
(* the conversation so far ended with a simulated turn or has no agent: a  *)
(* message that got no answer is never what a check is about               *)
(* (scenario_core.py:509-521, 653-660).                                    *)
(***************************************************************************)
OpenCheckSeesAgent ==
  \A c \in subjects :
    /\ steps[c.step].actor = NoActor
    /\ steps[c.step].turn = "last"
    /\ "agent" \in cast
    => \A k \in c.seen : turns[k].actor = "agent" \/ IsSimulated(k)

(***************************************************************************)
(* A scenario passes only when every step it queued ran to its end without *)
(* raising, also the one at which an exception that the body swallowed     *)
(* stopped materialise (scenario_core.py:523-530, runner.py:271-274).      *)
(***************************************************************************)
PassedMeansEveryStep == outcome = "passed" => passedSteps = 1..Len(steps)

(***************************************************************************)
(* Whom a conversation awaits answers or raises, and then the scenario     *)
(* ends: no segment goes on for ever.                                      *)
(***************************************************************************)
ScenarioEnds == <>(pc = "over")

=============================================================================
