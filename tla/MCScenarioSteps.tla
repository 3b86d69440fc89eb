--------------------------- MODULE MCScenarioSteps ---------------------------
(* Small instances of ScenarioSteps.                                       *)
EXTENDS ScenarioSteps

AllCasts == (SUBSET Actor) \ {{}}
Both == {Actor}

(* Messages and segments that use up their turns or stop early, one step   *)
(* of every other kind, and the three ways a check names its turns.        *)
EveryKind ==
  {UserMessage, FuzzConversation, Callable,
   Simulate(2, "any", "user"), Simulate(3, "agent", "agent"), Simulate(1, "never", NoActor),
   Check("last", NoActor), Check("last", "user"), Check("up_to_now", "agent")}

=============================================================================
