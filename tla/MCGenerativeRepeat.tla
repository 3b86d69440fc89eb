-------------------------- MODULE MCGenerativeRepeat --------------------------
(* Small instances of GenerativeRepeat.                                    *)
EXTENDS GenerativeRepeat

Words == {"loud", "calm", "odd"}
Calmer == [w \in Words |-> IF w = "loud" THEN "calm" ELSE w]

LoudCalm == {"loud", "calm"}
LoudCalmer == [w \in LoudCalm |-> "calm"]

(* One generative step in two trials, two of them in one.                  *)
OneSegment ==
  {[steps |-> s, trials |-> 2] :
     s \in {<<"fuzz", "check">>, <<"check", "simulate", "check">>, <<"message", "check">>}}
TwoSegments ==
  {[steps |-> s, trials |-> 1] :
     s \in {<<"fuzz", "check", "simulate", "check">>, <<"fuzz", "message", "fuzz", "check">>}}
Continued ==
  {[steps |-> s, trials |-> 1] :
     s \in {<<"simulate", "check", "simulate", "check">>, <<"simulate", "message", "check">>}}
AllScenarios == OneSegment \cup TwoSegments \cup Continued

Agreeable == {[breaks |-> {}, upsets |-> {}]}
Upset == {[breaks |-> {}, upsets |-> {"loud"}]}
Fragile == {[breaks |-> {"odd"}, upsets |-> {"loud"}]}
Touchy == Agreeable \cup Upset \cup Fragile

AllFlags == BOOLEAN \X BOOLEAN
BothFlags == {<<TRUE, TRUE>>}

=============================================================================
