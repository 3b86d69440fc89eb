----------------------------- MODULE MCAgentTurn -----------------------------
(* Small instances of AgentTurn.                                           *)
EXTENDS AgentTurn, FiniteSets, TLC

Calls == Permutations(Call)

(* Texts are streamed in turns of at most two calls.                       *)
TextsOrCalls ==
  texts = <<>> \/ Cardinality({c \in Call : call[c] # "waiting"}) <= 2

=============================================================================
