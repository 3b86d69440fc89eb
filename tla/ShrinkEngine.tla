----------------------------- MODULE ShrinkEngine -----------------------------
(***************************************************************************)
(* shrink_user_turns of shrink_engine.py: the passes of a ShrinkConfig,    *)
(* one after the other, over the user turns of one generative step.  A     *)
(* round of a pass builds candidates, has them verified, and goes on with  *)
(* the smallest of those that reproduced the failure.                      *)
(*                                                                         *)
(* To verify a candidate is to run the scenario confirm_runs times; here   *)
(* it is a choice.  A deterministic agent answers the same to the same     *)
(* candidate; a flaky one need not.                                        *)
(***************************************************************************)
EXTENDS ShrinkPasses, FiniteSets

CONSTANTS
  Originals,    \* the conversations that failed
  Settings,     \* of ShrinkConfig: <<passes, max_attempts_per_shrink>>, with
                \* Unlimited for None
  Flaky,        \* may the same candidate reproduce once and not again?
  MaxProposals, \* bound: variants an LLM proposes for a message
  MaxCount      \* bound: the counters stop here; no decision reads them

PassKind == {"remove_user_turns", "simplify_user_messages", "llm_semantic_simplify"}

ASSUME ShrinkAssumption ==
  /\ Originals \subseteq Seq(Seq(Letter))
  /\ Settings \subseteq (Seq(PassKind) \ {<<>>}) \X ((Nat \ {0}) \cup {Unlimited})
  /\ Flaky \in BOOLEAN
  /\ MaxProposals \in Nat
  /\ MaxCount \in Nat \ {0}
  /\ \A s \in Settings : s[2] < MaxCount

VARIABLES
  original,     \* what shrink_user_turns was given
  passes,       \* shrinking.passes
  cap,          \* shrinking.max_attempts_per_shrink
  turns,        \* current
  pass,         \* the pass under way; Len(passes) + 1 after the last one
  budget,       \* what is left of the cap
  total,        \* total_candidates
  at,           \* the message the LLM pass is at
  tried,        \* candidates_evaluated of the LLM pass
  state,        \* "shrinking", "done", or "raised" (a verification raised)
  reproduced,   \* history: the candidates that once reproduced the failure
  refuted,      \* history: the candidates that once did not
  batches       \* history: how often a batch was verified

vars == <<original, passes, cap, turns, pass, budget, total, at, tried, state,
          reproduced, refuted, batches>>

given == <<original, passes, cap>>

Init ==
  /\ original \in Originals
  /\ \E s \in Settings : passes = s[1] /\ cap = s[2]
  /\ turns = original
  /\ pass = 1
  /\ budget = cap
  /\ total = 0
  /\ at = 1 /\ tried = 0
  /\ state = "shrinking"
  /\ reproduced = {original} /\ refuted = {}
  /\ batches = 0

-----------------------------------------------------------------------------
Running(kind) ==
  /\ state = "shrinking"
  /\ pass <= Len(passes)
  /\ passes[pass] = kind
  /\ budget # 0

(* Which of the candidates reproduce the failure.                          *)
Outcomes(cands) ==
  {wins \in SUBSET DOMAIN cands :
     ~Flaky =>
       /\ \A i, j \in DOMAIN cands : cands[i] = cands[j] /\ i \in wins => j \in wins
       /\ \A i \in DOMAIN cands :
            /\ cands[i] \in reproduced => i \in wins
            /\ cands[i] \in refuted => i \notin wins}

(* The counters are reports: only what LlmPassEnds takes from the budget   *)
(* is read off one, and there MaxCount is above every cap.                 *)
Counted(n, k) == IF n + k <= MaxCount THEN n + k ELSE MaxCount

Verified(cands, wins) ==
  /\ reproduced' = reproduced \cup {cands[i] : i \in wins}
  /\ refuted' = refuted \cup {cands[i] : i \in DOMAIN cands \ wins}
  /\ batches' = Counted(batches, 1)

(* Mutant: the pass is over after one round.                               *)
RoundOnce(cands) ==
  \E wins \in Outcomes(cands) :
    /\ Verified(cands, wins)
    /\ budget' = Spend(budget, Len(cands))
    /\ total' = Counted(total, Len(cands))
    /\ turns' = IF wins # {} THEN Best(cands, wins) ELSE turns
    /\ pass' = pass + 1

(* A round verifies at least one candidate; the pass ends with the first   *)
(* round that nothing came of.                                             *)
Round(cands) ==
  \E wins \in Outcomes(cands) :
    /\ Verified(cands, wins)
    /\ budget' = Spend(budget, Len(cands))
    /\ total' = Counted(total, Len(cands))
    /\ turns' = IF wins # {} THEN Best(cands, wins) ELSE turns
    /\ pass' = IF wins # {} THEN pass ELSE pass + 1

Candidates(kind) ==
  Take(IF kind = "remove_user_turns" THEN Removals(turns) ELSE Simplifications(turns),
       budget)

DeterministicRound(kind) ==
  /\ Running(kind)
  /\ Candidates(kind) # <<>>
  /\ Round(Candidates(kind))
  /\ UNCHANGED <<given, at, tried, state>>

DeterministicPassEnds(kind) ==
  /\ Running(kind)
  /\ Candidates(kind) = <<>>
  /\ pass' = pass + 1
  /\ UNCHANGED <<given, turns, budget, total, at, tried, state, reproduced,
                 refuted, batches>>

-----------------------------------------------------------------------------
(* llm_semantic_simplify.                                                  *)

LlmRunning == Running("llm_semantic_simplify")

(* Shorter messages, as the prompt asks for and the loop checks.           *)
Proposals(msg) ==
  UNION {[1..n -> UNION {[1..k -> Letter] : k \in 1..(Len(msg) - 1)}] :
           n \in 0..MaxProposals}

(* One message: without proposals, or without one that reproduces, the     *)
(* loop goes to the next message; otherwise it starts over.                *)
Propose ==
  /\ LlmRunning
  /\ at <= Len(turns)
  /\ \E messages \in Proposals(turns[at]) :
       LET cands == Replacing(turns, at, messages) IN
       IF cands = <<>>
       THEN at' = at + 1 /\ UNCHANGED <<turns, tried, reproduced, refuted, batches>>
       ELSE \E wins \in Outcomes(cands) :
              /\ Verified(cands, wins)
              /\ tried' = Counted(tried, Len(cands))
              /\ IF wins # {}
                 THEN turns' = Best(cands, wins) /\ at' = 1
                 ELSE at' = at + 1 /\ UNCHANGED turns
  /\ UNCHANGED <<given, pass, budget, total, state>>

(* Mutant: the loop forgets to reset what tells it that something changed. *)
LlmPassRestarts ==
  /\ LlmRunning
  /\ at > Len(turns)
  /\ at' = 1
  /\ UNCHANGED <<given, turns, pass, budget, total, tried, state, reproduced,
                 refuted, batches>>

(* What the pass reports is cut down to the budget it was given.           *)
LlmPassEnds ==
  /\ LlmRunning
  /\ at > Len(turns)
  /\ LET n == IF budget = Unlimited \/ tried <= budget THEN tried ELSE budget
     IN  total' = Counted(total, n) /\ budget' = Spend(budget, n)
  /\ pass' = pass + 1
  /\ at' = 1 /\ tried' = 0
  /\ UNCHANGED <<given, turns, state, reproduced, refuted, batches>>

(* Without an API key or a model the pass does nothing.                    *)
LlmUnavailable ==
  /\ LlmRunning
  /\ at = 1 /\ tried = 0
  /\ pass' = pass + 1
  /\ UNCHANGED <<given, turns, budget, total, at, tried, state, reproduced,
                 refuted, batches>>

-----------------------------------------------------------------------------
Return ==
  /\ state = "shrinking"
  /\ pass > Len(passes) \/ budget = 0
  /\ state' = "done"
  /\ UNCHANGED <<given, turns, pass, budget, total, at, tried, reproduced,
                 refuted, batches>>

(* A verification, or the call of the LLM, raises: shrink_one_step falls   *)
(* back on what it was given.                                              *)
VerificationRaises ==
  /\ state = "shrinking"
  /\ pass <= Len(passes) /\ budget # 0
  /\ state' = "raised"
  /\ turns' = original
  /\ UNCHANGED <<given, pass, budget, total, at, tried, reproduced, refuted, batches>>

Rest == state # "shrinking" /\ UNCHANGED vars

Next ==
  \/ \E kind \in {"remove_user_turns", "simplify_user_messages"} :
       DeterministicRound(kind) \/ DeterministicPassEnds(kind)
  \/ Propose
  \/ LlmPassEnds
  \/ LlmUnavailable
  \/ Return
  \/ VerificationRaises
  \/ Rest

Spec == Init /\ [][Next]_vars

(* The engine goes on whenever its verifications answer.                   *)
FairSpec == Spec /\ WF_vars(Next)

-----------------------------------------------------------------------------
(* Every variable keeps its type.                                          *)
TypeOK ==
  /\ original \in Originals
  /\ <<passes, cap>> \in Settings
  /\ turns \in Seq(Seq(Letter))
  /\ pass \in 1..(Len(passes) + 1)
  /\ budget \in Nat \cup {Unlimited}
  /\ total \in 0..MaxCount
  /\ at \in Nat \ {0}
  /\ tried \in 0..MaxCount
  /\ state \in {"shrinking", "done", "raised"}
  /\ reproduced \subseteq Seq(Seq(Letter))
  /\ refuted \subseteq Seq(Seq(Letter))
  /\ batches \in 0..MaxCount

(***************************************************************************)
(* Whatever the budget and however often a pass was cut off, the result is *)
(* the original conversation or one that was seen to reproduce the failure *)
(* (shrink_engine.py:73-75, 94-96).                                        *)
(***************************************************************************)
ResultReproduced == turns \in reproduced

(***************************************************************************)
(* No round leaves more turns, and only one of simplify_user_messages may  *)
(* leave as many with more characters, for a change of case can lengthen a *)
(* message; the LLM's variants are kept only when they are shorter         *)
(* (shrink_engine.py:20-23, 75, 96, llm_simplify.py:56).                   *)
(***************************************************************************)
OnlyRewritingGrows ==
  [][Smaller(turns, turns') /\ state' # "raised"
       => Len(turns') = Len(turns) /\ passes[pass] = "simplify_user_messages"]_vars

(***************************************************************************)
(* Delta debugging: without a cap, when the last pass is the one that      *)
(* removes turns, every conversation with a single turn less was seen not  *)
(* to reproduce the failure, whatever the passes before it left; if the    *)
(* agent is deterministic none of them ever did (shrink_engine.py:60-78).  *)
(***************************************************************************)
OneMinimal ==
  /\ state = "done" /\ cap = Unlimited
  /\ passes[Len(passes)] = "remove_user_turns"
  => \A i \in DOMAIN Removals(turns) :
       /\ Removals(turns)[i] \in refuted
       /\ ~Flaky => Removals(turns)[i] \notin reproduced

(***************************************************************************)
(* max_attempts_per_shrink caps the count that is reported, and the        *)
(* batches that the two deterministic passes have verified, over all the   *)
(* passes of a shrink together (shrink_engine.py:47-50, 66-73, 86-92,      *)
(* 105-107, 125-132).                                                      *)
(***************************************************************************)
CapHolds ==
  cap # Unlimited =>
    /\ total <= cap
    /\ (\A p \in 1..Len(passes) : passes[p] # "llm_semantic_simplify") => batches <= cap

(***************************************************************************)
(* The engine applies its passes in order and returns: with a cap, or with *)
(* passes that shorten the conversation in every round, it ends.           *)
(***************************************************************************)
ShrinkEnds == <>(state # "shrinking")

=============================================================================
