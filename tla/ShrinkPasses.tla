----------------------------- MODULE ShrinkPasses -----------------------------
(***************************************************************************)
(* The pure part of shrink_engine.py: which candidates a pass tries, how   *)
(* many of them the budget allows, and which of those that reproduce the   *)
(* failure it goes on with.                                                *)
(*                                                                         *)
(* A conversation is the sequence of the user's turns; a turn is a string, *)
(* here without blanks at its ends.  Its letters are one in its two cases  *)
(* and two whose other case is longer than they are: str.upper turns a     *)
(* sharp s into SS, str.lower a dotted capital I into an i and a dot.      *)
(***************************************************************************)
EXTENDS Integers, Sequences, SequencesExt

Letter == {"a", "A", "sharp s", "dotted I"}

(* _candidates_remove_one: a conversation of one turn has no candidates.   *)
Removals(turns) ==
  IF Len(turns) <= 1 THEN <<>>
  ELSE [i \in 1..Len(turns) |-> RemoveAt(turns, i)]

LowerCase(c) == CASE c = "A" -> <<"a">>
                  [] c = "dotted I" -> <<"a", "a">>
                  [] OTHER -> <<c>>

UpperCase(c) == CASE c = "a" -> <<"A">>
                  [] c = "sharp s" -> <<"A", "A">>
                  [] OTHER -> <<c>>

Lower(msg) == FlattenSeq([i \in 1..Len(msg) |-> LowerCase(msg[i])])
Upper(msg) == FlattenSeq([i \in 1..Len(msg) |-> UpperCase(msg[i])])

(* _simplify_message without msg itself, which the caller leaves out.      *)
Variants(msg) ==
  (IF Len(msg) > 1 THEN <<Front(msg)>> ELSE <<>>)
    \o (IF Lower(msg) # msg THEN <<Lower(msg)>> ELSE <<>>)
    \o (IF Upper(msg) # msg THEN <<Upper(msg)>> ELSE <<>>)

(* Every candidate that puts one of the messages in the place of turn i.   *)
Replacing(turns, i, messages) ==
  [j \in 1..Len(messages) |-> [turns EXCEPT ![i] = messages[j]]]

(* _candidates_simplify_messages.                                          *)
Simplifications(turns) ==
  FlattenSeq([i \in 1..Len(turns) |-> Replacing(turns, i, Variants(turns[i]))])

Unlimited == -1

(* _take_budget.                                                           *)
Take(cands, budget) ==
  IF budget = Unlimited \/ budget >= Len(cands) THEN cands
  ELSE SubSeq(cands, 1, budget)

(* Mutant: a candidate is free when nothing reproduced.                    *)
SpendIfWon(budget, n) == IF budget = Unlimited THEN Unlimited ELSE budget

Spend(budget, n) == IF budget = Unlimited THEN Unlimited ELSE budget - n

Chars(turns) ==
  LET upTo[n \in 0..Len(turns)] == IF n = 0 THEN 0 ELSE upTo[n - 1] + Len(turns[n])
  IN  upTo[Len(turns)]

(* Fewer turns count before fewer characters.                              *)
Smaller(c, d) ==
  \/ Len(c) < Len(d)
  \/ Len(c) = Len(d) /\ Chars(c) < Chars(d)

(* Mutant: the smallest candidate, whether it reproduced or not.           *)
BestOfAll(cands, wins) ==
  cands[CHOOSE i \in DOMAIN cands :
          \A j \in DOMAIN cands : ~Smaller(cands[j], cands[i])]

(* min(wins, key=...) takes the first of the smallest.                     *)
Best(cands, wins) ==
  cands[CHOOSE i \in wins :
          \A j \in wins :
            \/ Smaller(cands[i], cands[j])
            \/ ~Smaller(cands[j], cands[i]) /\ i <= j]

=============================================================================
