---------------------------- MODULE MCResultViews ----------------------------
(* A small instance of ResultViews.                                        *)
EXTENDS ResultViews, TLC

CONSTANTS w1, w2, w3, e1, e2

(* Two runs of one experiment, and one of another.                         *)
TwoOfOne == [w \in {w1, w2, w3} |-> IF w = w3 THEN e2 ELSE e1]

(* One row of two repeats.                                                 *)
TwoEach == <<2>>

(* Every status, or the runs of one experiment.                            *)
TheFilters ==
  {[experiment |-> "any", status |-> s] : s \in {"any", "passed", "failed"}}
    \cup {[experiment |-> e, status |-> "any"] : e \in {e1, e2}}

(* What is followed.  Run w1 may write all that a run can write, and the   *)
(* page of a run and those of a repeat and a trial are asked of it.  Run   *)
(* w2, before it, after it or meanwhile, makes its row the newest of the   *)
(* experiment or not: it gets as far as its first repeat, or to its end if *)
(* that fails fast.  Run w3, the other column of compare, comes before     *)
(* both and passes.  What happens after the answer does not change it.     *)
Followed ==
  /\ at[w3] = "over" \/ \A w \in {w1, w2} : at[w] = "idle"
  /\ \A j \in Job : repeats[<<w3, j>>] # "failed"
  /\ \A w \in {w2, w3} : fuzzed[w] \cup tried[w] = {}
  /\ repeats[<<w2, <<1, 1>>>>] # "passed"
  /\ repeats[<<w2, <<1, 2>>>>] = "absent"
  /\ asked.page = "scenarios" => asked.of = w1
  /\ asked.page \in {"trace", "trial"} => asked.of[1] = w1
  /\ shown.answer = "none"

=============================================================================
