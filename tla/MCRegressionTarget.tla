------------------------- MODULE MCRegressionTarget -------------------------
EXTENDS RegressionTarget, TLC

CONSTANTS r1, r2, billing, sim, short, long

(* One scenario skips duplicates, another means to replace them.           *)
Policies1 == billing :> "skip" @@ sim :> "replace"

Symmetry == Permutations({r1, r2}) \cup Permutations({short, long})

=============================================================================
