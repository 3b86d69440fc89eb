-------------------------- MODULE MCFixtureLifecycle --------------------------
(* Small instances of FixtureLifecycle.                                    *)
EXTENDS FixtureLifecycle, TLC

CONSTANTS f1, f2, f3, f4

Three == {f1, f2, f3}

(* Every graph over three of the fixtures, cycles and self-dependencies    *)
(* included.                                                               *)
ThreeGraphs == {g @@ f4 :> {} : g \in [Three -> SUBSET Three]}

(* A chain, a fork, a diamond and a cycle behind a root, over four.        *)
FourGraphs ==
  { f1 :> {}   @@ f2 :> {f1} @@ f3 :> {f2}     @@ f4 :> {f3},
    f1 :> {}   @@ f2 :> {f1} @@ f3 :> {f1}     @@ f4 :> {},
    f1 :> {}   @@ f2 :> {f1} @@ f3 :> {f1}     @@ f4 :> {f2, f3},
    f1 :> {f2} @@ f2 :> {f1} @@ f3 :> {}       @@ f4 :> {f2, f3} }

AllGraphs == ThreeGraphs \cup FourGraphs
AllRoots == SUBSET Three \cup {{f4}, {f3, f4}}

=============================================================================
