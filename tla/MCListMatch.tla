----------------------------- MODULE MCListMatch -----------------------------
(* Small instances of ListMatch.                                           *)
EXTENDS ListMatch

(* Every table of answers up to two elements and three items; of three     *)
(* elements with answers that do not change.                               *)
UpToThree == ((0..2) \X (0..3)) \cup {<<3, 3>>}
SteadyIfLarge ==
  [s \in UpToThree |-> IF s[1] = 3 THEN {"always", "never"} ELSE Behaviour]

=============================================================================
