----------------------------- MODULE MCParamCases -----------------------------
(* Small instances of ParamCases: three fixtures, the third built on the   *)
(* other two.                                                              *)
EXTENDS ParamCases, TLC

CONSTANTS task, persona, agent, x, y

OnBoth == task :> {} @@ persona :> {} @@ agent :> {task, persona}

Ax(a, cases) == [axis |-> a, cases |-> cases]

(* Four declarations of an axis, three of which disagree.  One fixture     *)
(* declares up to two axes, the others up to one, which may be empty.      *)
Some == {Ax(x, <<"x1", "x2">>), Ax(x, <<"x2", "x1">>), Ax(x, <<"x1">>), Ax(y, <<"y1", "y2">>)}
AtMostOne == {<<>>} \cup {<<d>> : d \in Some}
AtMostTwo == AtMostOne \cup {<<d, e>> \in Some \X Some : d.axis # e.axis}
AllDeclarations ==
  {task :> s @@ persona :> t @@ agent :> u :
     s \in AtMostTwo, t \in AtMostOne,
     u \in {<<>>, <<Ax(y, <<"y1", "y2">>)>>, <<Ax(y, <<>>)>>}}

(* One axis on each independent fixture.                                   *)
TwoAxes ==
  {task :> <<Ax(x, <<"x1", "x2">>)>> @@ persona :> <<Ax(y, <<"y1", "y2">>)>> @@ agent :> <<>>}

=============================================================================
