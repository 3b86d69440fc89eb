---------------------------- MODULE MCShrinkEngine ----------------------------
(* Small instances of ShrinkEngine.                                        *)
EXTENDS ShrinkEngine

Ab == <<"A", "a">>
A == <<"A">>
Sharp == <<"sharp s">>
Dotted == <<"dotted I">>

Conversations == {<<Ab>>, <<A, A>>, <<Ab, A>>, <<Ab, Ab>>, <<A, Ab, A>>, <<Sharp, Dotted>>}

Removing == "remove_user_turns"
Rewriting == "simplify_user_messages"
Asking == "llm_semantic_simplify"

(* A cap for every list of passes, and none for those that end without.    *)
Usual ==
  ({<<Removing>>, <<Rewriting>>, <<Removing, Rewriting>>, <<Rewriting, Removing>>, <<Asking, Removing>>}
     \X {1, 2, 5})
  \cup ({<<Removing>>, <<Asking, Removing>>} \X {Unlimited})

=============================================================================
