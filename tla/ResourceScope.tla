---------------------------- MODULE ResourceScope ----------------------------
(***************************************************************************)
(* What a fixture scope promises, without saying how the order of set-up   *)
(* is found or which exception ends the scope: resources are opened one    *)
(* after the other, each at most once and only while its own requirements  *)
(* are met; they are closed in the reverse order; and a scope that is over *)
(* holds nothing, unless a closing handler itself tore the scope down.     *)
(***************************************************************************)
EXTENDS Integers, Sequences

CONSTANT
  Resource      \* everything that may be opened

VARIABLES
  requires,     \* requires[r]: what must be available when r is opened
  held,         \* the resources to be closed, the most recent one last
  available,    \* every resource opened so far in this scope
  state         \* "opening", "using", "closing", "over" (nothing held) or "torn" (something held for ever)

vars == <<requires, held, available, state>>

Init ==
  /\ requires \in [Resource -> SUBSET Resource]
  /\ held = <<>>
  /\ available = {}
  /\ state = "opening"

(* Opening r makes it available; only some resources need closing.         *)
Open(r) ==
  /\ state = "opening"
  /\ r \notin available
  /\ requires[r] \subseteq available
  /\ available' = available \cup {r}
  /\ held' \in {held, Append(held, r)}
  /\ UNCHANGED <<requires, state>>

Use ==
  /\ state = "opening"
  /\ state' = "using"
  /\ UNCHANGED <<requires, held, available>>

StartClosing ==
  /\ state \in {"opening", "using"}
  /\ state' = "closing"
  /\ UNCHANGED <<requires, held, available>>

Close ==
  /\ state = "closing"
  /\ held # <<>>
  /\ held' = SubSeq(held, 1, Len(held) - 1)
  /\ UNCHANGED <<requires, available, state>>

Finish ==
  /\ state = "closing"
  /\ held = <<>>
  /\ state' = "over"
  /\ UNCHANGED <<requires, held, available>>

(* A closing handler that must not fail failed: what is held stays held.   *)
Tear ==
  /\ state = "closing"
  /\ held # <<>>
  /\ held' = SubSeq(held, 1, Len(held) - 1)
  /\ state' = IF held' = <<>> THEN "over" ELSE "torn"
  /\ UNCHANGED <<requires, available>>

Reject ==
  /\ state = "opening"
  /\ available = {}
  /\ state' = "over"
  /\ UNCHANGED <<requires, held, available>>

Next ==
  \/ \E r \in Resource : Open(r)
  \/ Use
  \/ StartClosing
  \/ Close
  \/ Finish
  \/ Tear
  \/ Reject

Spec == Init /\ [][Next]_vars

=============================================================================
