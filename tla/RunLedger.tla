------------------------------ MODULE RunLedger ------------------------------
(***************************************************************************)
(* What the result store promises a reader of one run: a repeat is entered *)
(* once and never changed, entries stop when the run is closed, and the    *)
(* status of a closed run is the worst status entered.  A run that was     *)
(* abandoned is never closed.                                              *)
(***************************************************************************)
EXTENDS Statuses

CONSTANT Entry        \* the repeats that may be entered

VARIABLES
  ledger,             \* ledger[e]: the status entered for e, or "absent"
  closed,             \* has the run been closed?
  status              \* the status of the run; it counts once closed

vars == <<ledger, closed, status>>

Entered == {ledger[e] : e \in Entry} \ {"absent"}

Init ==
  /\ ledger = [e \in Entry |-> "absent"]
  /\ closed = FALSE
  /\ status = "passed"

Enter(e, s) ==
  /\ ~closed
  /\ ledger[e] = "absent"
  /\ ledger' = [ledger EXCEPT ![e] = s]
  /\ UNCHANGED <<closed, status>>

Close ==
  /\ ~closed
  /\ closed' = TRUE
  /\ status' = Worst(Entered)
  /\ UNCHANGED ledger

Next ==
  \/ \E e \in Entry, s \in Verdict : Enter(e, s)
  \/ Close

Spec == Init /\ [][Next]_vars

=============================================================================
