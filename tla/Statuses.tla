------------------------------- MODULE Statuses -------------------------------
(***************************************************************************)
(* The statuses of results (storage_records.py) and the order in which     *)
(* they override one another when repeats are aggregated into a scenario   *)
(* row and scenario rows into the status of a run.                         *)
(***************************************************************************)

(* What a job that ran may report.                                         *)
Verdict == {"passed", "failed", "error", "timeout"}

(***************************************************************************)
(* The same cascade stands twice in the code: _aggregate_scenario_result   *)
(* of cli.py over the repeats of a row, compute_run_summary of             *)
(* result_store.py over the rows of a run.  Of nothing it makes "passed".  *)
(***************************************************************************)
Worst(S) ==
  IF "timeout" \in S THEN "timeout"
  ELSE IF "error" \in S THEN "error"
  ELSE IF "failed" \in S THEN "failed"
  ELSE "passed"

=============================================================================
