--------------------------- MODULE RunOrchestration ---------------------------
(***************************************************************************)
(* `agent-spec-kit run`: cli.main seeds the result store, builds one job   *)
(* per repeat of every (scenario, case) row, runs them one after the other *)
(* (--fail-fast), as tasks of one event loop (-n 1) or in a pool of        *)
(* processes (-n N), and only then writes the results, the aggregates and  *)
(* the summary.  Every write is a transaction of its own, so a reader of   *)
(* the store, and whoever finds it after a crash, sees every state of the  *)
(* store variables.                                                        *)
(***************************************************************************)
EXTENDS Integers, Sequences, FiniteSets, Functions, Statuses

CONSTANTS
  Rows,         \* how many (scenario, case) rows the run has
  Jobs,         \* how many jobs: the repeats of all rows, at least one for each
  RowOf,        \* RowOf[j]: the row job j belongs to (_scenario_record_key)
  RepeatOf,     \* RepeatOf[j]: its repeat index
  Modes,        \* the ways to run them that are considered
  Workers       \* max_workers of the ProcessPoolExecutor

Row == 1..Rows
Job == 1..Jobs

ASSUME RunAssumption ==
  /\ Rows \in Nat \ {0}
  /\ Jobs \in Nat \ {0}
  /\ RowOf \in [Job -> Row]
  /\ Range(RowOf) = Row
  /\ RepeatOf \in [Job -> Nat]
  /\ Modes \subseteq {"failfast", "inline", "pool"}
  /\ Workers \in Nat \ {0}

(* Mutant: every repeat is written under the first index.                  *)
IdOfRow(j) == <<RowOf[j], 1>>

(* The primary key of repeat_results: the row's id and the repeat index.   *)
Id(j) == <<RowOf[j], RepeatOf[j]>>
RepeatId == {Id(j) : j \in Job}

(***************************************************************************)
(* How a job ends: with the status it reports, because its worker does not *)
(* find the scenario ("vanished": ok is False, but the status keeps its    *)
(* default), or by an exception that leaves it.                            *)
(***************************************************************************)
Result == Verdict \cup {"vanished"}
Outcome == Result \cup {"raises"}

VARIABLES
  mode,         \* how this run executes its jobs: one of Modes
  phase,        \* how far main has come
  job,          \* job[j]: "waiting", "running" or the outcome
  completed,    \* finished jobs as_completed has not handed out yet
  paired,       \* the jobs whose results main holds, in order of arrival
  saved,        \* how many of them are written completely
  half,         \* is the next one written up to its repeat row?
  seeded,       \* how many scenario rows exist
  aggregated,   \* how many of them have their final status
  run,          \* the row of table runs: its status, and is it finished?
  scenario,     \* scenario[r]: status of row r in scenario_results, or "absent"
  repeat,       \* repeat[id]: status of the row in repeat_results, or "absent"
  details,      \* the repeats whose trials, errors and assertions are written
  exit          \* how the process ended: "none", "0", "1", "raised", "killed"

vars == <<mode, phase, job, completed, paired, saved, half, seeded, aggregated,
          run, scenario, repeat, details, exit>>

jobs == <<job, completed, paired>>
progress == <<saved, half, seeded, aggregated>>
store == <<run, scenario, repeat, details>>

(* r.ok, and _status_from_job_result.                                      *)
Ok(j) == job[j] = "passed"
StatusOf(j) == IF job[j] = "vanished" THEN "passed" ELSE job[j]

Over(how) == phase' = "over" /\ exit' = how

-----------------------------------------------------------------------------
Init ==
  /\ mode \in Modes
  /\ phase = "start"
  /\ job = [j \in Job |-> "waiting"]
  /\ completed = <<>>
  /\ paired = <<>>
  /\ saved = 0
  /\ half = FALSE
  /\ seeded = 0
  /\ aggregated = 0
  /\ run = [status |-> "absent", finished |-> FALSE]
  /\ scenario = [r \in Row |-> "absent"]
  /\ repeat = [id \in RepeatId |-> "absent"]
  /\ details = {}
  /\ exit = "none"

(* The row of the run is born with the status "passed".  The tags asked    *)
(* for may leave no scenario to run.                                       *)
CreateRun ==
  /\ phase = "start"
  /\ phase' \in {"seeding", "empty"}
  /\ run' = [status |-> "passed", finished |-> FALSE]
  /\ UNCHANGED <<mode, jobs, progress, scenario, repeat, details, exit>>

SeedRow ==
  /\ phase = "seeding"
  /\ seeded < Rows
  /\ seeded' = seeded + 1
  /\ scenario' = [scenario EXCEPT ![seeded + 1] = "skipped"]
  /\ UNCHANGED <<mode, phase, jobs, saved, half, aggregated, run, repeat, details, exit>>

(* Without a scenario main returns at once: the run is never finished.     *)
NothingToRun ==
  /\ phase = "empty"
  /\ Over("0")
  /\ UNCHANGED <<mode, jobs, progress, store>>

(* _build_groups_async.                                                    *)
BuildGroups ==
  /\ phase = "seeding"
  /\ seeded = Rows
  /\ phase' = "running"
  /\ UNCHANGED <<mode, jobs, progress, store, exit>>

-----------------------------------------------------------------------------
Running == {j \in Job : job[j] = "running"}
Collected == Range(paired)

(* main takes the jobs in order; fail-fast awaits each result before it    *)
(* takes the next job, the event loop starts every task at once, the pool  *)
(* as many as it has workers.                                              *)
MayStart(j) ==
  /\ \A i \in 1..(j - 1) : job[i] # "waiting"
  /\ mode = "failfast" => phase = "running" /\ \A i \in 1..(j - 1) : i \in Collected
  /\ mode = "inline" => phase = "running"
  /\ mode = "pool" => Cardinality(Running) < Workers

Start(j) ==
  /\ phase \in {"running", "draining"}
  /\ job[j] = "waiting"
  /\ MayStart(j)
  /\ job' = [job EXCEPT ![j] = "running"]
  /\ UNCHANGED <<mode, phase, completed, paired, progress, store, exit>>

Complete(j, o) ==
  /\ phase \in {"running", "draining"}
  /\ job[j] = "running"
  /\ o = "vanished" => mode = "pool"
  /\ job' = [job EXCEPT ![j] = o]
  /\ completed' = Append(completed, j)
  /\ UNCHANGED <<mode, phase, paired, progress, store, exit>>

(* Mutant: main waits for one result more than there are jobs.             *)
CollectOneMore ==
  /\ phase = "running"
  /\ completed # <<>>
  /\ LET j == Head(completed)
     IN  /\ job[j] # "raises"
         /\ paired' = Append(paired, j)
         /\ IF Len(paired) = Jobs \/ (mode = "failfast" /\ ~Ok(j))
            THEN phase' = "persisting"
            ELSE UNCHANGED phase
  /\ completed' = Tail(completed)
  /\ UNCHANGED <<mode, job, progress, store, exit>>

(* Mutant: fail-fast leaves the loop before it keeps the result.           *)
CollectDropsFailure ==
  /\ phase = "running"
  /\ completed # <<>>
  /\ LET j == Head(completed)
     IN  /\ job[j] # "raises"
         /\ IF mode = "failfast" /\ ~Ok(j)
            THEN phase' = "persisting" /\ UNCHANGED paired
            ELSE /\ paired' = Append(paired, j)
                 /\ phase' = IF Len(paired) + 1 = Jobs THEN "persisting" ELSE phase
  /\ completed' = Tail(completed)
  /\ UNCHANGED <<mode, job, progress, store, exit>>

(* The next result reaches main.  Fail-fast stops at the first that is not *)
(* ok.                                                                     *)
Collect ==
  /\ phase = "running"
  /\ completed # <<>>
  /\ LET j == Head(completed)
     IN  /\ job[j] # "raises"
         /\ paired' = Append(paired, j)
         /\ IF Len(paired) + 1 = Jobs \/ (mode = "failfast" /\ ~Ok(j))
            THEN phase' = "persisting"
            ELSE UNCHANGED phase
  /\ completed' = Tail(completed)
  /\ UNCHANGED <<mode, job, progress, store, exit>>

(* Mutant: the exception ends the loop and main writes what it has.        *)
CollectRaisesCaught ==
  /\ phase = "running"
  /\ completed # <<>>
  /\ job[Head(completed)] = "raises"
  /\ phase' = "persisting"
  /\ UNCHANGED <<mode, jobs, progress, store, exit>>

(***************************************************************************)
(* An exception leaves the loop.  The pool is shut down without cancelling *)
(* what it holds, so every submitted job still runs; the tasks of the      *)
(* event loop are cancelled.  No result is written.                        *)
(***************************************************************************)
CollectRaises ==
  /\ phase = "running"
  /\ completed # <<>>
  /\ job[Head(completed)] = "raises"
  /\ IF mode = "pool"
     THEN phase' = "draining" /\ UNCHANGED exit
     ELSE Over("raised")
  /\ UNCHANGED <<mode, jobs, progress, store>>

Drained ==
  /\ phase = "draining"
  /\ \A j \in Job : job[j] \in Outcome
  /\ Over("raised")
  /\ UNCHANGED <<mode, jobs, progress, store>>

(***************************************************************************)
(* main itself is left by an exception.  scenario_case_runs refuses a      *)
(* scenario whose fixtures are unknown, form a cycle or disagree on an     *)
(* axis; the probe of a generative scenario raises; a transaction finds    *)
(* the database locked or a blob file cannot be written, after any part of *)
(* the seeding or of the results; or it is Control-C.  The transactions    *)
(* before it stand.  While the pool runs its jobs it is drained first.  In *)
(* fail-fast mode Control-C cancels the task the job runs in, and the job  *)
(* turns the CancelledError into a result (Complete(j, "error")); only     *)
(* what interrupts main outside of a job leaves the loop there.            *)
(***************************************************************************)
MainRaises ==
  /\ phase \notin {"draining", "over"}
  /\ IF phase = "running" /\ mode = "pool"
     THEN phase' = "draining" /\ UNCHANGED exit
     ELSE Over("raised")
  /\ UNCHANGED <<mode, jobs, progress, store>>

-----------------------------------------------------------------------------
(* The results are written in order of arrival: first the repeat row, then *)
(* what hangs on it.                                                       *)
SaveRepeat ==
  /\ phase = "persisting"
  /\ ~half
  /\ saved < Len(paired)
  /\ LET j == paired[saved + 1]
     IN  repeat' = [repeat EXCEPT ![Id(j)] = StatusOf(j)]
  /\ half' = TRUE
  /\ UNCHANGED <<mode, phase, jobs, saved, seeded, aggregated, run, scenario, details, exit>>

SaveDetails ==
  /\ phase = "persisting"
  /\ half
  /\ details' = details \cup {Id(paired[saved + 1])}
  /\ saved' = saved + 1
  /\ half' = FALSE
  /\ UNCHANGED <<mode, phase, jobs, seeded, aggregated, run, scenario, repeat, exit>>

(* Mutant: the row is not looked up by its case index.                     *)
RowStatusesOfAll(r) == {StatusOf(j) : j \in Collected}

(* The row's status is computed from the results in memory.                *)
RowStatuses(r) == {StatusOf(j) : j \in {k \in Collected : RowOf[k] = r}}

(* Mutant: a row is aggregated while results are still being written.      *)
AggregateEarly ==
  /\ phase = "persisting"
  /\ ~half
  /\ aggregated < Rows
  /\ aggregated' = aggregated + 1
  /\ scenario' = [scenario EXCEPT ![aggregated + 1] = Worst(RowStatuses(aggregated + 1))]
  /\ UNCHANGED <<mode, phase, jobs, saved, half, seeded, run, repeat, details, exit>>

Aggregate ==
  /\ phase = "persisting"
  /\ ~half
  /\ saved = Len(paired)
  /\ aggregated < Rows
  /\ aggregated' = aggregated + 1
  /\ scenario' = [scenario EXCEPT ![aggregated + 1] = Worst(RowStatuses(aggregated + 1))]
  /\ UNCHANGED <<mode, phase, jobs, saved, half, seeded, run, repeat, details, exit>>

(* compute_run_summary reads the rows back, finish_run closes the run, and *)
(* main returns.                                                           *)
Finish ==
  /\ phase = "persisting"
  /\ ~half
  /\ saved = Len(paired)
  /\ aggregated = Rows
  /\ run' = [status |-> Worst(Range(scenario)), finished |-> TRUE]
  /\ Over(IF \A j \in Collected : Ok(j) THEN "0" ELSE "1")
  /\ UNCHANGED <<mode, jobs, progress, scenario, repeat, details>>

(* The process may die between any two steps.                              *)
Kill ==
  /\ phase # "over"
  /\ Over("killed")
  /\ UNCHANGED <<mode, jobs, progress, store>>

Rest == phase = "over" /\ UNCHANGED vars

-----------------------------------------------------------------------------
JobStep ==
  \/ \E j \in Job : Start(j)
  \/ \E j \in Job, o \in Outcome : Complete(j, o)

MainStep ==
  \/ CreateRun
  \/ SeedRow
  \/ NothingToRun
  \/ BuildGroups
  \/ Collect
  \/ CollectRaises
  \/ Drained
  \/ SaveRepeat
  \/ SaveDetails
  \/ Aggregate
  \/ Finish

Next ==
  \/ JobStep
  \/ MainStep
  \/ MainRaises
  \/ Kill
  \/ Rest

Spec == Init /\ [][Next]_vars

(* Jobs end (their own timeouts are a matter of FixtureLifecycle) and main *)
(* goes on as long as it can.                                              *)
Fairness == WF_vars(JobStep) /\ WF_vars(MainStep)

FairSpec == Spec /\ Fairness

-----------------------------------------------------------------------------
TypeOK ==
  /\ mode \in Modes
  /\ phase \in {"start", "seeding", "empty", "running", "draining", "persisting", "over"}
  /\ job \in [Job -> {"waiting", "running"} \cup Outcome]
  /\ completed \in Seq(Job)
  /\ paired \in Seq(Job)
  /\ saved \in 0..Len(paired)
  /\ half \in BOOLEAN
  /\ seeded \in 0..Rows
  /\ aggregated \in 0..Rows
  /\ run \in [status : Verdict \cup {"absent"}, finished : BOOLEAN]
  /\ scenario \in [Row -> Verdict \cup {"absent", "skipped"}]
  /\ repeat \in [RepeatId -> Verdict \cup {"absent"}]
  /\ details \in SUBSET RepeatId
  /\ exit \in {"none", "0", "1", "raised", "killed"}

Written(r) == {repeat[id] : id \in {i \in RepeatId : i[1] = r}} \ {"absent"}

(***************************************************************************)
(* The three levels of a finished run agree: the status of every scenario  *)
(* row is the worst of its repeat rows in the store, although main         *)
(* computes it from memory, and the run has the worst of all               *)
(* (_aggregate_scenario_result, compute_run_summary).  It holds as long as *)
(* no two jobs share a repeat row.                                         *)
(***************************************************************************)
LevelsAgree ==
  run.finished =>
    /\ \A r \in Row : scenario[r] = Worst(Written(r))
    /\ run.status = Worst(Range(repeat))

(***************************************************************************)
(* A scenario row gets its final status only when every result main holds  *)
(* for it is in the store, details included: whoever reads a final row, or *)
(* finds it after a crash, finds the evidence too.                         *)
(***************************************************************************)
FinalRowsHaveEvidence ==
  \A j \in Collected :
    scenario[RowOf[j]] \in Verdict =>
      repeat[Id(j)] # "absent" /\ Id(j) \in details

(***************************************************************************)
(* What a broken run leaves can be told from a whole one.  A job that      *)
(* raises takes the results of all others with it, never of some; where    *)
(* anything is stored the loop over the jobs came to its end, so only      *)
(* fail-fast stores the results of a part of the jobs; and however the     *)
(* writing was cut short, a run is closed only over every result main      *)
(* holds, with its evidence and with every row final.                      *)
(***************************************************************************)
ClosedMeansComplete ==
  /\ (\E j \in Job : job[j] = "raises") => Range(repeat) = {"absent"}
  /\ mode # "failfast" /\ Range(repeat) # {"absent"} => Collected = Job
  /\ exit \in {"raised", "killed"} => ~run.finished
  /\ run.finished =>
       /\ \A j \in Collected : repeat[Id(j)] # "absent" /\ Id(j) \in details
       /\ \A r \in Row : scenario[r] \in Verdict

(***************************************************************************)
(* Exit code 0 is given only to a run in which every job passed, and the   *)
(* store says so (LIBRARY_SUMMARY.md, exit codes); a run with no scenario  *)
(* to run is the exception, it is left open.                               *)
(***************************************************************************)
ZeroMeansPassed ==
  exit = "0" /\ seeded > 0 =>
    /\ run = [status |-> "passed", finished |-> TRUE]
    /\ \A j \in Job : job[j] = "passed" /\ repeat[Id(j)] = "passed"

(***************************************************************************)
(* If jobs end, the run ends, in every mode and whatever raises.           *)
(***************************************************************************)
RunEnds == <>(phase = "over")

(***************************************************************************)
(* The result store as its readers see it.                                 *)
(***************************************************************************)
Ledger == INSTANCE RunLedger WITH
  Entry <- RepeatId,
  ledger <- repeat,
  closed <- run.finished,
  status <- IF run.status = "absent" THEN "passed" ELSE run.status

ImplementsLedger == Ledger!Spec

=============================================================================
