----------------------------- MODULE ResultViews -----------------------------
(***************************************************************************)
(* The result store between the commands that write it and the pages that  *)
(* read it.  Several `agent-spec-kit run` processes insert their rows, one *)
(* transaction each, next to the blob files; the web API answers a page    *)
(* with several SELECTs, each of which sees the tables as they are at that *)
(* moment.  The model keeps every transaction, every SELECT and every blob *)
(* file as a step of its own, and one reader that asks for one page (or    *)
(* turns the pages of the run list): readers change nothing, so what one   *)
(* of them may be shown does not depend on the others.                     *)
(***************************************************************************)
EXTENDS Integers, FiniteSets, FiniteSetsExt, Statuses

CONSTANTS
  Run,          \* the runs, each by a process of its own
  Experiment,   \* the experiments
  ExpOf,        \* ExpOf[w]: the experiment run w belongs to
  Cases,        \* how many (scenario, case) rows a run has
  RepeatsOf,    \* RepeatsOf[c]: the repeats of row c
  Generative,   \* the rows whose scenario fuzzes or simulates
  Outcomes,     \* the statuses a repeat may end with
  Filters,      \* the filters a client of the run list may ask for
  PageSize      \* the limit of the run list

Case == 1..Cases
JobsOf(c) == {<<c, k>> : k \in 1..RepeatsOf[c]}
Job == UNION {JobsOf(c) : c \in Case}

ASSUME ViewsAssumption ==
  /\ IsFiniteSet(Run)
  /\ ExpOf \in [Run -> Experiment]
  /\ Cases \in Nat \ {0}
  /\ RepeatsOf \in [Case -> Nat \ {0}]
  /\ Generative \subseteq Case
  /\ Outcomes \subseteq Verdict
  /\ Filters \subseteq [experiment : Experiment \cup {"any"}, status : Verdict \cup {"any"}]
  /\ PageSize \in Nat \ {0}

VARIABLES
  stamp,        \* stamp[w]: the rank of its started_at, 0 before it starts
  at,           \* at[w]: what the process of run w does next
  fuzzed,       \* fuzzed[w]: the rows whose probe found a fuzz configuration
  tried,        \* tried[w]: the rows whose repeats are made of trials
  current,      \* current[w]: the job it is writing
  experiments,  \* table experiments
  runs,         \* table runs
  scenarios,    \* table scenario_results, by run and row
  repeats,      \* table repeat_results, by run and job
  trials,       \* table fuzz_trials: the jobs whose trial is in it
  assertions,   \* table assertions: the jobs whose assertions are in it
  errors,       \* tables phase_errors, shrink_results: the jobs entered
  blobs,        \* the blob files: of which job, for which table
  asked,        \* what the reader asked for
  doing,        \* the SELECT the reader executes next
  shown         \* what it has read so far

tables == <<experiments, runs, scenarios, repeats, trials, assertions, errors, blobs>>
writers == <<stamp, at, fuzzed, tried, current>>
reader == <<asked, doing, shown>>
vars == <<writers, tables, reader>>

NoRun == [status |-> "absent", finished |-> FALSE]
NoRow == [status |-> "absent", passed |-> 0, failed |-> 0, fuzz |-> FALSE]
NoJob == <<0, 0>>
Blank == [runs |-> {}, rows |-> {}, repeats |-> {}, trials |-> {}, errors |-> {},
          missing |-> {}, known |-> {}, page |-> 0, answer |-> "none"]

(* The schema is created empty by the first command.                       *)
Init ==
  /\ stamp = [w \in Run |-> 0]
  /\ at = [w \in Run |-> "idle"]
  /\ fuzzed = [w \in Run |-> {}]
  /\ tried = [w \in Run |-> {}]
  /\ current = [w \in Run |-> NoJob]
  /\ experiments = {}
  /\ runs = [w \in Run |-> NoRun]
  /\ scenarios = [wc \in Run \X Case |-> NoRow]
  /\ repeats = [wj \in Run \X Job |-> "absent"]
  /\ trials = {}
  /\ assertions = {}
  /\ errors = {}
  /\ blobs = {}
  /\ asked = [page |-> "none", of |-> "none"]
  /\ doing = "asking"
  /\ shown = Blank

-----------------------------------------------------------------------------
(* The processes of the runs.                                              *)

Goes(w, next) == at' = [at EXCEPT ![w] = next]

(* started_at is taken some time before the row is written.                *)
StartRun(w) ==
  /\ at[w] = "idle"
  /\ stamp' = [stamp EXCEPT ![w] = 1 + Max({stamp[v] : v \in Run})]
  /\ Goes(w, "creating")
  /\ UNCHANGED <<fuzzed, tried, current, tables, reader>>

(* The id of an experiment is a hash of its name: it never changes.        *)
EnsureExperiment(w) == experiments' = experiments \cup {ExpOf[w]}

(* The experiment and the run are one transaction.                         *)
CreateRun(w) ==
  /\ at[w] = "creating"
  /\ EnsureExperiment(w)
  /\ runs' = [runs EXCEPT ![w] = [status |-> "passed", finished |-> FALSE]]
  /\ Goes(w, "seeding")
  /\ UNCHANGED <<stamp, fuzzed, tried, current, scenarios, repeats, trials, assertions, errors,
                 blobs, reader>>

(* The upsert of a scenario row.                                           *)
SaveScenario(w, c, row) == scenarios' = [scenarios EXCEPT ![<<w, c>>] = row]

SeedRow(w) ==
  /\ at[w] = "seeding"
  /\ \E c \in Case :
       /\ scenarios[<<w, c>>] = NoRow
       /\ \A d \in 1..(c - 1) : scenarios[<<w, d>>] # NoRow
       /\ SaveScenario(w, c, [NoRow EXCEPT !.status = "skipped"])
       /\ Goes(w, IF c = Cases THEN "running" ELSE "seeding")
  /\ UNCHANGED <<stamp, fuzzed, tried, current, experiments, runs, repeats, trials, assertions,
                 errors, blobs, reader>>

(* The jobs run.  All repeats of a generative row share its probe: it finds *)
(* a fuzz configuration and trials to run; trials without a configuration, *)
(* where turns are only simulated; a configuration without trials, where   *)
(* its steps ask for different numbers of them; or it fails.               *)
RunJobs(w) ==
  /\ at[w] = "running"
  /\ \E F \in SUBSET Generative : fuzzed' = [fuzzed EXCEPT ![w] = F]
  /\ \E T \in SUBSET Generative : tried' = [tried EXCEPT ![w] = T]
  /\ Goes(w, "saving")
  /\ UNCHANGED <<stamp, current, tables, reader>>

Saved(w) == {j \in Job : repeats[<<w, j>>] # "absent"}

(* Mutant: the row does not wait for its blob files.                       *)
WriteBlobsLate(w) ==
  /\ at[w] = "saving"
  /\ \E j \in Job \ Saved(w) : current' = [current EXCEPT ![w] = j]
  /\ Goes(w, "repeat")
  /\ UNCHANGED <<stamp, fuzzed, tried, tables, reader>>

(* Results are written in order of arrival, of each first its blob files.  *)
WriteBlobs(w) ==
  /\ at[w] = "saving"
  /\ \E j \in Job \ Saved(w) :
       /\ current' = [current EXCEPT ![w] = j]
       /\ blobs' = blobs \cup {<<w, j, "repeat">>}
  /\ Goes(w, "repeat")
  /\ UNCHANGED <<stamp, fuzzed, tried, experiments, runs, scenarios, repeats, trials, assertions,
                 errors, reader>>

SaveRepeat(w) ==
  /\ at[w] = "repeat"
  /\ \E o \in Outcomes : repeats' = [repeats EXCEPT ![<<w, current[w]>>] = o]
  /\ Goes(w, IF current[w][1] \in tried[w] THEN "trial blobs" ELSE "errors")
  /\ UNCHANGED <<stamp, fuzzed, tried, current, experiments, runs, scenarios, trials, assertions,
                 errors, blobs, reader>>

(* One trial stands for the trials of the repeat.                          *)
WriteTrialBlobs(w) ==
  /\ at[w] = "trial blobs"
  /\ blobs' = blobs \cup {<<w, current[w], "trial">>}
  /\ Goes(w, "trial")
  /\ UNCHANGED <<stamp, fuzzed, tried, current, experiments, runs, scenarios, repeats, trials,
                 assertions, errors, reader>>

SaveTrial(w) ==
  /\ at[w] = "trial"
  /\ trials' = trials \cup {<<w, current[w]>>}
  /\ Goes(w, "errors")
  /\ UNCHANGED <<stamp, fuzzed, tried, current, experiments, runs, scenarios, repeats, assertions,
                 errors, blobs, reader>>

(* Phase errors, shrink results and extracted regressions.                 *)
SaveAuxiliary(w) ==
  /\ at[w] = "errors"
  /\ errors' = errors \cup {<<w, current[w]>>}
  /\ Goes(w, "assertions")
  /\ UNCHANGED <<stamp, fuzzed, tried, current, experiments, runs, scenarios, repeats, trials,
                 assertions, blobs, reader>>

SaveAssertions(w) ==
  /\ at[w] = "assertions"
  /\ assertions' = assertions \cup {<<w, current[w]>>}
  /\ Goes(w, "saving")
  /\ UNCHANGED <<stamp, fuzzed, tried, current, experiments, runs, scenarios, repeats, trials,
                 errors, blobs, reader>>

(* The results of all jobs, or those of a fail-fast run: a prefix of the   *)
(* jobs of which the last, and no other, did not pass.                     *)
Earlier(i, j) == i[1] < j[1] \/ (i[1] = j[1] /\ i[2] < j[2])
ResultsWritten(w) ==
  \/ Saved(w) = Job
  \/ \E j \in Saved(w) :
       /\ Saved(w) = {j} \cup {i \in Job : Earlier(i, j)}
       /\ {i \in Saved(w) : repeats[<<w, i>>] # "passed"} = {j}

Aggregated(w) == {c \in Case : scenarios[<<w, c>>].status \in Verdict}

(* The final row, fuzz configuration included, replaces the seeded one.    *)
FinalRow(w, c) ==
  LET held == JobsOf(c) \cap Saved(w)
      passed == {j \in held : repeats[<<w, j>>] = "passed"}
  IN  [status |-> Worst({repeats[<<w, j>>] : j \in held}),
       passed |-> Cardinality(passed),
       failed |-> Cardinality(held \ passed),
       fuzz |-> c \in fuzzed[w] /\ held # {}]

Aggregate(w) ==
  /\ at[w] = "closing" \/ (at[w] = "saving" /\ ResultsWritten(w))
  /\ \E c \in Case \ Aggregated(w) :
       /\ 1..(c - 1) \subseteq Aggregated(w)
       /\ SaveScenario(w, c, FinalRow(w, c))
       /\ Goes(w, IF c = Cases THEN "finishing" ELSE "closing")
  /\ UNCHANGED <<stamp, fuzzed, tried, current, experiments, runs, repeats, trials, assertions,
                 errors, blobs, reader>>

FinishRun(w) ==
  /\ at[w] = "finishing"
  /\ runs' = [runs EXCEPT ![w] =
                [status |-> Worst({scenarios[<<w, c>>].status : c \in Case}), finished |-> TRUE]]
  /\ Goes(w, "over")
  /\ UNCHANGED <<stamp, fuzzed, tried, current, experiments, scenarios, repeats, trials, assertions,
                 errors, blobs, reader>>

-----------------------------------------------------------------------------
(* The reader.                                                             *)

(* The clauses of _runs_filter_clause, each there or not.                  *)
Matches(w, f) ==
  /\ runs[w] # NoRun
  /\ f.experiment \in {"any", ExpOf[w]}
  /\ f.status \in {"any", runs[w].status}

Reads(part, next) == shown' = part /\ doing' = next /\ UNCHANGED <<writers, tables, asked>>
Answers(part, answer) == Reads([part EXCEPT !.answer = answer], "answered")

Ask(page, of) ==
  /\ doing = "asking"
  /\ asked' = [page |-> page, of |-> of]
  /\ doing' = page
  /\ UNCHANGED <<writers, tables, shown>>

(***************************************************************************)
(* The page of a run: get_run, its rows, their repeats with the counts of  *)
(* their assertions, and, on a connection of its own, the totals of the    *)
(* trials of the fuzzed rows.                                              *)
(***************************************************************************)
CheckRun ==
  /\ doing = "scenarios"
  /\ IF runs[asked.of] = NoRun THEN Answers(shown, "404") ELSE Reads(shown, "rows")

RowsOf(w) == {[run |-> w, case |-> c, row |-> scenarios[<<w, c>>]] :
                c \in {d \in Case : scenarios[<<w, d>>] # NoRow}}

RepeatRow(w, j) == [run |-> w, job |-> j, status |-> repeats[<<w, j>>],
                    assertions |-> <<w, j>> \in assertions]

(* Mutant: the two SELECTs change places.                                  *)
ReadRepeatsThenRows ==
  \/ /\ doing = "rows"
     /\ Reads([shown EXCEPT !.repeats = {RepeatRow(asked.of, j) : j \in Saved(asked.of)}],
              "repeats")
  \/ /\ doing = "repeats"
     /\ Reads([shown EXCEPT !.rows = RowsOf(asked.of)], "totals")

ReadRowsThenRepeats ==
  \/ /\ doing = "rows"
     /\ Reads([shown EXCEPT !.rows = RowsOf(asked.of)], "repeats")
  \/ /\ doing = "repeats"
     /\ Reads([shown EXCEPT !.repeats = {RepeatRow(asked.of, j) : j \in Saved(asked.of)}],
              "totals")

(* The totals of the fuzzed rows only.                                     *)
ReadTotals ==
  /\ doing = "totals"
  /\ LET fuzzing == {r.case : r \in {q \in shown.rows : q.row.fuzz}}
     IN  Answers([shown EXCEPT !.trials =
                    {j \in Job : j[1] \in fuzzing /\ <<asked.of, j>> \in trials}], "200")

(***************************************************************************)
(* compare: after the check that the experiments are known, the header of  *)
(* every experiment, the newest row of each experiment for each key        *)
(* (fuzzed ones are left out of the cells), and the last repeat of each.   *)
(***************************************************************************)
CheckExperiments ==
  /\ doing = "compare"
  /\ IF asked.of \subseteq experiments THEN Reads(shown, "headers") ELSE Answers(shown, "422")

Newest(S) == {w \in S : \A v \in S : stamp[v] <= stamp[w]}

ReadHeaders ==
  /\ doing = "headers"
  /\ Reads([shown EXCEPT !.runs =
              UNION {Newest({w \in Run : runs[w] # NoRun /\ ExpOf[w] = e}) : e \in asked.of}],
           "cells")

LatestRows(ids) ==
  UNION {{[run |-> w, case |-> c, row |-> scenarios[<<w, c>>]] :
            w \in Newest({v \in Run : ExpOf[v] = e /\ scenarios[<<v, c>>] # NoRow})} :
         e \in ids, c \in Case}

(* Of every row the repeat with the highest index it has.                  *)
LatestRepeats(rowIds) ==
  {RepeatRow(wj[1], wj[2]) :
     wj \in {q \in Run \X Job :
               /\ <<q[1], q[2][1]>> \in rowIds
               /\ q[2] \in Saved(q[1])
               /\ \A i \in Saved(q[1]) : i[1] = q[2][1] => i[2] <= q[2][2]}}

RowIds(S) == {<<r.run, r.case>> : r \in S}

(* Mutant: the last repeats of all rows are read first.                    *)
ReadRepeatsThenCells ==
  \/ /\ doing = "cells"
     /\ Reads([shown EXCEPT !.repeats = LatestRepeats(Run \X Case)], "last repeats")
  \/ /\ doing = "last repeats"
     /\ Answers([shown EXCEPT !.rows = LatestRows(asked.of)], "200")

ReadCellsThenRepeats ==
  \/ /\ doing = "cells"
     /\ Reads([shown EXCEPT !.rows = LatestRows(asked.of)], "last repeats")
  \/ /\ doing = "last repeats"
     /\ Answers([shown EXCEPT !.repeats = LatestRepeats(RowIds(shown.rows))], "200")

Excluded == {r \in shown.rows : r.row.fuzz}
Cells == shown.rows \ Excluded

(***************************************************************************)
(* The trace of a repeat: its row and its assertions, the blob files the   *)
(* row names, its phase errors, its trials.  The page of a trial: its row, *)
(* its blob files.                                                         *)
(***************************************************************************)
GetRepeat ==
  /\ doing = "trace"
  /\ IF asked.of[2] \in Saved(asked.of[1])
     THEN Reads([shown EXCEPT !.repeats = {RepeatRow(asked.of[1], asked.of[2])}], "files")
     ELSE Answers(shown, "404")

GetTrial ==
  /\ doing = "trial"
  /\ IF asked.of \in trials
     THEN Reads([shown EXCEPT !.trials = {asked.of[2]}], "files")
     ELSE Answers(shown, "404")

(* The row names its files; those that are not there are reported.         *)
LoadBlobs ==
  /\ doing = "files"
  /\ LET table == IF asked.page = "trace" THEN "repeat" ELSE "trial"
         file == <<asked.of[1], asked.of[2], table>>
         part == [shown EXCEPT !.missing = {file} \ blobs]
     IN  IF asked.page = "trace" THEN Reads(part, "errors") ELSE Answers(part, "200")

ListErrorsAndTrials ==
  \/ /\ doing = "errors"
     /\ Reads([shown EXCEPT !.errors = {asked.of} \cap errors], "trials")
  \/ /\ doing = "trials"
     /\ Answers([shown EXCEPT !.trials = {j \in {asked.of[2]} : asked.of \in trials}], "200")

(***************************************************************************)
(* The run list, newest first, page after page: the items of a page, then  *)
(* their total; the client turns the page as long as the total allows.     *)
(***************************************************************************)

(* Mutant: the failed runs are listed first.                               *)
PrecedesByStatus(v, w) ==
  IF runs[v].status = runs[w].status THEN stamp[v] > stamp[w]
  ELSE runs[v].status = "failed" /\ runs[w].status = "passed"

Precedes(v, w) == stamp[v] > stamp[w]

OnPage(f, page) ==
  LET listed == {w \in Run : Matches(w, f)}
  IN  {w \in listed :
         Cardinality({v \in listed : Precedes(v, w)}) \in
           (page * PageSize)..((page + 1) * PageSize - 1)}

(* known: the runs the filter matched when the client began.               *)
ListRuns ==
  /\ doing = "runs"
  /\ Reads([shown EXCEPT !.runs = @ \cup OnPage(asked.of, shown.page),
                         !.known = IF shown.page = 0 THEN {w \in Run : Matches(w, asked.of)}
                                   ELSE @],
           "count")

CountRuns ==
  /\ doing = "count"
  /\ LET total == Cardinality({w \in Run : Matches(w, asked.of)})
     IN  IF PageSize * (shown.page + 1) < total
         THEN Reads([shown EXCEPT !.page = @ + 1], "runs")
         ELSE Answers(shown, "200")

-----------------------------------------------------------------------------
Asks ==
  \/ \E w \in Run : Ask("scenarios", w)
  \/ \E of \in Run \X Job : Ask("trace", of) \/ Ask("trial", of)
  \/ \E ids \in SUBSET Experiment : Cardinality(ids) >= 2 /\ Ask("compare", ids)
  \/ \E f \in Filters : Ask("runs", f)

Shows ==
  \/ CheckRun
  \/ ReadRowsThenRepeats
  \/ ReadTotals
  \/ CheckExperiments
  \/ ReadHeaders
  \/ ReadCellsThenRepeats
  \/ GetRepeat
  \/ GetTrial
  \/ LoadBlobs
  \/ ListErrorsAndTrials
  \/ ListRuns
  \/ CountRuns

Writes(w) ==
  \/ StartRun(w)
  \/ CreateRun(w)
  \/ SeedRow(w)
  \/ RunJobs(w)
  \/ WriteBlobs(w)
  \/ SaveRepeat(w)
  \/ WriteTrialBlobs(w)
  \/ SaveTrial(w)
  \/ SaveAuxiliary(w)
  \/ SaveAssertions(w)
  \/ Aggregate(w)
  \/ FinishRun(w)

Next ==
  \/ \E w \in Run : Writes(w)
  \/ Asks
  \/ Shows

(* No fairness: a run may die, or end by an exception, after any step, and *)
(* the tables stay as they are.                                            *)
Spec == Init /\ [][Next]_vars

-----------------------------------------------------------------------------
Answered(page) == asked.page = page /\ shown.answer = "200"
Final(r) == r.row.status \in Verdict

(***************************************************************************)
(* The page of a run is read in several SELECTs while the run goes on, yet *)
(* a row it shows as final is shown whole: with as many repeats as the row *)
(* counts, passed and failed, each with its assertions, and, where it is   *)
(* one with a fuzz configuration, in its totals the trials of all of them  *)
(* or, where the probe left no trials to run, of none                      *)
(* (list_scenarios_for_run).                                               *)
(***************************************************************************)
FinalRowsShownWhole ==
  Answered("scenarios") =>
    \A r \in shown.rows : Final(r) =>
      LET mine == {q \in shown.repeats : q.job[1] = r.case}
          ok == {q \in mine : q.status = "passed"}
      IN  /\ Cardinality(ok) = r.row.passed
          /\ Cardinality(mine \ ok) = r.row.failed
          /\ \A q \in mine : q.assertions
          /\ r.row.fuzz => \A q \in mine :
               q.job \in shown.trials <=> r.case \in tried[asked.of]

(***************************************************************************)
(* compare shows with every final cell the last repeat of its row, and the *)
(* two agree: a cell that passed shows a repeat that passed, and no repeat *)
(* has a worse status than its cell (compare_experiments_most_recent).     *)
(***************************************************************************)
CellsShowTheirRepeat ==
  Answered("compare") =>
    \A r \in Cells :
      Final(r) /\ r.row.passed + r.row.failed > 0 =>
        \E q \in shown.repeats :
          /\ q.run = r.run /\ q.job[1] = r.case
          /\ Worst({q.status, r.row.status}) = r.row.status
          /\ r.row.failed = 0 => q.status = "passed"

(***************************************************************************)
(* A page never names a blob file that is not there yet: the files are     *)
(* written before the row that names them (load_blob_safely would report   *)
(* "blob file missing").                                                   *)
(***************************************************************************)
PagesFindTheirBlobs == shown.missing = {}

(***************************************************************************)
(* A client that turns the pages of the run list while runs start and      *)
(* finish sees every run that was there when it began, unless it asked for *)
(* the runs that passed: those may leave the list while it reads.          *)
(***************************************************************************)
PagingMissesNone ==
  Answered("runs") /\ asked.of.status # "passed" => shown.known \subseteq shown.runs

=============================================================================
