# A TLA+ model of agent-spec-kit

agent-spec-kit is a test framework for conversational agents written in Python
(`src/src/agent_spec_kit`). A test file declares fixtures and scenarios; the
command `agent-spec-kit run` expands every scenario into cases, runs each case
a number of times, in one process or in a pool of processes, and writes what
happened into an SQLite store that the web UI reads. Scenarios may be
*generative*: their user turns are fuzzed in several trials, a failing trial is
shrunk, and the shrunk conversation is extracted as a regression test.

This directory holds TLA+ modules for the parts of that program that have
control worth checking, TLC configurations for small instances, and theorems
about them that TLAPS checks for every instance. The modules translate the
Python source; `PROJECT.json` maps every definition to the lines it stands for.

## 1. Inventory

| Component | State it keeps | Operations | Interacts with | What makes it correct |
|---|---|---|---|---|
| registries, discovery (`registries.py`, `discovery.py`, `decorators.py`) | `_fixtures`, `_scenarios`, imported modules | register, find, reset, import | filled by importing test files, once in main and anew for every job of a worker | main and workers mean the same thing by (module, name, case index) |
| fixtures (`fixture_graph.py`) | order, values, teardown stack of one execution | collect, sort, set up, unwind, tear down | called by the job runner and by every generative trial | dependencies first; teardown in reverse, exactly once; no leak; no cycle accepted |
| parameter cases (`param_cases.py`, `fixture_graph.py`) | axes of the fixtures, merged | merge, expand | main builds rows by index, workers interpret the index | one index per combination; the same meaning everywhere |
| job runner (`runner.py`) | one `JobResult` under construction | run a scenario with timeout, classify exceptions, worker entries | fixtures, scenario core, generative engine | verdict matches what happened; a result only after cleanup |
| scenario core (`scenario_core.py`) | queued steps, executed prefix, turns | queue steps, `materialise`, simulate a conversation, check output, events and environment | agent adapters, matchers | steps run once, in order; the first failure stops; assertions look at the right turn |
| run orchestration (`cli.py`) | rows, jobs, collected pairs, exit code | seed, build groups, run (fail-fast, inline, pool), persist, aggregate, finish | runner, process pool, result store | no result lost or double-counted; levels agree; exit code tells the truth |
| result store (`result_store.py`, `storage_records.py`) | SQLite tables, gzip blobs | one transaction per write, summary, queries | written by the CLI, read by UI and compare | a reader never sees a final row without evidence |
| generative engine (`isolated_generative.py`, `generative.py`, `fuzz/`) | probe, trials, failure signature, shrink and extraction results | probe, run trials (as they complete), pick the failure, shrink, verify, extract | worker pool, shrink engine, extraction | the reported failure is one that happened; trial order does not decide it; a crash of one trial is contained |
| shrink engine (`shrink_engine.py`, `shrink/`) | current turns, budget, seen candidates | remove one, simplify, verify | calls verification in the pool | keeps the signature, stays in budget, ends; never more turns |
| extraction (`extraction_impl.py`) | the target test file | read, dedupe by fingerprint, append, write | called by the generative engine of every run; the file is imported by later runs | no regression is lost or doubled; the file can be imported |
| matchers (`match/`, `forbidden.py`, `llm_criteria.py`, `judges/`) | none (pure), except judge calls | match scalars, objects, lists, rules | scenario core | a list match is what its mode promises |
| agent adapters (`langchain_adapter.py`, `pydantic_ai_adapter.py`, `events.py`) | the tree of tool calls, the stack of open ones, errors seen | run a turn, turn what the framework streams into events | scenario core, agent frameworks | one node per call, under its caller where the stream tells; no error is lost |
| result pages (`result_store.py`, `web/`) | none; a page is several SELECTs and blob files | run list, run, repeat, trial, compare | the store, while runs write it | what a page shows belongs together |
| reporting (`cli_reporting.py`, `failures.py`, `frontend/`) | none | render | run orchestration | faithful to the results |

Behaviours that are hard to test here:

- Python sets of names are iterated in a hash-seed dependent order: the
  order of set-up and the meaning of a case index depend on it.
- Fixtures, agents and scenario bodies are foreign code that raises anything,
  at any await, including cancellation and non-`Exception` exceptions.
- Jobs, trials and shrink verifications complete in any order and are consumed
  with `as_completed`; one that raises changes the fate of all the others.
- The store is written in many small transactions after the fact; a crash
  leaves any prefix, and a page is read in several SELECTs between them.
- What a framework streams comes in its own order: parallel calls end in any
  order, results are streamed twice, an id may be missing.
- Extraction is a read-modify-write of a whole file, without a lock; several
  runs may do it, and workers and later runs import the file.

`PROJECT.json` lists each hazard at its line with the properties that cover it.

## 2. Modules

| Module | Models | Composed with |
|---|---|---|
| `FixtureLifecycle` | `fixture_graph.py` and the `try`/`except`/`finally` of `run_scenario_job` and `_run_single_trial` | implements `ResourceScope` |
| `ResourceScope` | the abstract scope: open with requirements met, close in reverse | |
| `ParamCases` | axes, expansion, case indices in main and workers | |
| `ScenarioSteps` | `scenario_core.py`: queued steps, turns, simulated segments, the subject of a check | |
| `RunOrchestration` | the `run` command: seeding, three ways to run the jobs, persistence, exit | implements `RunLedger`, uses `Statuses` |
| `RunLedger` | the abstract store of one run: enter once, close once with the worst status | |
| `Statuses` | verdicts and the cascade that aggregates them | |
| `GenerativeRepeat` | `isolated_generative.py`, `fuzz/driver.py`: probe, trials, shrinking per step, extraction, result | abstracts `ShrinkEngine` to single successful candidates |
| `ShrinkEngine` | `shrink_engine.py`, `shrink/llm_simplify.py`: passes, rounds, cap | uses `ShrinkPasses` |
| `ShrinkPasses` | the candidates of a round, the budget, the best of those that won: pure operators | |
| `ListMatch` | `match/lists.py`, `match/forbidden.py`: exact, subsequence, permutation and backtracking search, one comparison a step | |
| `RegressionTarget` | `extraction_impl.py` and `discovery.py`: the file regressions are written into, and who imports it | |
| `ResultViews` | `result_store.py` and `web/`: the runs that write the tables and the blob files, and the pages read between their transactions | uses `Statuses`; its writers abstract `RunOrchestration` to what they write |
| `AgentTurn` | `langchain_adapter.py`, `pydantic_ai_adapter.py`, `events.py`: one turn, from the stream to the tree of calls and the status | |
| `RunOrchestrationProofs`, `FixtureLifecycleProofs`, `ScenarioStepsProofs`, `ShrinkEngineProofs`, `ListMatchProofs` | theorems about the module of the same name | |
| `RecordProofs` | theorems about what is run, recorded and shown: `ParamCases` (`CasesSpec`), `AgentTurn` (`TurnSpec`), `ResultViews` (`Spec`) | |
| `RegressionProofs` | theorems about the way from the repeat that fails to the regression in the file: `GenerativeRepeat` (`Spec`), `RegressionTarget` (`TargetSpec`) | |
| `InductionLemmas` | induction over the naturals stated for sets; what it gives for recursive functions and for flattened sequences of sequences | used by `ShrinkEngineProofs`, `ListMatchProofs`, `RecordProofs`, `RegressionProofs` |
| `MC...` | constants of the instances TLC checks | |

An operator that a comment calls *mutant* is no part of the model: it is a
plausible mistake in the definition that follows it, kept to show that the
property named in `PROJECT.json` would notice it.

## 3. State and actions

**FixtureLifecycle.** One execution. `order`, `ready` and `waiting` are the
locals of `_topo_fixture_order` (`waiting[f]` is the set whose size the code
keeps as `in_degree`); iterating a Python set is a choice of a listing. `open`
is the list `teardowns`, last first. `Place` is a round of Kahn's loop,
`StartSetup`/`RejectCycle` what follows it, `SetUpYields`/`SetUpReturns`/
`SetUpRaises` one iteration of `resolve_fixtures`, `BodyReturns`/`BodyRaises`/
`BodyTimesOut` the caller's `try`, `TearDown`/`TearDownEscapes` one iteration of
its `finally`, `Report` the result. Exceptions are the three classes the
handlers tell apart.

**ParamCases.** Every process has a hash seed, that is an order in which it
iterates names; `Expand` is main building rows, `RunJob` a worker reading a case
index in its own order: it runs a case (`ran`) or refuses the job (`turnedDown`).

**ScenarioSteps.** `Queue` appends a step, `Materialise` begins to run what is
queued, one action per way a step ends. A turn records its actor, the turn it
heard, its step, its status (`ok`) and whether it or its events carry an error
text (`errs`). The two are independent: what raises is a text (`Broken`), what
ends a segment is the status, and an error whose text is empty is a turn that is
not ok and does not raise. `nextActor`/`nextInput` are `_next_actor` and
`_next_input`. `segFrom` and `inSegment` are the bookkeeping of
`_run_simulation_segment`; the first turn of a segment (`FirstTurn`) stands
outside of the loop in the code and looks at the status before the stop
condition is asked, the turns of the loop (`NextTurn`) ask first. What an agent
says is reduced to whether it matches the stop condition.

**RunOrchestration.** `phase` is the line of `main`; `job`, `completed` and
`paired` are the tasks, the futures not handed out yet and the list of results;
`run`, `scenario`, `repeat` and `details` are the tables. Every transaction of
the store is an action (`SaveRepeat`, `SaveDetails`, `Aggregate`, `Finish`, ...),
and `Kill` may come between any two. `mode` says which of the three ways
the run executes its jobs. `MainRaises` is whatever leaves `main` by an exception
in any phase: a declaration that is refused, a probe that raises, a blob file or
a transaction that cannot be written, Ctrl-C. A pool is drained first.

**ShrinkEngine.** `turns` is `current`; `budget`, `total`, `at` and `tried` are
the counters. A message is a word over one letter in two cases and two letters
whose other case is two letters, which is what the deterministic variants (drop
the last character, lower, upper) can tell apart. A verification is a choice of the candidates that reproduce; `reproduced`
and `refuted` are history, and keep the choices of a deterministic agent
consistent. `Round`, `DeterministicPassEnds`, `Propose`, `LlmPassEnds`,
`LlmUnavailable`, `Return` and `VerificationRaises` are the steps of
`_apply_pass`, `apply_llm_semantic_simplify` and `shrink_user_turns`.

**GenerativeRepeat.** `trials`, `outcomes` and `collected` are the tasks, what
they return, and `out_by_trial`. A trial chooses the turns of each generative
step, and which simulations end with a turn of the user that nobody answers
(`cut`: the stop condition or `max_turns` may fall on it); its outcome follows
from the agent, which is broken by some turns and upset by others. A
conversation is a sequence of items: a user says, the agent answers, a check is
made. `Transcript` is the items of a trial; if a simulation was cut and a later
step simulates again, the agent answers the old turn first (`Resumed`, which is
`_next_input` in the code). `Merged` is the same steps replayed as messages,
each of which is answered. `Signature` and `Breakdown` are what is kept of a
run; `dangling` is history, the model's note that a check was made while a turn
had no answer. `ShrinkStep` is one successful candidate of the shrink of one
step: the engine itself is `ShrinkEngine`, with the verification left open; here
the verification is the replay, and the engine any sequence of accepted
candidates. `Reported` is the trial whose failure the result shows, which
`build_generative_job_result` chooses for itself, by status, while the shrink
chooses by signature.

**ListMatch.** One check. `fits[i, j]` says when item `j` satisfies element `i`:
always, never, or as a judge happens to answer. `CheckList`, `CheckListOf` and
`CheckForbidden` choose the algorithm; then a step is one comparison, with `e`
and `j` the loop indices, `chosen` the assignment so far (`used` is the set of
its items; the call stack of the search is its length) and `left` the
permutations not tried. The sync and the async functions are the same steps, and
so are a subsequence that is asked for and one that is forbidden, up to the
verdict.

**RegressionTarget.** `Run` is the processes, each a `run --extract`. `file` is
the sequence of what was appended; a piece of it records scenario and turns,
whether the comment with the fingerprint is there (`marked`), whether it parses,
and whether all of it is there. `Build` is everything from reading the file to
the `ast.parse` of what would be written: only what was read, and when, can be
told from outside. `Open`, `Flush` and `Write` are `write_text`, which empties
the file and fills it in parts; `WriteFails` and `Kill` leave what was flushed.
`Importable` is what `import_path` adds to `ast.parse`. Whether a source begins
with a `__future__` import, whether its names are used, and whether its path
comes before that of the target, are constants. A run that has the file open
while another one has is not modelled: bytes would be written over bytes.

**ResultViews.** Every run is a process (`at` is the line it has come to) that
makes its transactions one by one: experiment and run, the seeded rows, then for
every result the blob files, the repeat, the blob files of its trial, the trial,
errors, assertions, at last the final rows and the run. It may stop anywhere:
there is no fairness. The reader asks for one page and executes its SELECTs one
by one, between any of those steps: `CheckRun`, `ReadRowsThenRepeats` and
`ReadTotals` are the page of a run; `CheckExperiments`, `ReadHeaders` and
`ReadCellsThenRepeats` are compare; `GetRepeat`, `GetTrial`, `LoadBlobs` and
`ListErrorsAndTrials` the page of a repeat and of a trial; `ListRuns` and
`CountRuns` a client that turns the pages of the run list. `shown` is what it
has read. `fuzzed` and `tried` are what the probe of a generative row found: a
fuzz configuration, trials to run. They are independent: a row that only
simulates has trials and no configuration, one whose steps ask for different
numbers of trials a configuration and no trials. `stamp` orders the runs by `started_at`; one trial stands for the
trials of a repeat. Readers write nothing, so one of them is enough.

**AgentTurn.** `call`, `caller`, `batch`, `unnamed` and `texts` are what the
framework does, the environment, and `inToolset` the calls whose tool has the name
of one in `_function_toolset` of the adapted agent, any of them; `nodes`, `open`, `node`, `emitted`, `said` and
`failing` are the fields of `UpdatesNormalizer` and the locals of the other
adapter's `run_turn`. A node is a `ToolCallEvent` and knows the node it hangs
under. `Announce` is a message with tool calls, `Result` and `ResultAgain` a
tool message, `Text` a message without calls, `EndOfStream` is `finalize` and
`collect_event_errors`, `StreamRaises` the `except` of either adapter.

## 4. Runs

| Run | Question and result |
|---|---|
| Fixtures | All 512 graphs over three fixtures, all roots, all orders, and a chain, a fork, a diamond and a cycle of four: the sort refuses exactly the cycles, a verdict other than "error" has every teardown behind it, "passed" needs every fixture; the execution implements `ResourceScope`, so nothing is opened before what it needs or closed before what needs it; a job with a timeout ends. |
| Run | Two rows of two repeats in each of the three modes, with exceptions, interrupts and crashes at any point, in the middle of the writing too: levels agree, evidence before final status, a closed run is complete, exit code, termination; the run implements `RunLedger`. |
| Cases | Declarations of up to two axes on three fixtures, an axis without cases and declarations that disagree among them, two workers with hash seeds of their own: the expansion is the product (nothing, if an axis is empty); inconsistent declarations, and only they, are refused; no worker refuses a job of main. |
| CasesSpawned | *violated*: a worker with its own hash seed runs another case than its row records. |
| Steps | Three steps of every kind, one retry, turns with any status and any error text: who answers whom, when a segment stops, every message answered, what a check is about, what passing means, every scenario ends. |
| Shrink | Every pass with caps, removal and LLM passes also without, an agent that may be flaky: cap kept, count right, result reproduced, one-minimal, ends. |
| Repeat | Two trials of one generative step, in any order of completion, or one of two steps, simulations that are cut and go on, any flags: the failure that is reported is the one that is shrunk, after all have ended; replay finds the check; a regression with one shrunk step fails as its trial did; the result tells. |
| RepeatCombined | *violated*: two shrunk steps together do not fail any more. |
| Match | Every list matcher and both ways to forbid tool calls, every table of answers (always, sometimes, never) for up to two elements and three items, every steady table for three: a match has an assignment behind it, a mismatch has none that every answer would accept. |
| Target | Two runs, a scenario that skips duplicates and one that does not, extractions overlapping, failing, cut short: what stands whole in the file was reported, in that order, the last one reported is there unless a write was cut, nothing is lost while runs stay apart; duplicates are kept out, the file parses. |
| Views | Three runs of a row of two repeats, two of them of one experiment and one of these with or without a fuzz configuration and trials, and a reader of any page between any two steps: a final row is shown with all of its results, a compared cell agrees with the last repeat of its row, whichever run it is of, no page names a file that is not there, turning pages misses no run. |
| Turn | Four calls in batches of up to two, three levels deep, under either adapter, with tools of any toolset, repeated results, missing ids, errors of calls and texts: one node per call, under its caller, outer calls side by side where the stream and the names tell, no error lost. |

The violated runs state what a document or a docstring of the repository says;
the entry under `findings` in `PROJECT.json` quotes it. The modules also show
things that no run states as a property:

- `TearDownEscapes`: a teardown that raises what is no `Exception` (it is
  cancelled, or exits) leaves the loop, and the teardowns after it never run
  (`runner.py:374`, against "always runs teardowns", `LIBRARY_SUMMARY.md:241`). In
  a set-up that is being unwound it becomes the exception of the set-up, whose
  verdict is an "error" whatever had broken it before. `VerdictMeansReleased`
  therefore speaks of the other verdicts.
- `CollectRaises`: results are written after all jobs, so an exception that
  leaves one job discards what the others reported. `MainRaises` in the middle of
  the writing leaves some of the results, but never a run that is closed:
  `ClosedMeansComplete` is what a reader may go by.
- An axis without cases: `max(1, ...)` in `_build_groups_async` asks for the case
  of index 0 all the same, which does not exist (`cli.py:442`).
- `Broken`: the error of a turn is a text, and that of an exception without
  arguments is empty: such a turn has the status "error", does not raise, and its
  message counts as answered (`scenario_core.py:818`).
- Two scenarios of one name in one module share their repeat rows, and the
  second overwrites the first (`registries.py:66`). `ImplementsLedger` holds
  because `Run` gives every job a row of its own.
- The turns of a simulated segment that an agent error stops are not captured
  (`isolated_generative.py:315`), so they can be neither shrunk nor extracted:
  the guard of `ToShrink` in `GenerativeRepeat`.
- `LlmPassEnds`: the LLM pass is not given the cap on verifications; it may
  verify more batches than `max_attempts_per_shrink` and reports no more than
  the cap (`shrink_engine.py:104`, against `fuzz_config.py:59`). `CapHolds`
  therefore leaves lists with such a pass out.
- `simplify` without a cap never ends for some messages: lower and upper case
  are variants of each other and of the same length, so each round accepts the
  other one, though the agent answers the same every time (`shrink_engine.py:90`
  and `:118`, against `LIBRARY_SUMMARY.md:661`). `Shrink` therefore gives such
  a pass a cap, under which `ShrinkEnds` holds.
- `StatusOf` in `RunOrchestration`: a scenario that a worker does not find has a
  result that is not ok and keeps the default status "passed", which is what its
  repeat row says (`runner.py:461`, against `LIBRARY_SUMMARY.md:758`).
- `Matches` in `GenerativeRepeat`: a signature holds the index of the turn, so
  that a candidate which fails the same check one turn earlier, as it must when
  a turn before it is removed, is refused (`generative.py:74`, against
  `LIBRARY_SUMMARY.md:102`).
- `SkipDuplicate`: of the four policies only `skip` is ever looked at; `replace`,
  `append_variant` and `error` append (`extraction_impl.py:472`, against
  `demo/README.md:88`: a re-run "overwrites the extracted file"). `WrittenInOrder`
  is about what the code does, whatever the policy.
- `HasFingerprint`: the fingerprint is made of the turns alone. The regression of
  another scenario with the same turns is skipped. It is looked for by a comment
  that is written before the scenario: a write that is cut after the comment
  leaves no scenario, and every later run skips it as "matching regression already
  present" (`extraction_impl.py:478`). `SkipKeepsOut` says that nothing is there
  twice, not that what is skipped is there.
- `WriteFails`, and runs that overlap: the file is emptied first, so a failed
  write loses what was there, and a run that read before another wrote takes
  away what that one reported as written. `WrittenInOrder` says what is left:
  nothing that was not reported, in order, and, without a cut, the last one.
- `Importable`: what is written is parsed, never imported. A regression appended
  to a source with a `__future__` import puts one in the middle of the file, and
  one that imports from a discovered module names a path-dependent module
  (`extraction_impl.py:647`, `discovery.py:24`, against `demo/README.md:77`); the
  next run cannot import the file.
- `cut` in `GenerativeRepeat`: replay answers a turn that had no answer. The
  signature counts turns, so a check that failed after such a turn is one turn
  later when it is replayed, its signature never matches, and the failure is
  never shrunk. `ReplayFindsCheck` leaves these out.
- `LatestRows` in `ResultViews` is the newest row of each key, not the rows of
  the newest run that `ReadHeaders` shows: a cell may come from an older run
  (`result_store.py:1179`, against the docstring at `:1124`, "pick its latest run"),
  and from a newer one, as the header is read first. A run that is under way, or was
  abandoned, hides the finished one before it with cells that are "skipped".
- `FinalRow`: a fuzzed row looks comparable until it is aggregated, and for ever
  if its probe failed; a key that was fuzzed in one experiment and failed in the
  probe of another is both excluded and compared; and a row that only simulates
  has trials under `--shrink` or `--extract` but no fuzz configuration, and is
  compared.
- `CreateRun`: a run is "passed" from its first transaction on. It is listed
  under that filter while it runs and leaves it when it fails, so that a client
  which turns pages skips another run: the exception in `PagingMissesNone`.
- `AddCalls`: of parallel calls that run agents, the calls of all hang under the
  one announced last that is still open, and parallel calls of an agent inside a
  tool nest in each other under Pydantic AI; and an outer call whose tool is of
  another toolset nests under whatever call is open, and a call of an inner agent
  whose tool bears the name of an outer one goes to the root
  (`pydantic_ai_adapter.py:103`, against the comment at `:101`): hence the proviso
  `Orderly`, and `inToolset` in `OuterCallsAreSiblings`.
- `failing` is never cleared: a text that is an error makes the turn an error
  even if a later text is not; so does a tool error the agent recovers from. An
  error that is the empty string is none (the outcome "blank").
- `StreamRaises` under Pydantic AI drops the calls made before the exception.

### Bounds

- Fixtures: three for all graphs, since a cycle, a diamond's half and a shared
  dependency need no more; four for the diamond.
- `MaxSteps` = 3, `MaxCalls` = 1: a step before, the step that fails, a step
  after, and one retry. `MaxTurns` cuts nothing off: no three steps with one
  retry produce as many turns as it allows. It is a guard only because a
  `Nat`-valued length has no bound of its own.
- Jobs: two rows of two repeats, so that a row is aggregated from two repeats,
  that another row exists, and that the pool of two has jobs waiting.
- Axes: one fixture declares up to two, the others up to one, so that axes
  overlap, disagree or come in another order.
- `MaxProposals` = 1 variant of the LLM for a message; `MaxCount` is where the
  counters saturate. It is above every cap (an assumption), so no decision of
  the engine depends on it; without a cap no counter is read.
- Conversations to shrink: up to three messages of one or two letters: a removal
  after a removal, a message with and without a shorter variant, one that grows
  with its case.
- `MaxPieces` = 2 and `MaxLog` = 3: a regression before, one more, and one
  written by another run in between.
- `MaxTrials` = 2 trials, enough for the order of completion to differ from the
  order of numbers; `MaxTurns` = 2 turns of a generative step.

- Views: a row of two repeats, so that a page may be read between the two results
  of a row and the last repeat is a choice; two runs of one experiment, so that the
  newest row is a choice, a third of another, so that there are two columns, and as
  many pages of the run list as runs (`PageSize` = 1). One run may write all a run
  can write; the second of its experiment gets as far as its first repeat, or to
  its end if that fails fast; the third comes before both and passes. The state is
  followed up to the answer (`Followed`). Several rows of a run are left to the
  theorems, which hold for any number.
- Turn: `MaxBatch` = 2 calls at a time and four calls let two parallel calls make
  one each, and a call inside a call inside a call; texts (`MaxTexts` = 2, so
  that one comes after an error) in turns of up to two calls, since what becomes
  of a text does not depend on the shape of the tree.
- Lists: up to two elements against three items with answers that change, and
  three against three with steady ones; `MaxPerm` = 2 (it is 9 in the code), so
  that both ways to ignore order are taken, and the search backtracks over an
  element it has already backtracked over.

### Fairness

`FairSpec` in `FixtureLifecycle` is weakly fair to the library's own steps, to
fixtures (which the user writes, and which are assumed to return, yield or
raise) and to the timeout, not to the body: it is the timeout that must end a
body that does not. `RunOrchestration` is weakly fair to main and to the jobs,
whose end is the business of the other modules, and not to `Kill` or
`MainRaises`. In `ScenarioSteps` and `ShrinkEngine` one process runs on an event
loop and waits only for agents, users and judges; weak fairness of `Next` says
that these answer or raise. It is weak, so an engine that runs in circles is
not helped out of them. The other specifications state no fairness and are
checked for safety only: a list match and a repeat consist of bounded loops over
comparisons and trials, runs die and streams break off.

## 5. Proofs

All theorems hold for every value of the constants that satisfies the named
assumption of the module (`FixtureAssumption`, `StepsAssumption`,
`ShrinkAssumption`, `MatchAssumption`, `TargetAssumption`, `RunAssumption`,
`GenerativeAssumption`, `ParamAssumption`, `TurnAssumption`, `ViewsAssumption`).
They ask for the types of the constants, for finitely many fixtures and runs,
and, of the declarations of axes, what `fixture()` and `normalize_cases` refuse
otherwise: an axis twice on a fixture, a case id twice on an axis. TLC evaluates
them in every run.

**RunOrchestration.** `Inv` says which jobs main holds (each once, ended, none by
an exception), that it left its loop with all of them or with one that is not ok
under fail-fast, what of them is in the store (those that arrived first, each
with the status of its result, the last perhaps without its details), that a row
is final only after all of them are, with the worst status of its jobs, and that
the run is closed last. A job that ended does not change (`HeldStays`), which
makes what main computes from memory the same as what it wrote. From `Inv`:
`FinalRowsHaveEvidence`, `ClosedMeansComplete` (all jobs are held once there are as
many as there are jobs: an injection of a finite set into itself; and nothing but
`Finish`, with all written, closes a run), and `ZeroMeansPassed`. `LevelsAgree` and the refinement `ImplementsLedger` need that
no two jobs share a repeat row (`OwnRepeats`), which the program does not enforce;
they are stated under that assumption, and `Run` has it.

**GenerativeRepeat.** The invariant is that only trials that ended are collected
and nothing is decided before all are, so that no trial runs afterwards
(`DecidedStays`); `ResultMeansAllTrials` follows for any number of trials, and so does
`FirstFailureIsShrunk`, that what is shrunk is the lowest trial with a signature,
with the least of a set of numbers from `LeastNat`. A trial with a signature is
not ok (`SignedFailed`), so the lowest trial that is not ok, which is the one
reported, is that one or has no signature: `ReportedFailureIsShrunk`. For
`ShrinkKeepsFailure`, replay depends on nothing that changes (`ReplayStays`), a
step that differs from what was captured was a candidate that matched, and
nothing is shrunk before it is captured. `RegressionReproducesAlone` puts it
together with `ReplayFindsCheck`: with one changed step the regression is the
candidate that matched, with none it is the replay of what was captured. Types
rest on `FlattenSeqType`.

`ReplayFindsCheck` compares the trial that failed with its replay, which says
each message whole, without a simulation that stops early. `Alike` says after
each step how the two stand: the check is about no answer (`Dangling`), the agent
has failed, both have failed with the same signature, or neither has failed and
no step that is looked at was cut. In the last case either both transcripts are
equal once the trial has been given the answer it owes (`Together`: it has as many
user turns in `Surplus` as it has `Debt`), or the replay lacks an answer for good
(`Behind`), and then every check to come dangles. `AlikeTurns` and `AlikeCheck` are
the two kinds of a step, `AlikeThroughout` the induction over the steps
(`UpToInduction`), with `FlattenAppend` for a transcript that is the concatenation
of what each step said. The invariant `OutcomesReplay` says it of every trial that
ended; that the failing trial is the one shrunk is `FirstFailureIsShrunk`.

**FixtureLifecycle.** `Inv` is the type invariant; the invariant of Kahn's
algorithm (`order` followed by `ready` lists each fixture once, everything
placed has its dependencies placed before it, `waiting[f]` is what of `deps[f]`
is not placed yet, and `ready` holds exactly the fixtures that wait for
nothing); for every phase what it has behind it; and that the teardown stack is
a subsequence of `order`. That a sort that got stuck met a cycle uses that the
fixtures left over all wait for one another: each has a dependency among them,
so that the set is a witness. From `Inv`: `SortVerdict`, `NoMissingDependency`,
`DependenciesOutlive`, `VerdictMeansReleased`, `PassedMeansComplete`, and the
refinement `ImplementsScope` (every step maps to a step of the scope or to a
stutter).

**ScenarioSteps.** `Inv` says who is next and which turn without error texts
`nextInput` points to, that everything after it has some, what a segment has said since `segFrom`
and that none of it was a reason to stop, and that exactly the steps before
`executed` have passed. It is proved with one lemma per action. All five
properties follow; the stop of a segment is an action property.

**ShrinkEngine.** `IInv`: types; `turns` is in `reproduced`; so is `original`;
`Accounts` (what is reported is the cap less the budget, and without an LLM pass
bounds the batches); `Consistent` (a deterministic agent refutes nothing it
reproduced); `Exhausted` (a removal pass left behind without a cap has refuted
every removal of what it left); and that "done" comes after the last pass. One-minimality of
the result needs `Exhausted`, since the passes are over when it is stated.
`OnlyRewritingGrows` and the range of `Chars` are inductions over the length of a
conversation, which the prover can do for a set (`SetInduction`, from the
well-foundedness of `<` on the naturals).

**ListMatch.** `IInv` has one part per algorithm: what the comparisons made so far
exclude. For the greedy pass, no increasing assignment that is certain can place
the next element before the next item; taking the first item that fits keeps
that. For the permutations, one that is certain is the current one or not tried
yet. For the search, no certain injection is `Behind` the current point in the
lexicographic order of assignments; backtracking keeps that because an injection
that agrees with all the choices would have to go on with an item, and all have
been refused. `MatchIsPossible` and `MismatchIsPossible` follow for lists of any
length; too few items is the pigeonhole theorem of the library, and that order
leaves one assignment between lists of the same length is `LeastNat`, twice.

**RegressionTarget.** `TargetInv`: what a run is about to write parses, ends with
a whole regression and keeps duplicates out; one run at most has the file open;
what it is about to write is, but for its last regression, in the order of the
log (`Ready`, `OrderedIn`); and as long as nothing went wrong there is one
extraction at a time, and it writes the log and one regression more (`Apart`). A part of a text keeps out what the text
keeps out (`BegunKeepsOut`), which covers every crash; `SplicedKeepsOut` is the
policy. All three invariants follow for any number of runs and scenarios.

**ParamCases.** The difficulty is in the operators. The merged axes are the
distinct names in the order of their first declaration, so their number of cases
does not depend on which declaration is read unless two disagree, which is what
`Inconsistent` is shown to say. The number of combinations is the product of the
bases, and an index is read digit by digit from the last axis to the first:
division and remainder are unique (`DivModUnique`), so an index below the product
has one sequence of digits and a sequence of digits one index (`Valued`,
`DigitsAre`, `SameRest`). Hence `CaseAt` is injective and onto the combinations,
for any number of axes of any length, the empty axis included:
`ExpansionIsProduct`. Since it holds of every order, two processes accept the same
declarations and have as many cases (`SameCount`: two intervals of indices onto
one set of combinations), so no index of main is out of range in a worker:
`NoJobIsRefused`. That the index also means the same case is what the run
`CasesSpawned` refutes.

**AgentTurn.** `TurnInv` ties the records of a call together: a call that runs and
was announced with an id has one node, pending, and one that ended has one node
with its outcome (`NodesMatchCalls`); a node hangs under an earlier one, so the tree has no cycle
(`NodesUnderEarlier`); the stack holds the nodes of the named calls that run, in
order (`StackIsOpenCalls`); who made a call that runs still runs (`CallersRun`);
calls announced together have one caller (`BatchesHold`); and, if the calls are
`Orderly`, of two open calls of different callers the later was announced when
the last of the earlier one's batch had begun to make calls (`LastCallGoesOn`),
which is why the top of the stack is the caller of what comes next. With what is known of
calls without an id and of texts this gives `OneNodePerCall`, `TreeMirrorsCalls`,
`OuterCallsAreSiblings` and `ErrorsReachStatus`, for any number of calls and any
size of a batch.

**ResultViews.** Two invariants, one per side. `WritersInv` says of each run in what
order it writes: the row of the run is there once it is created and final once
it is over (`RowFollows`), a blob file comes before the row that names it
(`BlobsFirst`), a saved repeat is complete but for the one being written
(`SavedWhole`), and a final row is what its repeats make it, which change no more
(`FinalRowsStand`). `ReaderInv` says what the reader may still rely on
between its statements: a final row it has read is final and the same in the
store (`ShownRowsStand`), what it has yet to count or open is there (`BeforeTotals`,
`BeforeFiles`), and what it has passed over of the run list was on an earlier page
(`BetweenPages`, with `Rank`, the number of runs before a run in the list, so that
a page is an interval of ranks). All four properties follow for any number of
runs, rows and repeats, and for a page of any size.

Only model-checked: liveness (`TimeoutBoundsJob`, `ScenarioEnds`, `RunEnds`,
`ShrinkEnds`), which rests on fairness and `ENABLED` and so is out of the prover's
reach. Every safety invariant, action property and refinement that a passing run
checks is also a theorem.

## 6. Not modelled

- Text: failure messages, transcripts, progress, the syntax tree of the source
  an extraction writes. The one number that is read back out of a text, the turn index of a
  signature, is modelled by its value.
- Matchers of one value (scalars, objects, rules, mappings), judges, strategies:
  a comparison of `ListMatch` and a check of `ScenarioSteps` pass or fail, a judge
  answers or raises, a strategy generates anything, by choice. Of a list that does
  not match, which failure is shown. They are pure functions of one value, and
  their difficulty is in the values.
- The agent frameworks behind the adapters: they are the environment of
  `AgentTurn`. A message whose announcement is streamed twice, which leaves nodes
  nobody completes, and the agent configuration taken from a scenario.
- The migration of an old schema, `clear` under the readers it deletes the store
  from, the list of regressions and percentiles, the web server and the front end.
- In `GenerativeRepeat`: the path within a signature, flaky agents (they are in
  `ShrinkEngine`), and a conversation that the agent begins.

## 7. Plan

Done: the modules above and the theorems of section 5. What would add most next:

1. What the four liveness properties rest on, as far as it is a statement about
   steps: a measure of the state that every fair step decreases and no other step
   increases, as action properties with proofs.
2. `ObjectMatch` (`match/object.py`, `match/rules.py`): fields first, conditional
   rules only after them, and what a condition on a missing field does.
3. `ResultViews` with `clear`, and with a run list that is paged by more than
   one client.
