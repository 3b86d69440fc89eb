--------------------------- MODULE FixtureLifecycle ---------------------------
(***************************************************************************)
(* One execution of a scenario around its fixtures: fixture_graph.py sorts *)
(* the fixtures the scenario needs and sets them up; the caller runs the   *)
(* scenario and tears the fixtures down.  The caller is run_scenario_job   *)
(* of runner.py ("job") or _run_single_trial of isolated_generative.py     *)
(* ("trial"): both hold the same try/except/finally around                 *)
(* resolve_fixtures, and differ in the timeout and in how an               *)
(* AssertionError raised by a fixture leaves them.                         *)
(*                                                                         *)
(* The order in which Python iterates a set of names is arbitrary: every   *)
(* such iteration is a nondeterministic choice.  What a fixture or a       *)
(* scenario does is the environment's choice.                              *)
(***************************************************************************)
EXTENDS Integers, Sequences, FiniteSets, Functions

CONSTANTS
  Fixture,      \* the registered fixtures (registries._fixtures)
  Graphs,       \* the dependency graphs considered, functions Fixture -> SUBSET Fixture
  RootSets,     \* the sets of fixtures a scenario may name
  HasTimeout    \* does @scenario(timeout_s=...) set a timeout?

ASSUME FixtureAssumption ==
  /\ IsFiniteSet(Fixture)
  /\ Graphs \subseteq [Fixture -> SUBSET Fixture]
  /\ RootSets \subseteq SUBSET Fixture
  /\ HasTimeout \in BOOLEAN

VARIABLES
  caller,       \* who called resolve_fixtures: "job" or "trial"
  deps,         \* deps[f]: the fixtures among the parameters of f (fd.dep_names)
  roots,        \* agent_fixture, user_fixture and the scenario's own parameters
  phase,        \* where the execution stands
  order,        \* the order under construction, then the order of set-up
  ready,        \* the deque of _topo_fixture_order
  waiting,      \* waiting[f]: dependencies of f not in order yet; in_degree is its size
  built,        \* how many fixtures of order have a value
  open,         \* the teardowns still to run, registered last first to run
  closed,       \* the fixtures whose teardown was started
  yielded,      \* history: the fixtures whose set-up left something to tear down
  raised,       \* the exception on its way out of resolve_fixtures
  verdict       \* JobResult.status, or the outcome of a trial; "none" before

vars == <<caller, deps, roots, phase, order, ready, waiting, built, open,
          closed, yielded, raised, verdict>>

graph == <<caller, deps, roots>>
sorting == <<order, ready, waiting>>

(***************************************************************************)
(* The three classes of exception the callers tell apart.  AssertionError  *)
(* includes ScenarioAssertionFailed; "other" includes CancelledError and   *)
(* every other BaseException.                                              *)
(***************************************************************************)
Exception == {"assertion", "timeout", "other"}

(* S is closed under dependencies.                                         *)
DepClosed(S) == \A f \in S : deps[f] \subseteq S

(* The breadth-first search of _collect_needed_fixture_names computes the  *)
(* least closed set that holds the roots.                                  *)
Needed == {f \in Fixture : \A S \in SUBSET Fixture :
             roots \subseteq S /\ DepClosed(S) => f \in S}

(* Every way to list a finite set.                                         *)
Listings(S) == {s \in [1..Cardinality(S) -> S] : IsInjective(s) /\ Range(s) = S}

(* How a caller turns an exception into a verdict.                         *)
VerdictOf(exc) ==
  CASE exc = "assertion" -> "failed"
    [] exc = "timeout" /\ caller = "job" -> "timeout"
    [] OTHER -> "error"

-----------------------------------------------------------------------------
Init ==
  /\ caller \in {"job", "trial"}
  /\ deps \in Graphs
  /\ roots \in RootSets
  /\ phase = "sorting"
  /\ order = <<>>
  /\ waiting = [f \in Needed |-> deps[f]]
  /\ ready \in Listings({f \in Needed : deps[f] = {}})
  /\ built = 0
  /\ open = <<>>
  /\ closed = {}
  /\ yielded = {}
  /\ raised = "none"
  /\ verdict = "none"

(***************************************************************************)
(* One round of Kahn's loop: the head of the deque joins the order, the    *)
(* fixtures that waited only for it join the deque.                        *)
(***************************************************************************)
Place ==
  /\ phase = "sorting"
  /\ ready # <<>>
  /\ LET f == Head(ready)
         freed == {g \in Needed : f \in deps[g] /\ waiting[g] = {f}}
     IN  /\ order' = Append(order, f)
         /\ waiting' = [g \in Needed |-> waiting[g] \ {f}]
         /\ \E batch \in Listings(freed) : ready' = Tail(ready) \o batch
  /\ UNCHANGED <<graph, phase, built, open, closed, yielded, raised, verdict>>

(* Mutant: the length of the order is not checked.                         *)
StartSetupUnchecked ==
  /\ phase = "sorting"
  /\ ready = <<>>
  /\ phase' = "setup"
  /\ UNCHANGED <<graph, sorting, built, open, closed, yielded, raised, verdict>>

(* The loop is over and every fixture has its place.                       *)
StartSetup ==
  /\ phase = "sorting"
  /\ ready = <<>>
  /\ Len(order) = Cardinality(Needed)
  /\ phase' = "setup"
  /\ UNCHANGED <<graph, sorting, built, open, closed, yielded, raised, verdict>>

(* The loop is over and some fixture has none: RuntimeError, raised before *)
(* the caller's try, so no result is produced.                             *)
RejectCycle ==
  /\ phase = "sorting"
  /\ ready = <<>>
  /\ Len(order) # Cardinality(Needed)
  /\ phase' = "raised"
  /\ UNCHANGED <<graph, sorting, built, open, closed, yielded, raised, verdict>>

(***************************************************************************)
(* The next fixture is called with the values of its dependencies.  A      *)
(* generator that yields registers its teardown; a plain fixture, or a     *)
(* synchronous generator that returns without yielding, only gives a value *)
(* (an asynchronous one that does so raises: StopAsyncIteration has none). *)
(***************************************************************************)
ValueOf(f) == \E i \in 1..built : order[i] = f

SetUp(f) ==
  /\ phase = "setup"
  /\ built < Len(order)
  /\ f = order[built + 1]
  /\ \A d \in deps[f] : ValueOf(d)
  /\ built' = built + 1
  /\ UNCHANGED <<graph, sorting, phase, closed, raised, verdict>>

SetUpYields(f) ==
  /\ SetUp(f)
  /\ open' = Append(open, f)
  /\ yielded' = yielded \cup {f}

SetUpReturns(f) == SetUp(f) /\ UNCHANGED <<open, yielded>>

(* Mutant: set-up stops at the exception and the scenario runs.            *)
SetUpRaisesSwallowed(exc) ==
  /\ phase = "setup"
  /\ built < Len(order)
  /\ phase' = "body"
  /\ UNCHANGED <<graph, sorting, built, open, closed, yielded, raised, verdict>>

(* The fixture raises, is cancelled, or _dep_value finds no value for one  *)
(* of its parameters.                                                      *)
SetUpRaises(exc) ==
  /\ phase = "setup"
  /\ built < Len(order)
  /\ phase' = "unwinding"
  /\ raised' = exc
  /\ UNCHANGED <<graph, sorting, built, open, closed, yielded, verdict>>

(* resolve_fixtures returns; the caller builds the scenario and runs it.   *)
StartBody ==
  /\ phase = "setup"
  /\ built = Len(order)
  /\ phase' = "body"
  /\ UNCHANGED <<graph, sorting, built, open, closed, yielded, raised, verdict>>

-----------------------------------------------------------------------------
BodyReturns ==
  /\ phase = "body"
  /\ phase' = "teardown"
  /\ verdict' = "passed"
  /\ UNCHANGED <<graph, sorting, built, open, closed, yielded, raised>>

BodyRaises(exc) ==
  /\ phase = "body"
  /\ phase' = "teardown"
  /\ verdict' = VerdictOf(exc)
  /\ UNCHANGED <<graph, sorting, built, open, closed, yielded, raised>>

(* Mutant: the timeout is given to the wrong caller.                       *)
BodyTimesOutTrial ==
  /\ HasTimeout
  /\ caller = "trial"
  /\ BodyRaises("timeout")

(* asyncio.wait_for cancels the body; a trial has no timeout.              *)
BodyTimesOut ==
  /\ HasTimeout
  /\ caller = "job"
  /\ BodyRaises("timeout")

-----------------------------------------------------------------------------
(* The teardown loops, of resolve_fixtures when set-up failed and of the   *)
(* caller otherwise, run the same way: last registered first, an Exception *)
(* raised by a teardown is dropped and the loop goes on.                   *)
Unwinding == phase \in {"unwinding", "teardown"}

Front(s) == SubSeq(s, 1, Len(s) - 1)

(* Mutant: the loop forgets reversed().                                    *)
TearDownOldest ==
  /\ Unwinding
  /\ open # <<>>
  /\ closed' = closed \cup {Head(open)}
  /\ open' = Tail(open)
  /\ UNCHANGED <<graph, sorting, phase, built, yielded, raised, verdict>>

TearDown ==
  /\ Unwinding
  /\ open # <<>>
  /\ closed' = closed \cup {open[Len(open)]}
  /\ open' = Front(open)
  /\ UNCHANGED <<graph, sorting, phase, built, yielded, raised, verdict>>

(* Mutant: the result keeps the class of what broke the set-up.            *)
TearDownEscapesKept ==
  /\ Unwinding
  /\ open # <<>>
  /\ closed' = closed \cup {open[Len(open)]}
  /\ open' = Front(open)
  /\ IF phase = "unwinding"
     THEN phase' = "finished" /\ verdict' = VerdictOf(raised)
     ELSE phase' = "raised" /\ verdict' = "none"
  /\ UNCHANGED <<graph, sorting, built, yielded, raised>>

(* A teardown that lets a BaseException out which is no Exception (a       *)
(* cancellation, SystemExit, the outcomes of pytest) ends the loop: the    *)
(* caller of resolve_fixtures still turns it into a result, but nothing is *)
(* left to catch it when the caller's own loop is hit.                     *)
TearDownEscapes ==
  /\ Unwinding
  /\ open # <<>>
  /\ closed' = closed \cup {open[Len(open)]}
  /\ open' = Front(open)
  /\ IF phase = "unwinding"
     THEN phase' = "finished" /\ verdict' = VerdictOf("other")
     ELSE phase' = "raised" /\ verdict' = "none"
  /\ UNCHANGED <<graph, sorting, built, yielded, raised>>

Report ==
  /\ phase = "teardown"
  /\ open = <<>>
  /\ phase' = "finished"
  /\ UNCHANGED <<graph, sorting, built, open, closed, yielded, raised, verdict>>

(* The exception of a failed set-up reaches the caller.  In a trial an     *)
(* AssertionError finds no scenario yet: reading its turns raises          *)
(* AttributeError in the handler, and that leaves the trial.               *)
ReportSetupFailure ==
  /\ phase = "unwinding"
  /\ open = <<>>
  /\ IF caller = "trial" /\ raised = "assertion"
     THEN phase' = "raised" /\ UNCHANGED verdict
     ELSE phase' = "finished" /\ verdict' = VerdictOf(raised)
  /\ UNCHANGED <<graph, sorting, built, open, closed, yielded, raised>>

(* Nothing happens to an execution that is over.                           *)
Terminated == phase \in {"finished", "raised"}

Rest == Terminated /\ UNCHANGED vars

-----------------------------------------------------------------------------
LibraryStep ==
  \/ Place
  \/ StartSetup
  \/ RejectCycle
  \/ StartBody
  \/ TearDown
  \/ TearDownEscapes
  \/ Report
  \/ ReportSetupFailure

FixtureStep ==
  \/ \E f \in Fixture : SetUpYields(f) \/ SetUpReturns(f)
  \/ \E exc \in Exception : SetUpRaises(exc)

Next ==
  \/ LibraryStep
  \/ FixtureStep
  \/ BodyReturns
  \/ \E exc \in Exception : BodyRaises(exc)
  \/ BodyTimesOut
  \/ Rest

Spec == Init /\ [][Next]_vars

(***************************************************************************)
(* The event loop runs what is ready to run and fixture code returns; a    *)
(* scenario body may await for ever, but not past its timeout.             *)
(***************************************************************************)
Fairness ==
  /\ WF_vars(LibraryStep)
  /\ WF_vars(FixtureStep)
  /\ WF_vars(BodyTimesOut)

FairSpec == Spec /\ Fairness

-----------------------------------------------------------------------------
TypeOK ==
  /\ caller \in {"job", "trial"}
  /\ deps \in [Fixture -> SUBSET Fixture]
  /\ roots \in SUBSET Fixture
  /\ phase \in {"sorting", "setup", "body", "unwinding", "teardown", "finished", "raised"}
  /\ order \in Seq(Fixture)
  /\ ready \in Seq(Fixture)
  /\ waiting \in [Needed -> SUBSET Fixture]
  /\ built \in 0..Len(order)
  /\ open \in Seq(Fixture)
  /\ closed \in SUBSET Fixture
  /\ yielded \in SUBSET Fixture
  /\ raised \in Exception \cup {"none"}
  /\ verdict \in {"none", "passed", "failed", "error", "timeout"}

-----------------------------------------------------------------------------
(* f needs g, directly or through other fixtures: g is in every closed set *)
(* that holds what f names.                                                *)
DependsOn(f, g) ==
  \A S \in SUBSET Fixture : deps[f] \subseteq S /\ DepClosed(S) => g \in S

(* A set of needed fixtures each waiting for another one of the set.       *)
Cyclic ==
  \E S \in SUBSET Needed : S # {} /\ \A f \in S : deps[f] \cap S # {}

(***************************************************************************)
(* Whatever the iteration order of the sets, Kahn's loop refuses a         *)
(* scenario only if its fixtures hold a cycle, and sets up no fixture of a *)
(* scenario whose fixtures do (the RuntimeError of _topo_fixture_order).   *)
(***************************************************************************)
SortVerdict ==
  /\ phase = "sorting" /\ ready = <<>> /\ Len(order) # Cardinality(Needed) => Cyclic
  /\ phase \notin {"sorting", "raised"} => ~Cyclic

(***************************************************************************)
(* _dep_value never raises its KeyError for a fixture parameter: when a    *)
(* fixture's turn comes, all its dependencies have a value.                *)
(***************************************************************************)
NoMissingDependency ==
  phase = "setup" /\ built < Len(order) =>
    \A d \in deps[order[built + 1]] : ValueOf(d)

(***************************************************************************)
(* While a fixture waits for its teardown, nothing it depends on, however  *)
(* indirectly and through fixtures that have no teardown, has been torn    *)
(* down (the two reversed() loops).                                        *)
(***************************************************************************)
DependenciesOutlive ==
  \A f \in Range(open), g \in closed : ~DependsOn(f, g)

(***************************************************************************)
(* Where a result says "passed", "failed" or "timeout", every fixture that *)
(* yielded, in this set-up or a broken one, has had its teardown started.  *)
(* What an escaping teardown leaves open shows as an "error" when it broke *)
(* the loop of resolve_fixtures, whatever had broken the set-up, and gives *)
(* no result at all when it broke the caller's.                            *)
(***************************************************************************)
VerdictMeansReleased ==
  /\ phase = "finished" /\ ~(yielded \subseteq closed) =>
       verdict = "error" /\ raised # "none"
  /\ phase = "raised" => verdict = "none"

(***************************************************************************)
(* "passed" is never reported for a scenario some fixture of which was not *)
(* set up: the initial status of run_scenario_job is "passed" and every    *)
(* early way out must overwrite it.                                        *)
(***************************************************************************)
PassedMeansComplete ==
  verdict = "passed" => /\ raised = "none"
                        /\ \A f \in Needed : ValueOf(f)

(***************************************************************************)
(* An execution with a timeout ends: wait_for cancels a body that hangs,   *)
(* and the teardowns run after it.  Nothing bounds a trial.                *)
(***************************************************************************)
TimeoutBoundsJob == (HasTimeout /\ caller = "job") ~> Terminated

(***************************************************************************)
(* The fixtures of an execution form a resource scope.                     *)
(***************************************************************************)
ScopeState ==
  CASE phase \in {"sorting", "setup"} -> "opening"
    [] phase = "body" -> "using"
    [] phase \in {"unwinding", "teardown"} -> "closing"
    [] OTHER -> IF open = <<>> THEN "over" ELSE "torn"

Scope == INSTANCE ResourceScope WITH
  Resource <- Fixture,
  requires <- deps,
  held <- open,
  available <- {order[i] : i \in 1..built},
  state <- ScopeState

ImplementsScope == Scope!Spec

=============================================================================
