------------------------------ MODULE ParamCases ------------------------------
(***************************************************************************)
(* The parameter cases of one scenario and the index that names a case     *)
(* between processes.  main expands the @parametrize axes of the           *)
(* scenario's fixtures into the list of their combinations, keeps a row    *)
(* per index, and sends a worker the index only; the worker imports the    *)
(* test files anew and expands the axes itself.                            *)
(*                                                                         *)
(* The order of the axes follows the order of the fixtures, which follows  *)
(* the iteration order of sets of names: fixed within a process by its     *)
(* hash seed.  A forked worker shares main's seed, a spawned one has its   *)
(* own, so the order of every process is chosen on its own.                *)
(***************************************************************************)
EXTENDS Integers, Sequences, FiniteSets, SequencesExt

CONSTANTS
  Fixture,      \* the fixtures of the scenario
  Deps,         \* Deps[f]: the fixtures f depends on
  Axis,         \* the names of axes
  CaseId,       \* the ids of cases
  Declarations, \* what decl may be: f -> sequence of [axis, cases]
  Worker,       \* the processes of the pool; {} when main runs the jobs itself
  Repeats       \* @scenario(repeats=...)

Declaration == [axis : Axis, cases : Seq(CaseId)]

(* fixture() refuses a second declaration of an axis on a fixture,         *)
(* normalize_cases a second case of an id.                                 *)
ASSUME ParamAssumption ==
  /\ IsFiniteSet(Fixture)
  /\ Deps \in [Fixture -> SUBSET Fixture]
  /\ Declarations \subseteq [Fixture -> Seq(Declaration)]
  /\ \A ds \in Declarations : \A f \in Fixture :
       \A i, j \in DOMAIN ds[f] : ds[f][i].axis = ds[f][j].axis => i = j
  /\ \A ds \in Declarations : \A f \in Fixture : \A d \in ToSet(ds[f]) :
       \A i, j \in DOMAIN d.cases : d.cases[i] = d.cases[j] => i = j
  /\ Repeats \in Nat \ {0}

CONSTANT main   \* the parent process
Process == Worker \cup {main}

VARIABLES
  decl,         \* decl[f]: the axes declared on f, in order, with their cases
  orderIn,      \* orderIn[p]: the order of the fixtures in process p
  phase,        \* "collected", "expanded" or "refused"
  ran,          \* ran[<<ix, k>>]: the case repeat k of row ix ran, once it did
  turnedDown    \* the repeats a process could not run

casesVars == <<decl, orderIn, phase, ran, turnedDown>>

(* The orders _topo_fixture_order may return.                              *)
Orders ==
  {s \in SetToSeqs(Fixture) :
     \A i \in DOMAIN s : Deps[s[i]] \subseteq {s[j] : j \in 1..(i - 1)}}

(***************************************************************************)
(* _merge_param_axes: the axes in the order of their first declaration.    *)
(* The first declaration gives the cases, every other must repeat them.    *)
(***************************************************************************)
Declared(order) == FlattenSeq([i \in DOMAIN order |-> decl[order[i]]])

Names(order) ==
  LET ds == Declared(order)
      upTo[i \in 0..Len(ds)] ==
        IF i = 0 THEN <<>>
        ELSE LET seen == upTo[i - 1]
             IN  IF Contains(seen, ds[i].axis) THEN seen ELSE Append(seen, ds[i].axis)
  IN  upTo[Len(ds)]

CasesOf(order, a) ==
  LET ds == Declared(order)
  IN  ds[CHOOSE i \in DOMAIN ds : ds[i].axis = a /\ \A j \in 1..(i - 1) : ds[j].axis # a].cases

(* Mutant: only the number of cases is compared.                           *)
InconsistentByLength(order) ==
  \E d \in ToSet(Declared(order)) : Len(d.cases) # Len(CasesOf(order, d.axis))

(* Mutant: the cases are compared in pairs, the lengths are not.           *)
InconsistentInPairs(order) ==
  \E d \in ToSet(Declared(order)) :
    LET first == CasesOf(order, d.axis)
    IN  \E i \in DOMAIN d.cases \cap DOMAIN first : d.cases[i] # first[i]

Inconsistent(order) ==
  \E d \in ToSet(Declared(order)) : d.cases # CasesOf(order, d.axis)

(***************************************************************************)
(* scenario_case_runs: itertools.product over the axes, the last axis      *)
(* changing fastest.  The index of a combination, read with the numbers of *)
(* cases as bases, has the positions of its cases for digits.              *)
(***************************************************************************)
Bases(order) ==
  LET names == Names(order)
  IN  [i \in 1..Len(names) |-> Len(CasesOf(order, names[i]))]

CaseCount(order) ==
  LET bases == Bases(order)
      upTo[i \in 0..Len(bases)] == IF i = 0 THEN 1 ELSE upTo[i - 1] * bases[i]
  IN  upTo[Len(bases)]

(* The index without its last k digits.                                    *)
DropDigits(order, ix) ==
  LET bases == Bases(order)
      drop[k \in 0..Len(bases)] ==
        IF k = 0 THEN ix ELSE drop[k - 1] \div bases[Len(bases) - k + 1]
  IN  drop

CaseAt(order, ix) ==
  LET names == Names(order)
      bases == Bases(order)
      rest == DropDigits(order, ix)
      digit == [i \in DOMAIN names |-> rest[Len(names) - i] % bases[i]]
  IN  [a \in ToSet(names) |->
         LET i == CHOOSE k \in DOMAIN names : names[k] = a
         IN  CasesOf(order, a)[digit[i] + 1]]

Rows == 0..(CaseCount(orderIn[main]) - 1)
RowCase(ix) == CaseAt(orderIn[main], ix)

-----------------------------------------------------------------------------
CasesInit ==
  /\ decl \in Declarations
  /\ orderIn \in [Process -> Orders]
  /\ phase = "collected"
  /\ ran = <<>>
  /\ turnedDown = {}

(***************************************************************************)
(* main builds a row per combination; an axis declared with different      *)
(* cases on two fixtures raises ValueError.  An axis without a case gives  *)
(* no row: _build_groups_async goes on with index 0 all the same           *)
(* (max(1, ...)), where it finds no case and raises IndexError, or gets an *)
(* error from the probe of a generative scenario; no job of a row is built.*)
(***************************************************************************)
Expand ==
  /\ phase = "collected"
  /\ IF Inconsistent(orderIn[main]) \/ CaseCount(orderIn[main]) = 0
     THEN phase' = "refused"
     ELSE phase' = "expanded"
  /\ UNCHANGED <<decl, orderIn, ran, turnedDown>>

(* The jobs main hands out, by row and repeat.                             *)
CaseJobs == IF phase = "expanded" THEN Rows \X (1..Repeats) ELSE {}

(***************************************************************************)
(* A process takes the job of row ix and runs what the index means to it.  *)
(* It may refuse: its own expansion finds the declarations inconsistent,   *)
(* or no case at that index (the first return of run_scenario_job).        *)
(***************************************************************************)
RunJob(p, ix, k) ==
  /\ <<ix, k>> \in CaseJobs \ (DOMAIN ran \cup turnedDown)
  /\ IF Inconsistent(orderIn[p]) \/ ix >= CaseCount(orderIn[p])
     THEN /\ turnedDown' = turnedDown \cup {<<ix, k>>}
          /\ UNCHANGED ran
     ELSE /\ ran' = [j \in DOMAIN ran \cup {<<ix, k>>} |->
                       IF j = <<ix, k>> THEN CaseAt(orderIn[p], ix) ELSE ran[j]]
          /\ UNCHANGED turnedDown
  /\ UNCHANGED <<decl, orderIn, phase>>

Runner == IF Worker = {} THEN {main} ELSE Worker

AllRan == phase = "expanded" /\ CaseJobs \subseteq DOMAIN ran \cup turnedDown

Rest == (phase = "refused" \/ AllRan) /\ UNCHANGED casesVars

CasesNext ==
  \/ Expand
  \/ \E p \in Runner : \E j \in CaseJobs : RunJob(p, j[1], j[2])
  \/ Rest

CasesSpec == CasesInit /\ [][CasesNext]_casesVars

-----------------------------------------------------------------------------
(* The combinations that give every axis one of its cases, for the         *)
(* declarations as they stand.                                             *)
Combinations ==
  LET all == UNION {ToSet(decl[f]) : f \in Fixture}
  IN  {g \in [{d.axis : d \in all} -> CaseId] : \A d \in all : g[d.axis] \in ToSet(d.cases)}

(***************************************************************************)
(* Whatever order a process finds, it refuses exactly the declarations     *)
(* that disagree on an axis, and otherwise the expansion is the product:   *)
(* every index names a combination, and every combination has one index    *)
(* (LIBRARY_SUMMARY.md: all combinations).                                 *)
(***************************************************************************)
ExpansionIsProduct ==
  \A p \in Process :
    LET order == orderIn[p]
        disagree == \E f, g \in Fixture : \E d \in ToSet(decl[f]), e \in ToSet(decl[g]) :
                      d.axis = e.axis /\ d.cases # e.cases
        indices == 0..(CaseCount(order) - 1)
    IN  IF disagree
        THEN Inconsistent(order)
        ELSE /\ ~Inconsistent(order)
             /\ {CaseAt(order, ix) : ix \in indices} = Combinations
             /\ \A i, j \in indices : CaseAt(order, i) = CaseAt(order, j) => i = j

(***************************************************************************)
(* A job that main could build can be run wherever it lands: processes     *)
(* with different hash seeds merge the axes in different orders, but none  *)
(* refuses declarations that main accepted and none has fewer cases, so an *)
(* index of main is never out of range in a worker.                        *)
(***************************************************************************)
NoJobIsRefused == turnedDown = {}

(***************************************************************************)
(* The N repeats of a row run "the same scenario case" (LIBRARY_SUMMARY.md *)
(* :330), and it is the case main has recorded for the row.                *)
(***************************************************************************)
RepeatsRunRowCase ==
  \A j \in DOMAIN ran : ran[j] = RowCase(j[1])

=============================================================================
