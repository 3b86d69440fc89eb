------------------------ MODULE RunOrchestrationProofs ------------------------
(***************************************************************************)
(* What holds of RunOrchestration for every number of rows, jobs and       *)
(* workers, in every mode: what the store holds at each step, and with it  *)
(* that a run implements the ledger of RunLedger.                          *)
(***************************************************************************)
EXTENDS RunOrchestration, FiniteSetTheorems, FunctionTheorems, TLAPS

-----------------------------------------------------------------------------
(* The inductive invariant.                                                *)

(* A job arrives at main once, with an outcome; those main holds did not   *)
(* raise.                                                                  *)
ArrivesOnce ==
  /\ \A i, k \in 1..Len(completed) : completed[i] = completed[k] => i = k
  /\ \A i, k \in 1..Len(paired) : paired[i] = paired[k] => i = k
  /\ \A i \in 1..Len(completed), k \in 1..Len(paired) : completed[i] # paired[k]
  /\ \A i \in 1..Len(completed) : job[completed[i]] \in Outcome
  /\ \A i \in 1..Len(paired) : job[paired[i]] \in Result

(* Main left the loop because it has all results, or one that is not ok.   *)
LeftLoop ==
  \/ Len(paired) = Jobs
  \/ mode = "failfast" /\ \E i \in 1..Len(paired) : ~Ok(paired[i])

(* No result has been written.                                             *)
Unwritten ==
  /\ saved = 0 /\ ~half /\ aggregated = 0
  /\ \A id \in RepeatId : repeat[id] = "absent"

Stages ==
  /\ exit = "none" <=> phase # "over"
  /\ phase \in {"start", "empty"} => seeded = 0
  /\ phase \notin {"persisting", "over"} => Unwritten
  /\ phase = "persisting" \/ ~Unwritten => LeftLoop

(* Fail-fast takes a job only when all before it are held and ok.          *)
Serial ==
  mode = "failfast" =>
    /\ phase \notin {"persisting", "over"} => \A i \in 1..Len(paired) : Ok(paired[i])
    /\ \A j, k \in Job : k < j /\ job[j] # "waiting" => k \in Collected /\ Ok(k)

(* The results written: those that arrived first, with their details, and  *)
(* half of the next one.                                                   *)
Saved == IF half THEN saved + 1 ELSE saved

WrittenInOrder ==
  /\ Saved <= Len(paired)
  /\ \A i \in 1..Saved : repeat[Id(paired[i])] # "absent"
  /\ \A i \in 1..saved : Id(paired[i]) \in details
  /\ \A id \in RepeatId : repeat[id] # "absent" =>
       \E i \in 1..Saved : id = Id(paired[i]) /\ repeat[id] = StatusOf(paired[i])

RowsFollow ==
  /\ aggregated > 0 => saved = Len(paired) /\ ~half
  /\ \A r \in Row : scenario[r] \in Verdict => r <= aggregated
  /\ \A r \in Row : r <= aggregated => scenario[r] = Worst(RowStatuses(r))

ClosedLast ==
  /\ ~run.finished => run.status \in {"absent", "passed"}
  /\ run.finished =>
       /\ phase = "over" /\ exit \in {"0", "1"} /\ aggregated = Rows
       /\ run.status = Worst(Range(scenario))
  /\ exit = "0" /\ seeded > 0 =>
       run.finished /\ \A i \in 1..Len(paired) : Ok(paired[i])

Inv ==
  /\ TypeOK
  /\ ArrivesOnce
  /\ Stages
  /\ Serial
  /\ WrittenInOrder
  /\ RowsFollow
  /\ ClosedLast

-----------------------------------------------------------------------------
(* Types.                                                                  *)

(* What main holds and waits for are jobs.                                 *)
LEMMA ArrivalFacts ==
  ASSUME TypeOK
  PROVE  /\ Len(completed) \in Nat /\ Len(paired) \in Nat
         /\ DOMAIN completed = 1..Len(completed) /\ DOMAIN paired = 1..Len(paired)
         /\ \A i \in 1..Len(completed) : completed[i] \in Job
         /\ \A i \in 1..Len(paired) : paired[i] \in Job
         /\ Collected \subseteq Job
         /\ \A j \in Collected : \E i \in 1..Len(paired) : paired[i] = j
         /\ \A i \in 1..Len(paired) : paired[i] \in Collected
BY DEF TypeOK, Collected, Range

(* A job has a row and an entry of its repeat.                             *)
LEMMA JobFacts ==
  ASSUME NEW j \in Job
  PROVE  RowOf[j] \in Row /\ Id(j) \in RepeatId /\ Id(j)[1] = RowOf[j]
BY RunAssumption DEF Id, RepeatId

(* The worst of any statuses is a verdict.                                 *)
LEMMA WorstType == ASSUME NEW S PROVE Worst(S) \in Verdict
BY DEF Worst, Verdict

(* Collecting moves the first job that has ended to those main holds.      *)
LEMMA CollectFacts ==
  ASSUME TypeOK, completed # <<>>, NEW j, j = Head(completed),
         completed' = Tail(completed)
  PROVE  /\ j \in Job /\ j = completed[1] /\ 1 \in 1..Len(completed)
         /\ completed' \in Seq(Job) /\ Len(completed') = Len(completed) - 1
         /\ \A i \in 1..Len(completed') : completed'[i] = completed[i + 1]
         /\ Append(paired, j) \in Seq(Job) /\ Len(Append(paired, j)) = Len(paired) + 1
         /\ \A i \in 1..Len(paired) : Append(paired, j)[i] = paired[i]
         /\ Append(paired, j)[Len(paired) + 1] = j
BY DEF TypeOK

LEMMA InitType == Init => TypeOK
<1> SUFFICES ASSUME Init PROVE TypeOK
  OBVIOUS
<1>1. <<>> \in Seq(Job) /\ Len(<<>>) = 0 /\ Rows \in Nat
  BY RunAssumption
<1>2. /\ run \in [status : Verdict \cup {"absent"}, finished : BOOLEAN]
      /\ scenario \in [Row -> Verdict \cup {"absent", "skipped"}]
      /\ repeat \in [RepeatId -> Verdict \cup {"absent"}]
      /\ job \in [Job -> {"waiting", "running"} \cup Outcome]
  BY DEF Init
<1>3. /\ mode \in Modes /\ phase = "start" /\ completed = <<>> /\ paired = <<>>
      /\ saved = 0 /\ half = FALSE /\ seeded = 0 /\ aggregated = 0
      /\ details = {} /\ exit = "none"
  BY DEF Init
<1>4. completed \in Seq(Job) /\ paired \in Seq(Job) /\ Len(paired) = 0
  BY <1>1, <1>3
<1>5. saved \in 0..Len(paired) /\ seeded \in 0..Rows /\ aggregated \in 0..Rows
  BY <1>1, <1>3, <1>4
<1> QED BY <1>2, <1>3, <1>4, <1>5 DEF TypeOK

LEMMA NextType == TypeOK /\ ArrivesOnce /\ WrittenInOrder /\ [Next]_vars => TypeOK'
<1> SUFFICES ASSUME TypeOK, ArrivesOnce, WrittenInOrder, [Next]_vars PROVE TypeOK'
  OBVIOUS
<1> USE DEF jobs, progress, store
<1>1. CASE CreateRun
  <2>1. run' \in [status : Verdict \cup {"absent"}, finished : BOOLEAN]
    BY <1>1 DEF CreateRun, Verdict
  <2> QED BY <1>1, <2>1 DEF CreateRun, TypeOK
<1>2. CASE NothingToRun \/ BuildGroups
  BY <1>2 DEF NothingToRun, BuildGroups, Over, TypeOK
<1>3. CASE SeedRow
  <2>1. seeded' \in 0..Rows
    BY <1>3, RunAssumption DEF SeedRow, TypeOK
  <2>2. scenario' \in [Row -> Verdict \cup {"absent", "skipped"}]
    BY <1>3 DEF SeedRow, TypeOK
  <2> QED BY <1>3, <2>1, <2>2 DEF SeedRow, TypeOK
<1>4. ASSUME NEW j \in Job, Start(j) PROVE TypeOK'
  BY <1>4 DEF Start, TypeOK
<1>5. ASSUME NEW j \in Job, NEW o \in Outcome, Complete(j, o) PROVE TypeOK'
  <2>1. completed' \in Seq(Job)
    BY <1>5 DEF Complete, TypeOK
  <2> QED BY <1>5, <2>1 DEF Complete, TypeOK
<1>6. CASE Collect
  <2> DEFINE j == Head(completed)
  <2>1. /\ completed # <<>> /\ completed' = Tail(completed)
        /\ paired' = Append(paired, j)
        /\ phase' \in {"running", "persisting"}
        /\ UNCHANGED <<mode, job, progress, store, exit>>
    BY <1>6 DEF Collect
  <2>2. paired' \in Seq(Job) /\ completed' \in Seq(Job) /\ Len(paired') = Len(paired) + 1
    BY <2>1, CollectFacts
  <2>3. saved' \in 0..Len(paired')
    BY <2>1, <2>2 DEF TypeOK
  <2> QED BY <2>1, <2>2, <2>3 DEF TypeOK
<1>7. CASE CollectRaises \/ Drained \/ MainRaises \/ Kill \/ Rest
  BY <1>7 DEF CollectRaises, Drained, MainRaises, Kill, Rest, Over, TypeOK, vars
<1>8. CASE SaveRepeat
  <2> DEFINE j == paired[saved + 1]
  <2>1. saved + 1 \in 1..Len(paired)
    BY <1>8, ArrivalFacts DEF SaveRepeat, TypeOK
  <2>2. j \in Job /\ job[j] \in Result
    BY <2>1, ArrivalFacts DEF ArrivesOnce
  <2>3. StatusOf(j) \in Verdict
    BY <2>2 DEF StatusOf, Result, Verdict
  <2>4. repeat' \in [RepeatId -> Verdict \cup {"absent"}]
    BY <1>8, <2>3 DEF SaveRepeat, TypeOK
  <2> QED BY <1>8, <2>4 DEF SaveRepeat, TypeOK
<1>9. CASE SaveDetails
  <2>1. saved + 1 \in 1..Len(paired)
    BY <1>9, ArrivalFacts DEF SaveDetails, TypeOK, WrittenInOrder, Saved
  <2>2. Id(paired[saved + 1]) \in RepeatId
    BY <2>1, ArrivalFacts, JobFacts
  <2>3. saved' \in 0..Len(paired)
    BY <1>9, <2>1, ArrivalFacts DEF SaveDetails, TypeOK
  <2> QED BY <1>9, <2>2, <2>3 DEF SaveDetails, TypeOK
<1>10. CASE Aggregate
  <2>1. Worst(RowStatuses(aggregated + 1)) \in Verdict
    BY WorstType
  <2>2. aggregated' \in 0..Rows
    BY <1>10, RunAssumption DEF Aggregate, TypeOK
  <2>3. scenario' \in [Row -> Verdict \cup {"absent", "skipped"}]
    BY <1>10, <2>1 DEF Aggregate, TypeOK
  <2> QED BY <1>10, <2>2, <2>3 DEF Aggregate, TypeOK
<1>11. CASE Finish
  <2>1. Worst(Range(scenario)) \in Verdict
    BY WorstType
  <2>2. run' \in [status : Verdict \cup {"absent"}, finished : BOOLEAN]
    BY <1>11, <2>1 DEF Finish
  <2> QED BY <1>11, <2>2 DEF Finish, Over, TypeOK
<1>12. CASE UNCHANGED vars
  BY <1>12 DEF vars, TypeOK
<1> QED BY <1>1, <1>2, <1>3, <1>4, <1>5, <1>6, <1>7, <1>8, <1>9, <1>10, <1>11, <1>12
    DEF Next, JobStep, MainStep

-----------------------------------------------------------------------------
(* Arrivals.                                                               *)

LEMMA NextArrives == TypeOK /\ ArrivesOnce /\ [Next]_vars => ArrivesOnce'
<1> SUFFICES ASSUME TypeOK, ArrivesOnce, [Next]_vars PROVE ArrivesOnce'
  OBVIOUS
<1>0. \A i \in 1..Len(completed) : job[completed[i]] \notin {"waiting", "running"}
  BY DEF ArrivesOnce, Outcome, Result, Verdict
<1>1. \A i \in 1..Len(paired) : job[paired[i]] \notin {"waiting", "running"}
  BY DEF ArrivesOnce, Result, Verdict
<1>2. ASSUME NEW j \in Job, Start(j) PROVE ArrivesOnce'
  <2>1. job' = [job EXCEPT ![j] = "running"] /\ job[j] = "waiting"
        /\ UNCHANGED <<completed, paired>>
    BY <1>2 DEF Start
  <2>2. /\ \A i \in 1..Len(completed) : job'[completed[i]] = job[completed[i]]
        /\ \A i \in 1..Len(paired) : job'[paired[i]] = job[paired[i]]
    BY <1>0, <1>1, <2>1, ArrivalFacts DEF TypeOK
  <2> QED BY <2>1, <2>2 DEF ArrivesOnce
<1>3. ASSUME NEW j \in Job, NEW o \in Outcome, Complete(j, o) PROVE ArrivesOnce'
  <2>1. job' = [job EXCEPT ![j] = o] /\ job[j] = "running" /\ UNCHANGED paired
        /\ completed' = Append(completed, j)
    BY <1>3 DEF Complete
  <2>2. /\ \A i \in 1..Len(completed) : completed[i] # j
        /\ \A i \in 1..Len(paired) : paired[i] # j
    BY <1>0, <1>1, <2>1
  <2>3. /\ \A i \in 1..Len(completed) : job'[completed[i]] = job[completed[i]]
        /\ \A i \in 1..Len(paired) : job'[paired[i]] = job[paired[i]]
        /\ job'[j] = o
    BY <2>1, <2>2, ArrivalFacts DEF TypeOK
  <2>4. /\ Len(completed') = Len(completed) + 1 /\ completed'[Len(completed) + 1] = j
        /\ \A i \in 1..Len(completed) : completed'[i] = completed[i]
    BY <2>1 DEF TypeOK
  <2>5. Len(completed) \in Nat /\ Len(paired) \in Nat
    BY ArrivalFacts
  <2>6. \A i \in 1..Len(completed') : i \in 1..Len(completed) \/ i = Len(completed) + 1
    BY <2>4, <2>5
  <2> QED BY <2>1, <2>2, <2>3, <2>4, <2>5, <2>6 DEF ArrivesOnce
<1>4. CASE Collect
  <2> DEFINE j == Head(completed)
  <2>1. /\ completed # <<>> /\ completed' = Tail(completed) /\ job[j] # "raises"
        /\ paired' = Append(paired, j) /\ UNCHANGED job
    BY <1>4 DEF Collect
  <2>2. /\ j = completed[1] /\ 1 \in 1..Len(completed)
        /\ Len(completed') = Len(completed) - 1
        /\ \A i \in 1..Len(completed') : completed'[i] = completed[i + 1]
        /\ Len(paired') = Len(paired) + 1 /\ paired'[Len(paired) + 1] = j
        /\ \A i \in 1..Len(paired) : paired'[i] = paired[i]
    BY <2>1, CollectFacts
  <2> HIDE DEF j
  <2>3. Len(completed) \in Nat /\ Len(paired) \in Nat
    BY ArrivalFacts
  <2>4. \A i \in 1..Len(completed') : i + 1 \in 1..Len(completed) /\ i + 1 # 1
    BY <2>2, <2>3
  <2>5. \A i \in 1..Len(paired') : i \in 1..Len(paired) \/ i = Len(paired) + 1
    BY <2>2, <2>3
  <2>6. job[j] \in Result
    BY <2>1, <2>2 DEF ArrivesOnce, Outcome
  <2>7. \A i, k \in 1..Len(completed') : completed'[i] = completed'[k] => i = k
    <3> SUFFICES ASSUME NEW i \in 1..Len(completed'), NEW k \in 1..Len(completed'),
                        completed'[i] = completed'[k]
                 PROVE  i = k
      OBVIOUS
    <3>1. i + 1 = k + 1
      BY <2>2, <2>4 DEF ArrivesOnce
    <3> QED BY <3>1, <2>2, <2>3
  <2>8. \A i, k \in 1..Len(paired') : paired'[i] = paired'[k] => i = k
    BY <2>2, <2>5 DEF ArrivesOnce
  <2>9. \A i \in 1..Len(completed'), k \in 1..Len(paired') : completed'[i] # paired'[k]
    <3> SUFFICES ASSUME NEW i \in 1..Len(completed'), NEW k \in 1..Len(paired')
                 PROVE  completed'[i] # paired'[k]
      OBVIOUS
    <3>1. completed[i + 1] # completed[1]
      BY <2>2, <2>4 DEF ArrivesOnce
    <3>2. k \in 1..Len(paired) => completed[i + 1] # paired[k]
      BY <2>4 DEF ArrivesOnce
    <3> QED BY <3>1, <3>2, <2>2, <2>5
  <2>10. \A i \in 1..Len(completed') : job'[completed'[i]] \in Outcome
    BY <2>1, <2>2, <2>4 DEF ArrivesOnce
  <2>11. \A i \in 1..Len(paired') : job'[paired'[i]] \in Result
    BY <2>1, <2>2, <2>5, <2>6 DEF ArrivesOnce
  <2> QED BY <2>7, <2>8, <2>9, <2>10, <2>11 DEF ArrivesOnce
<1>5. CASE UNCHANGED jobs
  BY <1>5 DEF jobs, ArrivesOnce
<1> QED BY <1>2, <1>3, <1>4, <1>5
    DEF Next, JobStep, MainStep, CreateRun, SeedRow, NothingToRun, BuildGroups,
        CollectRaises, Drained, SaveRepeat, SaveDetails, Aggregate, Finish, MainRaises, Kill,
        Rest, vars, jobs

-----------------------------------------------------------------------------
(* What main holds does not change once it is held.                        *)

(* The outcome of a job that ended stays.                                  *)
LEMMA HeldStays ==
  ASSUME TypeOK, ArrivesOnce, [Next]_vars
  PROVE  /\ mode' = mode
         /\ \A i \in 1..Len(paired) : job'[paired[i]] = job[paired[i]]
<1>1. \A i \in 1..Len(paired) : job[paired[i]] \notin {"waiting", "running"}
  BY DEF ArrivesOnce, Result, Verdict
<1>2. ASSUME NEW j \in Job, Start(j) \/ \E o \in Outcome : Complete(j, o)
      PROVE  \A i \in 1..Len(paired) : job'[paired[i]] = job[paired[i]]
  <2>1. /\ job[j] \in {"waiting", "running"}
        /\ job' \in {[job EXCEPT ![j] = o] : o \in Outcome \cup {"running"}}
    BY <1>2 DEF Start, Complete
  <2> QED BY <1>1, <2>1, ArrivalFacts DEF TypeOK
<1> QED BY <1>2
    DEF Next, JobStep, MainStep, CreateRun, SeedRow, NothingToRun, BuildGroups,
        Start, Complete, Collect, CollectRaises, Drained, SaveRepeat, SaveDetails, Aggregate,
        Finish, MainRaises, Kill, Rest, vars, jobs

(* As long as no result is added, everything computed from them stays.     *)
LEMMA ResultsStay ==
  ASSUME TypeOK, ArrivesOnce, [Next]_vars, UNCHANGED paired
  PROVE  /\ LeftLoop' <=> LeftLoop
         /\ \A i \in 1..Len(paired) :
              StatusOf(paired[i])' = StatusOf(paired[i]) /\ (Ok(paired[i])' <=> Ok(paired[i]))
         /\ \A r \in Row : RowStatuses(r)' = RowStatuses(r)
<1>1. /\ \A i \in 1..Len(paired) : job'[paired[i]] = job[paired[i]]
      /\ mode' = mode
  BY HeldStays
<1>2. \A i \in 1..Len(paired) :
        StatusOf(paired[i])' = StatusOf(paired[i]) /\ (Ok(paired[i])' <=> Ok(paired[i]))
  BY <1>1 DEF StatusOf, Ok
<1>3. Collected' = Collected
  BY DEF Collected
<1>4. ASSUME NEW r \in Row PROVE RowStatuses(r)' = RowStatuses(r)
  <2>1. \A j \in Collected : job'[j] = job[j]
    BY <1>1, ArrivalFacts
  <2> QED BY <1>3, <2>1 DEF RowStatuses, StatusOf
<1> QED BY <1>1, <1>2, <1>4 DEF LeftLoop

-----------------------------------------------------------------------------
(* The stages of main.                                                     *)

LEMMA NextStages == TypeOK /\ ArrivesOnce /\ Stages /\ [Next]_vars => Stages'
<1> SUFFICES ASSUME TypeOK, ArrivesOnce, Stages, [Next]_vars PROVE Stages'
  OBVIOUS
<1> USE DEF jobs, progress, store, Over
<1>1. ASSUME UNCHANGED <<saved, half, aggregated, repeat>>
      PROVE  Unwritten' <=> Unwritten
  BY <1>1 DEF Unwritten
<1>2. UNCHANGED paired => (LeftLoop' <=> LeftLoop)
  BY ResultsStay
<1>3. CASE CreateRun \/ SeedRow \/ NothingToRun \/ BuildGroups
  <2>1. UNCHANGED <<saved, half, aggregated, repeat, paired>>
    BY <1>3 DEF CreateRun, SeedRow, NothingToRun, BuildGroups
  <2>2. Unwritten
    BY <1>3 DEF CreateRun, SeedRow, NothingToRun, BuildGroups, Stages
  <2>3. Unwritten'
    BY <1>1, <2>1, <2>2
  <2> QED BY <1>3, <2>3
      DEF CreateRun, SeedRow, NothingToRun, BuildGroups, Stages
<1>4. ASSUME NEW j \in Job, Start(j) \/ \E o \in Outcome : Complete(j, o) PROVE Stages'
  BY <1>1, <1>2, <1>4 DEF Start, Complete, Stages
<1>5. CASE Collect
  <2> DEFINE j == Head(completed)
  <2>1. /\ phase = "running" /\ completed # <<>> /\ completed' = Tail(completed)
        /\ paired' = Append(paired, j)
        /\ IF Len(paired) + 1 = Jobs \/ (mode = "failfast" /\ ~Ok(j))
           THEN phase' = "persisting"
           ELSE UNCHANGED phase
        /\ UNCHANGED <<mode, job, progress, store, exit>>
    BY <1>5 DEF Collect
  <2>2. Unwritten'
    BY <1>1, <2>1 DEF Stages
  <2>3. Len(paired') = Len(paired) + 1 /\ paired'[Len(paired')] = j /\ Len(paired) \in Nat
    BY <2>1, CollectFacts, ArrivalFacts
  <2> HIDE DEF j
  <2>4. phase' = "persisting" => LeftLoop'
    BY <2>1, <2>3 DEF LeftLoop, Ok
  <2> QED BY <2>1, <2>2, <2>4 DEF Stages
<1>6. CASE CollectRaises \/ Drained
  <2>1. UNCHANGED <<saved, half, aggregated, repeat, paired>>
    BY <1>6 DEF CollectRaises, Drained
  <2>2. Unwritten'
    BY <1>1, <1>6, <2>1 DEF CollectRaises, Drained, Stages
  <2> QED BY <1>6, <2>2 DEF CollectRaises, Drained, Stages
<1>7. CASE SaveRepeat \/ SaveDetails \/ Aggregate
  BY <1>2, <1>7 DEF SaveRepeat, SaveDetails, Aggregate, Stages
<1>8. CASE Finish
  BY <1>1, <1>2, <1>8 DEF Finish, Stages
<1>9. CASE MainRaises \/ Kill
  BY <1>1, <1>2, <1>9 DEF MainRaises, Kill, Stages
<1>10. CASE UNCHANGED vars
  BY <1>1, <1>2, <1>10 DEF vars, Stages
<1> QED BY <1>3, <1>4, <1>5, <1>6, <1>7, <1>8, <1>9, <1>10
    DEF Next, JobStep, MainStep, Rest

-----------------------------------------------------------------------------
(* One job at a time in fail-fast mode.                                    *)

LEMMA NextSerial ==
  TypeOK /\ ArrivesOnce /\ Stages /\ Serial /\ [Next]_vars => Serial'
<1> SUFFICES ASSUME TypeOK, ArrivesOnce, Stages, Serial, [Next]_vars, mode' = "failfast"
             PROVE  /\ phase' \notin {"persisting", "over"} => \A i \in 1..Len(paired') : Ok(paired[i])'
                    /\ \A j, k \in Job : k < j /\ job'[j] # "waiting" =>
                         k \in Collected' /\ Ok(k)'
  BY DEF Serial
<1> USE DEF jobs, progress, store, Over
<1>1. mode = "failfast" /\ \A k \in Collected : job'[k] = job[k]
  BY HeldStays, ArrivalFacts
<1>2. /\ phase \notin {"persisting", "over"} => \A i \in 1..Len(paired) : Ok(paired[i])
      /\ \A j, k \in Job : k < j /\ job[j] # "waiting" => k \in Collected /\ Ok(k)
  BY <1>1 DEF Serial
<1>3. ASSUME UNCHANGED <<job, paired>>,
             phase' \notin {"persisting", "over"} => phase \notin {"persisting", "over"}
      PROVE  /\ phase' \notin {"persisting", "over"} => \A i \in 1..Len(paired') : Ok(paired[i])'
             /\ \A j, k \in Job : k < j /\ job'[j] # "waiting" =>
                  k \in Collected' /\ Ok(k)'
  BY <1>2, <1>3 DEF Ok, Collected
<1>4. ASSUME NEW i \in Job, Start(i) \/ \E o \in Outcome : Complete(i, o)
      PROVE  /\ phase' \notin {"persisting", "over"} => \A k \in 1..Len(paired') : Ok(paired[k])'
             /\ \A j, k \in Job : k < j /\ job'[j] # "waiting" =>
                  k \in Collected' /\ Ok(k)'
  <2>1. /\ UNCHANGED <<phase, paired>>
        /\ \A j \in Job : j # i => job'[j] = job[j]
    BY <1>4 DEF Start, Complete, TypeOK
  <2>2. Collected' = Collected
    BY <2>1 DEF Collected
  <2>3. \A k \in Collected : Ok(k)' <=> Ok(k)
    BY <1>1 DEF Ok
  <2>4. phase' \notin {"persisting", "over"} => \A k \in 1..Len(paired') : Ok(paired[k])'
    BY <1>2, <2>1, <2>3, ArrivalFacts
  <2>5. ASSUME NEW k \in Job, k < i PROVE k \in Collected /\ Ok(k)
    <3>1. CASE Start(i)
      <4>1. phase = "running" /\ \A n \in 1..(i - 1) : n \in Collected
        BY <1>1, <3>1 DEF Start, MayStart
      <4>2. k \in 1..(i - 1)
        BY <2>5, RunAssumption DEF Job
      <4> QED BY <1>2, <4>1, <4>2, ArrivalFacts
    <3>2. CASE \E o \in Outcome : Complete(i, o)
      BY <1>2, <2>5, <3>2 DEF Complete
    <3> QED BY <1>4, <3>1, <3>2
  <2> QED BY <1>2, <2>1, <2>2, <2>3, <2>4, <2>5
<1>5. CASE Collect
  <2> DEFINE h == Head(completed)
  <2>1. /\ phase = "running" /\ completed # <<>> /\ completed' = Tail(completed)
        /\ paired' = Append(paired, h) /\ UNCHANGED job
        /\ phase' # "persisting" => Ok(h)
    BY <1>1, <1>5 DEF Collect
  <2>2. /\ Len(paired') = Len(paired) + 1 /\ paired'[Len(paired) + 1] = h
        /\ \A i \in 1..Len(paired) : paired'[i] = paired[i]
        /\ Len(paired) \in Nat
    BY <2>1, CollectFacts, ArrivalFacts
  <2>3. \A i \in 1..Len(paired') : i \in 1..Len(paired) \/ i = Len(paired) + 1
    BY <2>2
  <2>4. \A k : k \in Collected => k \in Collected'
    <3> SUFFICES ASSUME NEW k \in Collected PROVE k \in Collected'
      OBVIOUS
    <3>1. PICK i \in 1..Len(paired) : paired[i] = k
      BY ArrivalFacts
    <3>2. paired'[i] = k /\ i \in 1..Len(paired')
      BY <2>2, <3>1
    <3>3. DOMAIN paired' = 1..Len(paired')
      BY <2>1, CollectFacts DEF TypeOK
    <3> QED BY <3>2, <3>3 DEF Collected, Range
  <2> HIDE DEF h
  <2>5. phase' \notin {"persisting", "over"} => \A i \in 1..Len(paired') : Ok(paired[i])'
    BY <1>2, <2>1, <2>2, <2>3 DEF Ok
  <2> QED BY <1>2, <2>1, <2>4, <2>5 DEF Ok
<1>6. CASE CreateRun \/ SeedRow \/ NothingToRun \/ BuildGroups \/ CollectRaises \/ Drained
  BY <1>3, <1>6 DEF CreateRun, SeedRow, NothingToRun, BuildGroups, CollectRaises, Drained
<1>7. CASE SaveRepeat \/ SaveDetails \/ Aggregate \/ Finish \/ MainRaises \/ Kill
  BY <1>3, <1>7 DEF SaveRepeat, SaveDetails, Aggregate, Finish, MainRaises, Kill
<1>8. CASE UNCHANGED vars
  BY <1>3, <1>8 DEF vars
<1> QED BY <1>4, <1>5, <1>6, <1>7, <1>8 DEF Next, JobStep, MainStep, Rest

-----------------------------------------------------------------------------
(* What is written.                                                        *)

LEMMA NextWritten ==
  TypeOK /\ ArrivesOnce /\ Stages /\ WrittenInOrder /\ [Next]_vars => WrittenInOrder'
<1> SUFFICES ASSUME TypeOK, ArrivesOnce, Stages, WrittenInOrder, [Next]_vars
             PROVE  WrittenInOrder'
  OBVIOUS
<1> USE DEF jobs, progress, store
<1>0. saved \in Nat /\ Len(paired) \in Nat /\ half \in BOOLEAN /\ Saved \in Nat
  BY ArrivalFacts DEF TypeOK, Saved
<1>1. ASSUME UNCHANGED <<saved, half, repeat, details, paired>> PROVE WrittenInOrder'
  <2>1. \A i \in 1..Len(paired) : StatusOf(paired[i])' = StatusOf(paired[i])
    BY <1>1, ResultsStay
  <2>2. Saved' = Saved /\ \A i \in 1..Saved : i \in 1..Len(paired)
    BY <1>0, <1>1 DEF Saved, WrittenInOrder
  <2> QED BY <1>1, <2>1, <2>2 DEF WrittenInOrder, Id
<1>2. CASE Collect
  <2>1. /\ Unwritten /\ UNCHANGED <<saved, half, repeat, details>>
        /\ Len(paired') = Len(paired) + 1
    BY <1>2, CollectFacts DEF Collect, Stages
  <2> QED BY <1>0, <2>1 DEF WrittenInOrder, Unwritten, Saved
<1>3. CASE SaveRepeat
  <2> DEFINE j == paired[saved + 1]
  <2>1. /\ ~half /\ half' /\ saved + 1 \in 1..Len(paired) /\ UNCHANGED <<paired, saved, details>>
        /\ repeat' = [repeat EXCEPT ![Id(j)] = StatusOf(j)]
    BY <1>0, <1>3 DEF SaveRepeat
  <2>2. j \in Job /\ job[j] \in Result /\ Id(j) \in RepeatId
    BY <2>1, ArrivalFacts, JobFacts DEF ArrivesOnce
  <2>3. StatusOf(j) # "absent"
    BY <2>2 DEF StatusOf, Result, Verdict
  <2>4. \A i \in 1..Len(paired) : StatusOf(paired[i])' = StatusOf(paired[i])
    BY <2>1, ResultsStay
  <2>5. Saved = saved /\ Saved' = saved + 1
    BY <2>1 DEF Saved
  <2>6. \A id \in RepeatId :
          repeat'[id] = IF id = Id(j) THEN StatusOf(j) ELSE repeat[id]
    BY <2>1 DEF TypeOK
  <2>7. \A i \in 1..Saved' : repeat'[Id(paired[i])] # "absent"
    <3> SUFFICES ASSUME NEW i \in 1..(saved + 1) PROVE repeat'[Id(paired[i])] # "absent"
      BY <2>5
    <3>1. i \in 1..Len(paired) /\ (i \in 1..Saved \/ i = saved + 1)
      BY <1>0, <2>1, <2>5
    <3>2. Id(paired[i]) \in RepeatId
      BY <3>1, ArrivalFacts, JobFacts
    <3> QED BY <3>1, <3>2, <2>3, <2>6 DEF WrittenInOrder
  <2>8. ASSUME NEW id \in RepeatId, repeat'[id] # "absent"
        PROVE  \E i \in 1..Saved' : id = Id(paired[i]) /\ repeat'[id] = StatusOf(paired[i])'
    <3>1. CASE id = Id(j)
      <4>1. saved + 1 \in 1..Saved' /\ id = Id(paired[saved + 1])
        BY <1>0, <2>5, <3>1
      <4>2. repeat'[id] = StatusOf(paired[saved + 1])'
        BY <2>1, <2>4, <2>6, <3>1
      <4> QED BY <2>1, <4>1, <4>2
    <3>2. CASE id # Id(j)
      <4>1. repeat'[id] = repeat[id]
        BY <2>6, <3>2
      <4>2. PICK i \in 1..Saved : id = Id(paired[i]) /\ repeat[id] = StatusOf(paired[i])
        BY <2>8, <4>1 DEF WrittenInOrder
      <4>3. i \in 1..Len(paired) /\ i \in 1..Saved'
        BY <1>0, <2>1, <2>5
      <4>4. StatusOf(paired[i])' = StatusOf(paired[i])
        BY <2>4, <4>3
      <4>5. repeat'[id] = StatusOf(paired[i])'
        BY <4>1, <4>2, <4>4
      <4> QED BY <4>2, <4>3, <4>5
    <3> QED BY <3>1, <3>2
  <2>9. Saved' <= Len(paired)
    BY <1>0, <2>1, <2>5
  <2> QED BY <2>1, <2>7, <2>8, <2>9 DEF WrittenInOrder, Id
<1>4. CASE SaveDetails
  <2>1. /\ half /\ ~half' /\ saved' = saved + 1 /\ UNCHANGED <<paired, repeat>>
        /\ details' = details \cup {Id(paired[saved + 1])}
    BY <1>4 DEF SaveDetails
  <2>2. Saved = saved + 1 /\ Saved' = saved + 1
    BY <2>1 DEF Saved
  <2>3. \A i \in 1..Len(paired) : StatusOf(paired[i])' = StatusOf(paired[i])
    BY <2>1, ResultsStay
  <2>4. \A i \in 1..Saved : i \in 1..Len(paired)
    BY <1>0 DEF WrittenInOrder
  <2>6. \A i \in 1..saved' : i \in 1..saved \/ i = saved + 1
    BY <1>0, <2>1
  <2> QED BY <2>1, <2>2, <2>3, <2>4, <2>6 DEF WrittenInOrder, Id
<1> QED BY <1>1, <1>2, <1>3, <1>4
    DEF Next, JobStep, MainStep, CreateRun, SeedRow, NothingToRun, BuildGroups,
        Start, Complete, CollectRaises, Drained, Aggregate, Finish, MainRaises, Kill, Rest, vars

LEMMA NextRows ==
  TypeOK /\ ArrivesOnce /\ Stages /\ RowsFollow /\ [Next]_vars => RowsFollow'
<1> SUFFICES ASSUME TypeOK, ArrivesOnce, Stages, RowsFollow, [Next]_vars
             PROVE  RowsFollow'
  OBVIOUS
<1> USE DEF jobs, progress, store
<1>0. aggregated \in Nat /\ Rows \in Nat /\ \A r \in Row : r \in Nat \ {0}
  BY RunAssumption DEF TypeOK, Row
<1>1. UNCHANGED paired => \A r \in Row : RowStatuses(r)' = RowStatuses(r)
  BY ResultsStay
<1>2. ASSUME UNCHANGED <<saved, half, aggregated, scenario, paired>> PROVE RowsFollow'
  BY <1>1, <1>2 DEF RowsFollow
<1>3. CASE SeedRow
  <2>1. /\ Unwritten /\ UNCHANGED <<aggregated>>
        /\ scenario' = [scenario EXCEPT ![seeded + 1] = "skipped"]
    BY <1>3 DEF SeedRow, Stages
  <2>2. \A r \in Row : scenario'[r] \in {"skipped", scenario[r]}
    BY <2>1 DEF TypeOK
  <2> QED BY <1>0, <2>1, <2>2 DEF RowsFollow, Unwritten, Verdict
<1>4. CASE Collect
  <2>1. Unwritten /\ UNCHANGED <<aggregated, scenario>>
    BY <1>4 DEF Collect, Stages
  <2> QED BY <1>0, <2>1 DEF RowsFollow, Unwritten
<1>5. CASE SaveRepeat
  <2>1. saved # Len(paired) /\ UNCHANGED <<aggregated, scenario, paired>>
    BY <1>5, ArrivalFacts DEF SaveRepeat, TypeOK
  <2> QED BY <1>0, <1>1, <2>1 DEF RowsFollow
<1>6. CASE SaveDetails
  <2>1. half /\ UNCHANGED <<aggregated, scenario, paired>>
    BY <1>6 DEF SaveDetails
  <2> QED BY <1>0, <1>1, <2>1 DEF RowsFollow
<1>7. CASE Aggregate
  <2> DEFINE a == aggregated + 1
  <2>1. /\ ~half /\ saved = Len(paired) /\ UNCHANGED <<paired, saved, half>>
        /\ aggregated' = a /\ a \in Row
        /\ scenario' = [scenario EXCEPT ![a] = Worst(RowStatuses(a))]
    BY <1>0, <1>7 DEF Aggregate, Row
  <2>2. \A r \in Row : scenario'[r] = IF r = a THEN Worst(RowStatuses(a)) ELSE scenario[r]
    BY <2>1 DEF TypeOK
  <2>3. \A r \in Row : r <= a => r <= aggregated \/ r = a
    BY <1>0
  <2>4. \A r \in Row : r <= aggregated => r <= a /\ r # a
    BY <1>0
  <2>5. a <= a
    BY <1>0
  <2> HIDE DEF a
  <2>6. \A r \in Row : scenario'[r] \in Verdict => r <= aggregated'
    BY <2>1, <2>2, <2>4, <2>5 DEF RowsFollow
  <2>7. \A r \in Row : r <= aggregated' => scenario'[r] = Worst(RowStatuses(r)')
    BY <1>1, <2>1, <2>2, <2>3 DEF RowsFollow
  <2> QED BY <2>1, <2>6, <2>7 DEF RowsFollow, Worst
<1> QED BY <1>2, <1>3, <1>4, <1>5, <1>6, <1>7
    DEF Next, JobStep, MainStep, CreateRun, NothingToRun, BuildGroups, Start,
        Complete, CollectRaises, Drained, Finish, MainRaises, Kill, Rest, vars

LEMMA NextClosed ==
  TypeOK /\ ArrivesOnce /\ Stages /\ ClosedLast /\ [Next]_vars => ClosedLast'
<1> SUFFICES ASSUME TypeOK, ArrivesOnce, Stages, ClosedLast, [Next]_vars
             PROVE  ClosedLast'
  OBVIOUS
<1> USE DEF jobs, progress, store, Over
<1>1. UNCHANGED paired => \A i \in 1..Len(paired) : Ok(paired[i])' <=> Ok(paired[i])
  BY ResultsStay
<1>2. CASE Finish
  <2>1. /\ phase' = "over" /\ aggregated = Rows /\ UNCHANGED <<aggregated, scenario, paired>>
        /\ run' = [status |-> Worst(Range(scenario)), finished |-> TRUE]
        /\ exit' = IF \A j \in Collected : Ok(j) THEN "0" ELSE "1"
    BY <1>2 DEF Finish
  <2>2. run'.finished /\ run'.status = Worst(Range(scenario'))
    BY <2>1
  <2>3. exit' = "0" => \A i \in 1..Len(paired) : Ok(paired[i])
    BY <2>1, ArrivalFacts
  <2> QED BY <1>1, <2>1, <2>2, <2>3 DEF ClosedLast
<1>3. CASE CreateRun \/ NothingToRun
  BY <1>3 DEF CreateRun, NothingToRun, ClosedLast, Stages
<1>4. CASE SeedRow \/ BuildGroups \/ CollectRaises \/ Drained \/ MainRaises \/ Kill
  BY <1>4 DEF SeedRow, BuildGroups, CollectRaises, Drained, MainRaises, Kill,
              ClosedLast, Stages
<1>5. CASE Collect \/ SaveRepeat \/ SaveDetails \/ Aggregate
  BY <1>5 DEF Collect, SaveRepeat, SaveDetails, Aggregate, ClosedLast, Stages
<1>6. ASSUME NEW j \in Job, Start(j) \/ \E o \in Outcome : Complete(j, o) PROVE ClosedLast'
  BY <1>6 DEF Start, Complete, ClosedLast, Stages
<1>7. CASE UNCHANGED vars
  BY <1>1, <1>7 DEF vars, ClosedLast
<1> QED BY <1>2, <1>3, <1>4, <1>5, <1>6, <1>7 DEF Next, JobStep, MainStep, Rest

-----------------------------------------------------------------------------
(* The invariant holds.                                                    *)

LEMMA InitInv == Init => Inv
<1> SUFFICES ASSUME Init PROVE Inv
  OBVIOUS
<1>1. TypeOK
  BY InitType
<1>2. Len(completed) = 0 /\ Len(paired) = 0 /\ Saved = 0 /\ saved = 0
  BY DEF Init, Saved
<1>3. \A id \in RepeatId : repeat[id] = "absent"
  BY DEF Init
<1>4. \A r \in Row : r \in Nat \ {0} /\ scenario[r] \notin Verdict
  BY RunAssumption DEF Init, Row, Verdict
<1>5. ArrivesOnce
  BY <1>2 DEF ArrivesOnce
<1>6. Stages
  BY <1>3 DEF Init, Stages, Unwritten
<1>10. Serial
  BY DEF Init, Serial
<1>7. WrittenInOrder
  BY <1>2, <1>3 DEF WrittenInOrder
<1>8. RowsFollow
  BY <1>4 DEF Init, RowsFollow
<1>9. ClosedLast
  BY DEF Init, ClosedLast
<1> QED BY <1>1, <1>5, <1>6, <1>7, <1>8, <1>9, <1>10 DEF Inv

LEMMA NextInv == Inv /\ [Next]_vars => Inv'
BY NextType, NextArrives, NextStages, NextSerial, NextWritten, NextRows, NextClosed DEF Inv

LEMMA Invariance == Spec => []Inv
BY InitInv, NextInv, PTL DEF Spec

(* Every reachable state has the types of TypeOK.                          *)
THEOREM TypeCorrect == Spec => []TypeOK
BY Invariance, PTL DEF Inv

-----------------------------------------------------------------------------
(* Safety.                                                                 *)

(* Whoever finds a final row in the store finds the results it stands for, *)
(* with their details.                                                     *)
THEOREM FinalRowsHaveEvidenceHolds == Spec => []FinalRowsHaveEvidence
<1>1. Inv => FinalRowsHaveEvidence
  <2> SUFFICES ASSUME Inv, NEW j \in Collected, scenario[RowOf[j]] \in Verdict
               PROVE  repeat[Id(j)] # "absent" /\ Id(j) \in details
    BY DEF FinalRowsHaveEvidence
  <2>1. PICK i \in 1..Len(paired) : paired[i] = j
    BY ArrivalFacts DEF Inv
  <2>2. RowOf[j] \in Row /\ RowOf[j] >= 1
    BY ArrivalFacts, JobFacts, RunAssumption DEF Inv, Row
  <2>3. aggregated > 0
    BY <2>2, RunAssumption DEF Inv, RowsFollow, TypeOK, Row
  <2>4. saved = Len(paired) /\ Saved = saved
    BY <2>3 DEF Inv, RowsFollow, Saved
  <2> QED BY <2>1, <2>4 DEF Inv, WrittenInOrder
<1> QED BY <1>1, Invariance, PTL

(* Main holds all jobs once it holds as many as there are: no job is held  *)
(* twice.                                                                  *)
LEMMA AllCollected ==
  ASSUME TypeOK, ArrivesOnce, Len(paired) = Jobs
  PROVE  Collected = Job
<1>1. paired \in [Job -> Job]
  BY DEF TypeOK, Job
<1>2. paired \in Injection(Job, Job)
  BY <1>1, Fun_IsInj DEF ArrivesOnce, Job
<1>3. IsFiniteSet(Job)
  BY FS_Interval, RunAssumption DEF Job
<1>4. paired \in Surjection(Job, Job)
  BY <1>2, <1>3, FS_Injection
<1> QED BY <1>1, <1>4, Fun_SurjectionProperties DEF Collected, Range

(* Once all rows have their status, what they were computed from is in the *)
(* store.                                                                  *)
LEMMA AggregatedFacts ==
  ASSUME Inv, aggregated = Rows
  PROVE  /\ \A r \in Row : scenario[r] = Worst(RowStatuses(r))
         /\ DOMAIN scenario = Row
         /\ saved = Len(paired) /\ Saved = Len(paired)
         /\ LeftLoop
<1>1. Rows \in Nat \ {0} /\ \A r \in Row : r <= Rows
  BY RunAssumption DEF Row
<1>2. saved = Len(paired) /\ Saved = Len(paired)
  BY <1>1 DEF Inv, RowsFollow, Saved
<1>3. LeftLoop
  BY <1>1 DEF Inv, Stages, Unwritten
<1> QED BY <1>1, <1>2, <1>3 DEF Inv, RowsFollow, TypeOK

(* What a broken run leaves can be told from a whole one: a job that raises *)
(* takes all results with it, only fail-fast stores the results of a part  *)
(* of the jobs, and a run is closed only over everything main holds,       *)
(* wherever the writing may be cut short.                                  *)
THEOREM ClosedMeansCompleteHolds == Spec => []ClosedMeansComplete
<1>1. Inv => ClosedMeansComplete
  <2> SUFFICES ASSUME Inv PROVE ClosedMeansComplete
    OBVIOUS
  <2>1. Range(repeat) # {"absent"} => LeftLoop
    <3>1. 1 \in Job
      BY RunAssumption DEF Job
    <3>2. DOMAIN repeat = RepeatId /\ Id(1) \in RepeatId
      BY <3>1, JobFacts DEF Inv, TypeOK
    <3>3. Range(repeat) # {"absent"} => \E id \in RepeatId : repeat[id] # "absent"
      BY <3>2 DEF Range
    <3> QED BY <3>3 DEF Inv, Stages, Unwritten
  <2>2. Len(paired) = Jobs => Collected = Job
    BY AllCollected DEF Inv
  <2>3. \A j \in Collected : j \in Job /\ job[j] \in Result
    BY ArrivalFacts DEF Inv, ArrivesOnce
  <2>4. ASSUME NEW j \in Job, job[j] = "raises", LeftLoop PROVE FALSE
    <3>1. j \notin Collected
      BY <2>3, <2>4 DEF Result, Verdict
    <3>2. PICK i \in 1..Len(paired) : mode = "failfast" /\ ~Ok(paired[i])
      BY <2>2, <2>4, <3>1 DEF LeftLoop
    <3>3. paired[i] \in Collected /\ job[paired[i]] \in Result
      BY ArrivalFacts DEF Inv, ArrivesOnce
    <3>4. paired[i] < j \/ j < paired[i]
      BY <2>3, <3>1, <3>3, RunAssumption DEF Job
    <3>5. ~Ok(j) /\ job[j] # "waiting" /\ job[paired[i]] # "waiting"
      BY <2>4, <3>3 DEF Ok, Result, Verdict
    <3> QED BY <2>3, <3>2, <3>3, <3>4, <3>5 DEF Inv, Serial
  <2>5. run.finished => \A j \in Collected : repeat[Id(j)] # "absent" /\ Id(j) \in details
    <3> SUFFICES ASSUME run.finished, NEW j \in Collected
                 PROVE  repeat[Id(j)] # "absent" /\ Id(j) \in details
      OBVIOUS
    <3>1. saved = Len(paired) /\ Saved = Len(paired)
      BY AggregatedFacts DEF Inv, ClosedLast
    <3>2. PICK i \in 1..Len(paired) : paired[i] = j
      BY ArrivalFacts DEF Inv
    <3> QED BY <3>1, <3>2 DEF Inv, WrittenInOrder
  <2>6. run.finished => \A r \in Row : scenario[r] \in Verdict
    BY AggregatedFacts, WorstType DEF Inv, ClosedLast
  <2>7. exit \in {"raised", "killed"} => ~run.finished
    BY DEF Inv, ClosedLast
  <2>8. mode # "failfast" /\ Range(repeat) # {"absent"} => Collected = Job
    BY <2>1, <2>2 DEF LeftLoop
  <2>9. (\E j \in Job : job[j] = "raises") => Range(repeat) = {"absent"}
    BY <2>1, <2>4
  <2> QED BY <2>5, <2>6, <2>7, <2>8, <2>9 DEF ClosedMeansComplete
<1> QED BY <1>1, Invariance, PTL

(* Exit code 0 means that every job passed and that the store says so.     *)
THEOREM ZeroMeansPassedHolds == Spec => []ZeroMeansPassed
<1>1. Inv => ZeroMeansPassed
  <2> SUFFICES ASSUME Inv, exit = "0", seeded > 0
               PROVE  /\ run = [status |-> "passed", finished |-> TRUE]
                      /\ \A j \in Job : job[j] = "passed" /\ repeat[Id(j)] = "passed"
    BY DEF ZeroMeansPassed
  <2>1. /\ run.finished /\ aggregated = Rows /\ run.status = Worst(Range(scenario))
        /\ \A i \in 1..Len(paired) : Ok(paired[i])
    BY DEF Inv, ClosedLast
  <2>2. Collected = Job
    BY <2>1, AggregatedFacts, AllCollected DEF Inv, LeftLoop
  <2>3. \A j \in Job : job[j] = "passed" /\ StatusOf(j) = "passed"
    BY <2>1, <2>2, ArrivalFacts DEF Inv, Ok, StatusOf
  <2>4. \A r \in Row : scenario[r] = "passed"
    BY <2>1, <2>2, <2>3, AggregatedFacts DEF RowStatuses, Worst
  <2>5. run.status = "passed"
    BY <2>1, <2>4, AggregatedFacts DEF Worst, Range
  <2>6. run = [status |-> "passed", finished |-> TRUE]
    BY <2>1, <2>5 DEF Inv, TypeOK
  <2>7. ASSUME NEW j \in Job PROVE repeat[Id(j)] = "passed"
    <3>1. PICK i \in 1..Len(paired) : paired[i] = j
      BY <2>2, ArrivalFacts DEF Inv
    <3>2. repeat[Id(j)] # "absent" /\ Id(j) \in RepeatId
      BY <2>1, <3>1, AggregatedFacts, JobFacts DEF Inv, WrittenInOrder
    <3>3. PICK k \in 1..Len(paired) : repeat[Id(j)] = StatusOf(paired[k])
      BY <2>1, <3>2, AggregatedFacts DEF Inv, WrittenInOrder
    <3> QED BY <2>3, <3>3, ArrivalFacts DEF Inv
  <2> QED BY <2>3, <2>6, <2>7
<1> QED BY <1>1, Invariance, PTL

-----------------------------------------------------------------------------
(* What needs one row of repeat_results for every job.                     *)

(* No two jobs share the primary key of their repeat.                      *)
OwnRepeats == \A j, k \in Job : Id(j) = Id(k) => j = k

(* The statuses in the store of a row are those main computed it from.     *)
LEMMA WrittenIsHeld ==
  ASSUME OwnRepeats, Inv, aggregated = Rows, NEW r \in Row
  PROVE  Written(r) = RowStatuses(r)
<1>1. ASSUME NEW j \in Collected, RowOf[j] = r PROVE StatusOf(j) \in Written(r)
  <2>1. j \in Job /\ Id(j) \in RepeatId /\ Id(j)[1] = r
    BY <1>1, ArrivalFacts, JobFacts DEF Inv
  <2>2. PICK i \in 1..Len(paired) : paired[i] = j
    BY ArrivalFacts DEF Inv
  <2>3. repeat[Id(j)] # "absent"
    BY <2>2, AggregatedFacts DEF Inv, WrittenInOrder
  <2>4. PICK k \in 1..Len(paired) : Id(j) = Id(paired[k]) /\ repeat[Id(j)] = StatusOf(paired[k])
    BY <2>1, <2>3, AggregatedFacts DEF Inv, WrittenInOrder
  <2>5. paired[k] = j
    BY <2>1, <2>4, ArrivalFacts DEF Inv, OwnRepeats
  <2> QED BY <2>1, <2>3, <2>4, <2>5 DEF Written
<1>2. ASSUME NEW id \in RepeatId, id[1] = r, repeat[id] # "absent"
      PROVE  repeat[id] \in RowStatuses(r)
  <2>1. PICK i \in 1..Len(paired) : id = Id(paired[i]) /\ repeat[id] = StatusOf(paired[i])
    BY <1>2, AggregatedFacts DEF Inv, WrittenInOrder
  <2>2. paired[i] \in Collected /\ RowOf[paired[i]] = r
    BY <1>2, <2>1, ArrivalFacts, JobFacts DEF Inv
  <2> QED BY <2>1, <2>2 DEF RowStatuses
<1> QED BY <1>1, <1>2 DEF Written, RowStatuses

(* The worst of the worst statuses of the rows is the worst of all.        *)
LEMMA WorstOfWorsts ==
  ASSUME NEW R, NEW f, DOMAIN f = R, NEW g, \A r \in R : f[r] = Worst(g[r])
  PROVE  Worst(Range(f)) = Worst(UNION {g[r] : r \in R})
<1> DEFINE all == UNION {g[r] : r \in R}
<1>1. \A s : s \in Range(f) <=> \E r \in R : s = Worst(g[r])
  BY DEF Range
<1>2. \A s : s \in all <=> \E r \in R : s \in g[r]
  OBVIOUS
<1> HIDE DEF all
<1> QED BY <1>1, <1>2 DEF Worst

(* The rows of a run that is aggregated have the worst status of their     *)
(* repeats in the store, and together the worst of all.                    *)
LEMMA AggregatedLevels ==
  ASSUME OwnRepeats, Inv, aggregated = Rows
  PROVE  /\ \A r \in Row : scenario[r] = Worst(Written(r))
         /\ Worst(Range(scenario)) = Worst(Range(repeat))
<1>1. \A r \in Row : scenario[r] = Worst(Written(r))
  BY WrittenIsHeld, AggregatedFacts
<1> DEFINE g == [r \in Row |-> Written(r)]
<1>2. Worst(Range(scenario)) = Worst(UNION {g[r] : r \in Row})
  <2>1. DOMAIN scenario = Row /\ \A r \in Row : scenario[r] = Worst(g[r])
    BY <1>1, AggregatedFacts
  <2> HIDE DEF g
  <2> QED BY <2>1, WorstOfWorsts, AggregatedFacts
<1>3. UNION {g[r] : r \in Row} = Range(repeat) \ {"absent"}
  <2>1. \A id \in RepeatId : id[1] \in Row
    BY JobFacts DEF RepeatId
  <2>2. DOMAIN repeat = RepeatId
    BY DEF Inv, TypeOK
  <2> QED BY <2>1, <2>2 DEF Written, Range
<1> QED BY <1>1, <1>2, <1>3 DEF Worst

(* In a finished run the three levels of the store agree, provided every   *)
(* job has a repeat row of its own.                                        *)
THEOREM LevelsAgreeHolds ==
  ASSUME OwnRepeats
  PROVE  Spec => []LevelsAgree
<1>1. Inv => LevelsAgree
  BY AggregatedLevels DEF LevelsAgree, Inv, ClosedLast
<1> QED BY <1>1, Invariance, PTL

-----------------------------------------------------------------------------
(* A run implements the ledger.                                            *)

LEMMA InitLedger == Init => Ledger!Init
BY DEF Init, Ledger!Init

(* Main writes a repeat only where none is: the job's own.                 *)
LEMMA SaveEnters ==
  ASSUME OwnRepeats, Inv, SaveRepeat
  PROVE  \E id \in RepeatId, s \in Verdict : Ledger!Enter(id, s)
<1> DEFINE j == paired[saved + 1]
<1>1. /\ phase = "persisting" /\ ~half /\ saved + 1 \in 1..Len(paired) /\ Saved = saved
      /\ repeat' = [repeat EXCEPT ![Id(j)] = StatusOf(j)] /\ UNCHANGED run
  BY ArrivalFacts DEF SaveRepeat, Inv, TypeOK, Saved
<1>2. j \in Job /\ job[j] \in Result /\ Id(j) \in RepeatId
  BY <1>1, ArrivalFacts, JobFacts DEF Inv, ArrivesOnce
<1>3. StatusOf(j) \in Verdict
  BY <1>2 DEF StatusOf, Result, Verdict
<1>4. repeat[Id(j)] = "absent"
  <2> SUFFICES ASSUME repeat[Id(j)] # "absent" PROVE FALSE
    OBVIOUS
  <2>1. PICK i \in 1..saved : Id(j) = Id(paired[i])
    BY <1>1, <1>2 DEF Inv, WrittenInOrder
  <2>2. i \in 1..Len(paired) /\ i # saved + 1
    BY <1>1 DEF Inv, TypeOK
  <2>3. paired[i] = j
    BY <1>2, <2>1, <2>2, ArrivalFacts DEF Inv, OwnRepeats
  <2> QED BY <1>1, <2>2, <2>3 DEF Inv, ArrivesOnce
<1>5. ~run.finished
  BY <1>1 DEF Inv, ClosedLast
<1> HIDE DEF j
<1>6. Ledger!Enter(Id(j), StatusOf(j))
  BY <1>1, <1>4, <1>5 DEF Ledger!Enter
<1> QED BY <1>2, <1>3, <1>6

(* Main closes the run over the statuses that are in the store.            *)
LEMMA FinishCloses ==
  ASSUME OwnRepeats, Inv, Finish
  PROVE  Ledger!Close
<1>1. /\ phase = "persisting" /\ run'.finished = TRUE /\ UNCHANGED repeat
      /\ run'.status \in Verdict
  BY WorstType DEF Finish
<1>2. ~run.finished
  BY <1>1 DEF Inv, ClosedLast
<1>3. run'.status = Worst(Range(repeat))
  BY AggregatedLevels DEF Finish
<1>4. Worst(Range(repeat)) = Ledger!Worst(Ledger!Entered)
  <2>1. DOMAIN repeat = RepeatId
    BY DEF Inv, TypeOK
  <2> QED BY <2>1 DEF Worst, Range, Ledger!Entered, Ledger!Worst
<1> QED BY <1>1, <1>2, <1>3, <1>4 DEF Ledger!Close, Verdict

(* Every other step leaves the ledger as it is.                            *)
LEMMA NextLedger ==
  ASSUME OwnRepeats, Inv, [Next]_vars
  PROVE  [Ledger!Next]_(Ledger!vars)
<1>1. CASE SaveRepeat
  BY <1>1, SaveEnters DEF Ledger!Next, Verdict, Ledger!Verdict
<1>2. CASE Finish
  BY <1>2, FinishCloses DEF Ledger!Next
<1>3. CASE CreateRun
  <2>1. /\ run' = [status |-> "passed", finished |-> FALSE] /\ UNCHANGED repeat
        /\ phase = "start"
    BY <1>3 DEF CreateRun
  <2>2. ~run.finished /\ run.status \in {"absent", "passed"} /\ run.finished \in BOOLEAN
    BY <2>1 DEF Inv, ClosedLast, TypeOK
  <2> QED BY <2>1, <2>2 DEF Ledger!vars
<1>4. CASE UNCHANGED <<run, repeat>>
  BY <1>4 DEF Ledger!vars
<1> QED BY <1>1, <1>2, <1>3, <1>4
    DEF Next, JobStep, MainStep, SeedRow, NothingToRun, BuildGroups, Start,
        Complete, Collect, CollectRaises, Drained, SaveDetails, Aggregate, MainRaises, Kill,
        Rest, vars, store

(* What a reader sees of a run, at any moment, is the ledger of RunLedger: *)
(* repeats are entered once, none after the run is closed, and the closed  *)
(* run has their worst status.                                             *)
THEOREM ImplementsLedgerHolds ==
  ASSUME OwnRepeats
  PROVE  Spec => ImplementsLedger
<1>1. Inv /\ [Next]_vars => [Ledger!Next]_(Ledger!vars)
  BY NextLedger
<1> QED BY <1>1, InitLedger, Invariance, PTL DEF Spec, Ledger!Spec, ImplementsLedger

=============================================================================
