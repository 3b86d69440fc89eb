----------------------- MODULE FixtureLifecycleProofs -----------------------
(***************************************************************************)
(* What holds of FixtureLifecycle for every set of fixtures, every         *)
(* dependency graph, every iteration order and every choice of the         *)
(* environment.                                                            *)
(***************************************************************************)
EXTENDS FixtureLifecycle, FiniteSetTheorems, SequenceTheorems, TLAPS

-----------------------------------------------------------------------------
(* Facts about the helpers.                                                *)

(* What is needed is a set of fixtures and stays the same.                 *)
LEMMA NeededFixtures ==
  /\ Needed \subseteq Fixture
  /\ UNCHANGED graph => Needed' = Needed
<1>1. Needed \subseteq Fixture
  BY DEF Needed
<1>2. ASSUME UNCHANGED graph PROVE Needed' = Needed
  BY <1>2 DEF Needed, DepClosed, graph
<1> QED BY <1>1, <1>2

(* A set of needed fixtures is finite.                                     *)
LEMMA NeededFinite ==
  ASSUME NEW S \in SUBSET Needed
  PROVE  IsFiniteSet(S) /\ Cardinality(S) \in Nat
BY FixtureAssumption, NeededFixtures, FS_Subset, FS_CardinalityType

(* A listing is a sequence that holds every element once.                  *)
LEMMA ListingFacts ==
  ASSUME NEW S \in SUBSET Needed, NEW s \in Listings(S)
  PROVE  /\ s \in Seq(S)
         /\ s \in Seq(Fixture)
         /\ \A i, j \in 1..Len(s) : s[i] = s[j] => i = j
         /\ \A f \in S : \E i \in 1..Len(s) : s[i] = f
<1> DEFINE n == Cardinality(S)
<1>1. n \in Nat
  BY NeededFinite
<1>2. s \in [1..n -> S] /\ IsInjective(s) /\ Range(s) = S
  BY DEF Listings
<1>3. s \in Seq(S)
  BY <1>1, <1>2, SeqDef
<1>4. DOMAIN s = 1..Len(s)
  BY <1>3, LenProperties
<1>5. s \in Seq(Fixture)
  BY <1>3, NeededFixtures, SeqMonotonic
<1> HIDE DEF n
<1>6. \A f \in S : \E i \in 1..Len(s) : s[i] = f
  BY <1>2, <1>4 DEF Range
<1> QED BY <1>2, <1>3, <1>4, <1>5, <1>6 DEF IsInjective

(* All but the last element of a sequence.                                 *)
LEMMA FrontFacts ==
  ASSUME NEW S, NEW s \in Seq(S), s # <<>>
  PROVE  /\ Len(s) \in Nat \ {0}
         /\ s[Len(s)] \in S
         /\ Front(s) \in Seq(S)
         /\ Len(Front(s)) = Len(s) - 1
         /\ \A i \in 1..(Len(s) - 1) : Front(s)[i] = s[i]
<1>1. Len(s) \in Nat \ {0}
  BY EmptySeq
<1>2. \A i \in 1..(Len(s) - 1) : s[i] \in S
  BY <1>1, ElementOfSeq
<1>3. s[Len(s)] \in S
  BY <1>1, ElementOfSeq
<1>4. /\ SubSeq(s, 1, Len(s) - 1) \in Seq(S)
      /\ Len(SubSeq(s, 1, Len(s) - 1)) = IF 1 <= Len(s) - 1 THEN Len(s) - 1 - 1 + 1 ELSE 0
      /\ \A i \in 1..(Len(s) - 1 - 1 + 1) : SubSeq(s, 1, Len(s) - 1)[i] = s[1 + i - 1]
  BY <1>1, <1>2, SubSeqProperties
<1> DEFINE n == Len(s) - 1
           t == SubSeq(s, 1, n)
<1>5. n \in Nat /\ n - 1 + 1 = n /\ \A i \in 1..n : 1 + i - 1 = i
  BY <1>1
<1>6. Len(t) = n
  BY <1>4, <1>5
<1>7. \A i \in 1..n : t[i] = s[i]
  BY <1>4, <1>5
<1> QED BY <1>1, <1>3, <1>4, <1>6, <1>7 DEF Front

-----------------------------------------------------------------------------
(* Types.                                                                  *)

LEMMA InitType == Init => TypeOK
<1> SUFFICES ASSUME Init PROVE TypeOK
  OBVIOUS
<1>1. deps \in [Fixture -> SUBSET Fixture] /\ roots \in SUBSET Fixture
  BY FixtureAssumption DEF Init
<1>2. ready \in Seq(Fixture)
  BY ListingFacts DEF Init
<1>3. waiting \in [Needed -> SUBSET Fixture]
  BY <1>1, NeededFixtures DEF Init
<1> QED BY <1>1, <1>2, <1>3, EmptySeq DEF Init, TypeOK

LEMMA NextType == TypeOK /\ [Next]_vars => TypeOK'
<1> SUFFICES ASSUME TypeOK, [Next]_vars PROVE TypeOK'
  OBVIOUS
<1> USE DEF TypeOK
<1>1. CASE Place
  <2> DEFINE f == Head(ready)
             freed == {g \in Needed : f \in deps[g] /\ waiting[g] = {f}}
  <2>1. PICK batch \in Listings(freed) : ready' = Tail(ready) \o batch
    BY <1>1 DEF Place
  <2>2. Needed' = Needed /\ UNCHANGED graph
    BY <1>1, NeededFixtures DEF Place
  <2>3. f \in Fixture /\ Tail(ready) \in Seq(Fixture)
    BY <1>1, HeadTailProperties DEF Place
  <2>4. ready' \in Seq(Fixture)
    BY <2>1, <2>3, ListingFacts, ConcatProperties
  <2>5. order' \in Seq(Fixture) /\ Len(order') = Len(order) + 1
    BY <1>1, <2>3, AppendProperties DEF Place
  <2>6. built' \in 0..Len(order')
    BY <1>1, <2>5, LenProperties DEF Place
  <2>7. waiting' \in [Needed' -> SUBSET Fixture]
    BY <1>1, <2>2 DEF Place
  <2> QED BY <1>1, <2>2, <2>4, <2>5, <2>6, <2>7 DEF Place, graph
<1>2. CASE ~Place
  <2>1. UNCHANGED <<graph, sorting>>
    BY <1>2 DEF Next, LibraryStep, FixtureStep, StartSetup, RejectCycle, SetUpYields,
       SetUpReturns, SetUp, SetUpRaises, StartBody, BodyReturns, BodyRaises,
       BodyTimesOut, TearDown, TearDownEscapes, Report, ReportSetupFailure, Rest, vars,
       graph, sorting
  <2>2. Needed' = Needed
    BY <2>1, NeededFixtures
  <2>3. built' \in 0..Len(order)
    BY <1>2, LenProperties DEF Next, LibraryStep, FixtureStep, StartSetup, RejectCycle, SetUpYields,
       SetUpReturns, SetUp, SetUpRaises, StartBody, BodyReturns, BodyRaises,
       BodyTimesOut, TearDown, TearDownEscapes, Report, ReportSetupFailure, Rest, vars
  <2>4. open' \in Seq(Fixture) /\ closed' \in SUBSET Fixture /\ yielded' \in SUBSET Fixture
    <3>1. CASE TearDown \/ TearDownEscapes
      BY <3>1, FrontFacts DEF TearDown, TearDownEscapes
    <3>2. ASSUME NEW f \in Fixture, SetUpYields(f) PROVE <2>4
      BY <3>2, AppendProperties DEF SetUpYields, SetUp
    <3>3. CASE UNCHANGED <<open, closed, yielded>>
      BY <3>3
    <3> QED BY <1>2, <3>1, <3>2, <3>3 DEF Next, LibraryStep, FixtureStep, StartSetup, RejectCycle,
       SetUpReturns, SetUp, SetUpRaises, StartBody, BodyReturns, BodyRaises,
       BodyTimesOut, Report, ReportSetupFailure, Rest, vars
  <2>5. /\ phase' \in {"sorting", "setup", "body", "unwinding", "teardown", "finished", "raised"}
        /\ raised' \in Exception \cup {"none"}
        /\ verdict' \in {"none", "passed", "failed", "error", "timeout"}
    BY <1>2 DEF Next, LibraryStep, FixtureStep, StartSetup, RejectCycle, SetUpYields,
       SetUpReturns, SetUp, SetUpRaises, StartBody, BodyReturns, BodyRaises,
       BodyTimesOut, TearDown, TearDownEscapes, Report, ReportSetupFailure, Rest, vars,
       VerdictOf, Exception
  <2> QED BY <2>1, <2>2, <2>3, <2>4, <2>5 DEF graph, sorting
<1> QED BY <1>1, <1>2

(* Every variable keeps its type.                                          *)
THEOREM TypeCorrect == Spec => []TypeOK
BY InitType, NextType, PTL DEF Spec

-----------------------------------------------------------------------------
(* The sort.                                                               *)

(* The order so far is topological and holds needed fixtures only.         *)
Topological ==
  \A i \in 1..Len(order) :
    /\ order[i] \in Needed
    /\ \A d \in deps[order[i]] : \E j \in 1..(i - 1) : order[j] = d

(* What a fixture waits for is what the order lacks.                       *)
WaitingExact ==
  \A f \in Needed : waiting[f] = {d \in deps[f] : \A i \in 1..Len(order) : order[i] # d}

(* The deque holds fixtures that wait for nothing.                         *)
ReadyFree ==
  \A i \in 1..Len(ready) : ready[i] \in Needed /\ waiting[ready[i]] = {}

(* No fixture stands twice in order and deque.                             *)
EachOnce ==
  /\ \A i, j \in 1..Len(order) : order[i] = order[j] => i = j
  /\ \A i, j \in 1..Len(ready) : ready[i] = ready[j] => i = j
  /\ \A i \in 1..Len(order), j \in 1..Len(ready) : order[i] # ready[j]

(* A fixture that waits for nothing is in the order or in the deque.       *)
NoneForgotten ==
  \A f \in Needed : waiting[f] = {} =>
    \/ \E i \in 1..Len(order) : order[i] = f
    \/ \E i \in 1..Len(ready) : ready[i] = f

(* No fixture of a cycle is in the order.                                  *)
CyclesStay ==
  \A S \in SUBSET Needed :
    (\A f \in S : deps[f] \cap S # {}) => \A i \in 1..Len(order) : order[i] \notin S

SortInv == Topological /\ WaitingExact /\ ReadyFree /\ EachOnce /\ NoneForgotten /\ CyclesStay

LEMMA InitSort == Init => SortInv
<1> SUFFICES ASSUME Init PROVE SortInv
  OBVIOUS
<1>1. order = <<>> /\ Len(order) = 0
  BY EmptySeq DEF Init
<1>2. deps \in [Fixture -> SUBSET Fixture] /\ waiting = [f \in Needed |-> deps[f]]
  BY FixtureAssumption DEF Init
<1> DEFINE free == {f \in Needed : deps[f] = {}}
<1>3. /\ ready \in Listings(free) /\ free \in SUBSET Needed
      /\ \A f \in free : deps[f] = {}
      /\ \A f \in Needed : deps[f] = {} => f \in free
  BY DEF Init
<1> HIDE DEF free
<1>4. /\ ready \in Seq(free)
      /\ \A i, j \in 1..Len(ready) : ready[i] = ready[j] => i = j
      /\ \A f \in free : \E i \in 1..Len(ready) : ready[i] = f
  BY <1>3, ListingFacts
<1>5. \A i \in 1..Len(ready) : ready[i] \in free
  BY <1>4, ElementOfSeq
<1>6. 1..Len(order) = {}
  BY <1>1
<1>7. Topological /\ CyclesStay
  BY <1>6 DEF Topological, CyclesStay
<1>8. WaitingExact
  BY <1>2, <1>6, NeededFixtures DEF WaitingExact
<1>9. ReadyFree
  BY <1>2, <1>3, <1>5 DEF ReadyFree
<1>10. EachOnce
  BY <1>4, <1>6 DEF EachOnce
<1>11. NoneForgotten
  BY <1>2, <1>3, <1>4 DEF NoneForgotten
<1> QED BY <1>7, <1>8, <1>9, <1>10, <1>11 DEF SortInv

(* The new order and deque, position by position.                          *)
LEMMA PlaceFacts ==
  ASSUME TypeOK, SortInv, Place
  PROVE  LET f == Head(ready)
             freed == {g \in Needed : f \in deps[g] /\ waiting[g] = {f}}
         IN  /\ f \in Needed /\ waiting[f] = {}
             /\ Len(order) \in Nat /\ Len(order') = Len(order) + 1
             /\ \A i \in 1..Len(order) : order'[i] = order[i]
             /\ order'[Len(order) + 1] = f
             /\ Len(ready) \in Nat \ {0} /\ ready[1] = f
             /\ \E batch \in Seq(freed) :
                  /\ Len(batch) \in Nat
                  /\ \A i \in 1..Len(batch) : batch[i] \in freed
                  /\ \A i, j \in 1..Len(batch) : batch[i] = batch[j] => i = j
                  /\ \A g \in freed : \E i \in 1..Len(batch) : batch[i] = g
                  /\ Len(ready') = Len(ready) - 1 + Len(batch)
                  /\ \A i \in 1..(Len(ready) - 1) : ready'[i] = ready[i + 1]
                  /\ \A i \in 1..Len(batch) : ready'[Len(ready) - 1 + i] = batch[i]
             /\ waiting' = [g \in Needed |-> waiting[g] \ {f}]
             /\ UNCHANGED graph /\ Needed' = Needed
<1> DEFINE f == Head(ready)
           freed == {g \in Needed : f \in deps[g] /\ waiting[g] = {f}}
           n == Len(ready) - 1
<1>1. /\ ready \in Seq(Fixture) /\ ready # <<>> /\ order \in Seq(Fixture)
      /\ order' = Append(order, f)
      /\ waiting' = [g \in Needed |-> waiting[g] \ {f}]
      /\ UNCHANGED graph
  BY DEF Place, TypeOK
<1>2. PICK batch \in Listings(freed) : ready' = Tail(ready) \o batch
  BY DEF Place
<1>3. Len(ready) \in Nat \ {0} /\ f = ready[1] /\ f \in Fixture
  BY <1>1, EmptySeq, HeadTailProperties
<1>4. f \in Needed /\ waiting[f] = {} /\ freed \in SUBSET Needed
  BY <1>3 DEF SortInv, ReadyFree
<1>5. /\ Len(order) \in Nat /\ Len(order') = Len(order) + 1
      /\ \A i \in 1..Len(order) : order'[i] = order[i]
      /\ order'[Len(order) + 1] = f
  BY <1>1, <1>3, AppendProperties, LenProperties
<1>6. /\ Tail(ready) \in Seq(Fixture) /\ Len(Tail(ready)) = n /\ n \in Nat
      /\ \A i \in 1..n : Tail(ready)[i] = ready[i + 1]
  BY <1>1, <1>3, HeadTailProperties
<1> HIDE DEF f, freed, n
<1>7. /\ batch \in Seq(freed) /\ batch \in Seq(Fixture)
      /\ \A i, j \in 1..Len(batch) : batch[i] = batch[j] => i = j
      /\ \A g \in freed : \E i \in 1..Len(batch) : batch[i] = g
  BY <1>2, <1>4, ListingFacts
<1>8. Len(batch) \in Nat /\ \A i \in 1..Len(batch) : batch[i] \in freed
  BY <1>7, LenProperties, ElementOfSeq
<1>9. /\ Len(ready') = n + Len(batch)
      /\ \A i \in 1..(n + Len(batch)) :
           ready'[i] = IF i <= n THEN Tail(ready)[i] ELSE batch[i - n]
  <2>1. /\ Len(Tail(ready) \o batch) = Len(Tail(ready)) + Len(batch)
        /\ \A i \in 1..(Len(Tail(ready)) + Len(batch)) :
             (Tail(ready) \o batch)[i] =
               IF i <= Len(Tail(ready)) THEN Tail(ready)[i] ELSE batch[i - Len(Tail(ready))]
    BY <1>6, <1>7, ConcatProperties
  <2> QED BY <2>1, <1>2, <1>6
<1>10. \A i \in 1..n : ready'[i] = ready[i + 1]
  BY <1>6, <1>8, <1>9
<1>11. \A i \in 1..Len(batch) : ready'[n + i] = batch[i]
  <2> TAKE i \in 1..Len(batch)
  <2> DEFINE k == n + i
  <2>1. k \in 1..(n + Len(batch)) /\ ~(k <= n) /\ k - n = i
    BY <1>6, <1>8
  <2>2. ready'[k] = batch[k - n]
    BY <2>1, <1>9
  <2> QED BY <2>1, <2>2
<1>12. Needed' = Needed
  BY <1>1, NeededFixtures
<1> QED BY <1>1, <1>3, <1>4, <1>5, <1>7, <1>8, <1>9, <1>10, <1>11, <1>12 DEF f, freed, n

LEMMA PlaceSort == TypeOK /\ SortInv /\ Place => SortInv'
<1> SUFFICES ASSUME TypeOK, SortInv, Place PROVE SortInv'
  OBVIOUS
<1> DEFINE f == Head(ready)
           freed == {g \in Needed : f \in deps[g] /\ waiting[g] = {f}}
           n == Len(order)
           m == Len(ready) - 1
<1>1. /\ f \in Needed /\ waiting[f] = {}
      /\ n \in Nat /\ Len(order') = n + 1
      /\ \A i \in 1..n : order'[i] = order[i]
      /\ order'[n + 1] = f
      /\ m \in Nat /\ Len(ready) = m + 1 /\ ready[1] = f
      /\ waiting' = [g \in Needed |-> waiting[g] \ {f}]
      /\ deps' = deps /\ Needed' = Needed
  BY PlaceFacts DEF graph
<1>2. PICK batch \in Seq(freed) :
        /\ Len(batch) \in Nat
        /\ \A i \in 1..Len(batch) : batch[i] \in freed
        /\ \A i, j \in 1..Len(batch) : batch[i] = batch[j] => i = j
        /\ \A g \in freed : \E i \in 1..Len(batch) : batch[i] = g
        /\ Len(ready') = m + Len(batch)
        /\ \A i \in 1..m : ready'[i] = ready[i + 1]
        /\ \A i \in 1..Len(batch) : ready'[m + i] = batch[i]
  BY PlaceFacts
<1>3. \A g \in freed : g \in Needed /\ f \in deps[g] /\ waiting[g] = {f}
  OBVIOUS
<1>4. \A g \in Needed : f \in deps[g] /\ waiting[g] = {f} => g \in freed
  OBVIOUS
<1>5. deps \in [Fixture -> SUBSET Fixture] /\ Needed \subseteq Fixture
  BY NeededFixtures DEF TypeOK
<1> HIDE DEF f, freed, n, m
<1>6. \A i \in 1..Len(order') : i \in 1..n \/ i = n + 1
  BY <1>1
<1>7. \A i \in 1..n : i \in 1..Len(order')
  BY <1>1
<1>8. ASSUME NEW i \in 1..Len(ready'), i \notin 1..m
      PROVE  \E k \in 1..Len(batch) : i = m + k /\ ready'[i] = batch[k] /\ batch[k] \in freed
  <2> DEFINE k == i - m
  <2>1. k \in 1..Len(batch) /\ i = m + k
    BY <1>1, <1>2, <1>8
  <2> HIDE DEF k
  <2>2. ready'[m + k] = batch[k] /\ batch[k] \in freed
    BY <1>2, <2>1
  <2> QED BY <2>1, <2>2
<1>9. Topological'
  <2> SUFFICES ASSUME NEW i \in 1..Len(order')
               PROVE  /\ order'[i] \in Needed
                      /\ \A d \in deps[order'[i]] : \E j \in 1..(i - 1) : order'[j] = d
    BY <1>1 DEF Topological
  <2>1. CASE i \in 1..n
    <3>1. \A j \in 1..(i - 1) : j \in 1..n
      BY <1>1, <2>1
    <3>2. order'[i] = order[i]
      BY <1>1, <2>1
    <3>3. order[i] \in Needed /\ \A d \in deps[order[i]] : \E j \in 1..(i - 1) : order[j] = d
      BY <2>1 DEF SortInv, Topological, n
    <3>4. \A j \in 1..(i - 1) : order'[j] = order[j]
      BY <1>1, <3>1
    <3> QED BY <3>2, <3>3, <3>4
  <2>2. CASE i = n + 1
    <3>1. \A d \in deps[f] : \E j \in 1..n : order[j] = d
      BY <1>1 DEF SortInv, WaitingExact, n
    <3> QED BY <1>1, <2>2, <3>1
  <2> QED BY <1>6, <2>1, <2>2
<1>10. WaitingExact'
  <2> SUFFICES ASSUME NEW g \in Needed
               PROVE  waiting'[g] = {d \in deps[g] : \A i \in 1..Len(order') : order'[i] # d}
    BY <1>1 DEF WaitingExact
  <2>1. waiting[g] = {d \in deps[g] : \A i \in 1..n : order[i] # d}
    BY DEF SortInv, WaitingExact, n
  <2>2. waiting'[g] = waiting[g] \ {f}
    BY <1>1
  <2>3. ASSUME NEW d
        PROVE  (\A i \in 1..Len(order') : order'[i] # d) <=> (d # f /\ \A i \in 1..n : order[i] # d)
    BY <1>1, <1>6, <1>7
  <2> QED BY <2>1, <2>2, <2>3
<1>11. ReadyFree'
  <2> SUFFICES ASSUME NEW i \in 1..Len(ready')
               PROVE  ready'[i] \in Needed /\ waiting'[ready'[i]] = {}
    BY <1>1 DEF ReadyFree
  <2>1. CASE i \in 1..m
    <3>1. ready[i + 1] \in Needed /\ waiting[ready[i + 1]] = {}
      BY <1>1, <2>1 DEF SortInv, ReadyFree
    <3> QED BY <1>1, <1>2, <2>1, <3>1
  <2>2. CASE i \notin 1..m
    <3>1. ready'[i] \in freed
      BY <1>8, <2>2
    <3> QED BY <1>1, <1>3, <3>1
  <2> QED BY <2>1, <2>2
(* An element of the batch is neither in the order nor in the deque.       *)
<1>12. \A g \in freed : /\ \A i \in 1..n : order[i] # g
                        /\ \A i \in 1..(m + 1) : ready[i] # g
                        /\ g # f
  <2> SUFFICES ASSUME NEW g \in freed
               PROVE  /\ \A i \in 1..n : order[i] # g
                      /\ \A i \in 1..(m + 1) : ready[i] # g
                      /\ g # f
    OBVIOUS
  <2>1. waiting[g] = {f} /\ f \in deps[g] /\ g \in Needed
    BY <1>3
  <2>2. \A i \in 1..(m + 1) : ready[i] # g
    BY <1>1, <2>1 DEF SortInv, ReadyFree
  <2>3. g # f
    BY <1>1, <2>1
  <2>4. \A i \in 1..n : order[i] # g
    <3> SUFFICES ASSUME NEW i \in 1..n, order[i] = g PROVE FALSE
      OBVIOUS
    <3>1. \E j \in 1..(i - 1) : order[j] = f
      BY <2>1 DEF SortInv, Topological, n
    <3>2. \A j \in 1..n : order[j] # ready[1]
      BY <1>1 DEF SortInv, EachOnce, n
    <3> QED BY <1>1, <3>1, <3>2
  <2> QED BY <2>2, <2>3, <2>4
<1>13. EachOnce'
  <2>1. \A i, j \in 1..n : order[i] = order[j] => i = j
    BY DEF SortInv, EachOnce, n
  <2>2. \A i, j \in 1..(m + 1) : ready[i] = ready[j] => i = j
    BY <1>1 DEF SortInv, EachOnce
  <2>3. \A i \in 1..n, j \in 1..(m + 1) : order[i] # ready[j]
    BY <1>1 DEF SortInv, EachOnce, n
  <2>4. \A i \in 1..n : order[i] # f
    BY <1>1, <2>3
  <2>5. ASSUME NEW i \in 1..Len(order'), NEW j \in 1..Len(order'), order'[i] = order'[j]
        PROVE  i = j
    BY <1>1, <1>6, <2>1, <2>4, <2>5
  <2>6. \A i \in 1..m : i + 1 \in 1..(m + 1) /\ i + 1 # 1
    BY <1>1
  <2>7. ASSUME NEW i \in 1..Len(ready'), NEW j \in 1..Len(ready'), ready'[i] = ready'[j]
        PROVE  i = j
    <3>1. CASE i \in 1..m /\ j \in 1..m
      <4>1. i + 1 = j + 1
        BY <1>2, <2>2, <2>6, <2>7, <3>1
      <4> QED BY <1>1, <3>1, <4>1
    <3>2. CASE i \in 1..m /\ j \notin 1..m
      <4>1. PICK k \in 1..Len(batch) : ready'[j] = batch[k] /\ batch[k] \in freed
        BY <1>8, <3>2
      <4> QED BY <1>2, <1>12, <2>6, <2>7, <3>2, <4>1
    <3>3. CASE i \notin 1..m /\ j \in 1..m
      <4>1. PICK k \in 1..Len(batch) : ready'[i] = batch[k] /\ batch[k] \in freed
        BY <1>8, <3>3
      <4> QED BY <1>2, <1>12, <2>6, <2>7, <3>3, <4>1
    <3>4. CASE i \notin 1..m /\ j \notin 1..m
      <4>1. PICK k \in 1..Len(batch) : i = m + k /\ ready'[i] = batch[k]
        BY <1>8, <3>4
      <4>2. PICK l \in 1..Len(batch) : j = m + l /\ ready'[j] = batch[l]
        BY <1>8, <3>4
      <4>3. k = l
        BY <1>2, <2>7, <4>1, <4>2
      <4> QED BY <4>1, <4>2, <4>3
    <3> QED BY <3>1, <3>2, <3>3, <3>4
  <2>8. ASSUME NEW i \in 1..Len(order'), NEW j \in 1..Len(ready')
        PROVE  order'[i] # ready'[j]
    <3>1. CASE j \in 1..m
      <4>1. ready'[j] = ready[j + 1] /\ j + 1 \in 1..(m + 1) /\ j + 1 # 1
        BY <1>2, <2>6, <3>1
      <4>2. ready[j + 1] # f
        BY <1>1, <2>2, <4>1
      <4> QED BY <1>1, <1>6, <2>3, <4>1, <4>2
    <3>2. CASE j \notin 1..m
      <4>1. ready'[j] \in freed
        BY <1>8, <3>2
      <4> QED BY <1>1, <1>6, <1>12, <4>1
    <3> QED BY <3>1, <3>2
  <2> QED BY <2>5, <2>7, <2>8 DEF EachOnce
<1>14. NoneForgotten'
  <2> SUFFICES ASSUME NEW g \in Needed, waiting'[g] = {}
               PROVE  \/ \E i \in 1..Len(order') : order'[i] = g
                      \/ \E i \in 1..Len(ready') : ready'[i] = g
    BY <1>1 DEF NoneForgotten
  <2>1. CASE g = f
    BY <1>1, <2>1
  <2>2. CASE waiting[g] = {} /\ \E i \in 1..n : order[i] = g
    BY <1>1, <1>7, <2>2
  <2>3. CASE waiting[g] = {} /\ g # f /\ \E i \in 1..(m + 1) : ready[i] = g
    <3>1. PICK i \in 1..(m + 1) : ready[i] = g
      BY <2>3
    <3>2. i - 1 \in 1..m /\ (i - 1) + 1 = i
      BY <1>1, <2>3, <3>1
    <3>3. ready'[i - 1] = g
      BY <1>2, <3>1, <3>2
    <3>4. i - 1 \in 1..Len(ready')
      BY <1>1, <1>2, <3>2
    <3> QED BY <3>3, <3>4
  <2>4. CASE waiting[g] # {}
    <3>1. waiting[g] = {f}
      BY <1>1, <2>4
    <3>2. f \in deps[g]
      BY <3>1 DEF SortInv, WaitingExact
    <3>3. PICK i \in 1..Len(batch) : batch[i] = g
      BY <1>2, <1>4, <3>1, <3>2
    <3>4. m + i \in 1..Len(ready')
      BY <1>1, <1>2, <3>3
    <3> QED BY <1>2, <3>3, <3>4
  <2> QED BY <1>1, <2>1, <2>2, <2>3, <2>4 DEF SortInv, NoneForgotten, n
<1>15. CyclesStay'
  <2> SUFFICES ASSUME NEW S \in SUBSET Needed, \A g \in S : deps[g] \cap S # {}
               PROVE  \A i \in 1..Len(order') : order'[i] \notin S
    BY <1>1 DEF CyclesStay
  <2>1. \A i \in 1..n : order[i] \notin S
    BY DEF SortInv, CyclesStay, n
  <2>2. \A d \in deps[f] : d \notin S
    BY <1>1, <2>1 DEF SortInv, WaitingExact, n
  <2>3. f \notin S
    BY <2>2
  <2> QED BY <1>1, <1>6, <2>1, <2>3
<1> QED BY <1>9, <1>10, <1>11, <1>13, <1>14, <1>15 DEF SortInv

(* Every other step leaves the sort alone.                                 *)
LEMMA OtherSteps ==
  ASSUME [Next]_vars, ~Place
  PROVE  UNCHANGED <<graph, sorting>>
BY DEF Next, LibraryStep, FixtureStep, StartSetup, RejectCycle, SetUpYields,
   SetUpReturns, SetUp, SetUpRaises, StartBody, BodyReturns, BodyRaises,
   BodyTimesOut, TearDown, TearDownEscapes, Report, ReportSetupFailure, Rest, vars,
   graph, sorting

LEMMA NextSort == TypeOK /\ SortInv /\ [Next]_vars => SortInv'
<1> SUFFICES ASSUME TypeOK, SortInv, [Next]_vars PROVE SortInv'
  OBVIOUS
<1>1. CASE Place
  BY <1>1, PlaceSort
<1>2. CASE ~Place
  <2>1. UNCHANGED <<deps, order, ready, waiting>> /\ Needed' = Needed
    BY <1>2, OtherSteps, NeededFixtures DEF graph, sorting
  <2>2. Topological'
    <3> SUFFICES ASSUME NEW i \in 1..Len(order)
                 PROVE  /\ order[i] \in Needed
                        /\ \A d \in deps[order[i]] : \E j \in 1..(i - 1) : order[j] = d
      BY <2>1 DEF Topological
    <3> QED BY DEF SortInv, Topological
  <2>3. WaitingExact'
    BY <2>1 DEF SortInv, WaitingExact
  <2>4. CyclesStay'
    BY <2>1 DEF SortInv, CyclesStay
  <2>5. ReadyFree' /\ EachOnce' /\ NoneForgotten'
    BY <2>1 DEF SortInv, ReadyFree, EachOnce, NoneForgotten
  <2> QED BY <2>2, <2>3, <2>4, <2>5 DEF SortInv
<1> QED BY <1>1, <1>2

-----------------------------------------------------------------------------
(* The verdict of the sort.                                                *)

(* Every needed fixture has its place.                                     *)
AllPlaced == \A f \in Needed : \E i \in 1..Len(order) : order[i] = f

(* Comparing two lengths finds out whether a fixture is missing.           *)
LEMMA LengthTells ==
  ASSUME TypeOK, SortInv
  PROVE  Len(order) = Cardinality(Needed) <=> AllPlaced
<1>1. order \in [1..Len(order) -> Fixture] /\ Len(order) \in Nat
  BY LenProperties DEF TypeOK
<1>2. order \in [1..Len(order) -> Needed]
  BY <1>1 DEF SortInv, Topological
<1>3. order \in Injection(1..Len(order), Needed)
  BY <1>2 DEF SortInv, EachOnce, Injection, IsInjective
<1>4. Cardinality(1..Len(order)) = Len(order)
  <2>1. Cardinality(1..Len(order)) = IF 1 > Len(order) THEN 0 ELSE Len(order) - 1 + 1
    BY <1>1, FS_Interval
  <2> QED BY <1>1, <2>1
<1>5. IsFiniteSet(Needed)
  BY NeededFinite
<1>6. Len(order) = Cardinality(Needed) <=> order \in Surjection(1..Len(order), Needed)
  BY <1>3, <1>4, <1>5, FS_Injection
<1>7. order \in Surjection(1..Len(order), Needed) <=> AllPlaced
  BY <1>2 DEF Surjection, AllPlaced
<1> QED BY <1>6, <1>7

(* The dependencies of a needed fixture are needed.                        *)
LEMMA NeededClosed ==
  ASSUME TypeOK
  PROVE  \A f \in Needed : deps[f] \subseteq Needed
<1> SUFFICES ASSUME NEW f \in Needed, NEW g \in deps[f] PROVE g \in Needed
  OBVIOUS
<1>1. f \in Fixture /\ g \in Fixture
  BY NeededFixtures DEF TypeOK
<1>2. ASSUME NEW S \in SUBSET Fixture, roots \subseteq S, DepClosed(S)
      PROVE  g \in S
  <2>1. f \in S
    BY <1>2 DEF Needed
  <2> QED BY <1>2, <2>1 DEF DepClosed
<1> QED BY <1>1, <1>2 DEF Needed

(* A loop that ends too early has met a cycle.                             *)
LEMMA StuckMeansCyclic ==
  ASSUME TypeOK, SortInv, ready = <<>>, ~AllPlaced
  PROVE  Cyclic
<1> DEFINE S == {f \in Needed : \A i \in 1..Len(order) : order[i] # f}
<1>1. S \in SUBSET Needed /\ S # {}
  BY DEF AllPlaced
<1>2. 1..Len(ready) = {}
  BY EmptySeq
<1>3. ASSUME NEW f \in S PROVE deps[f] \cap S # {}
  <2>1. waiting[f] # {}
    BY <1>2 DEF SortInv, NoneForgotten
  <2>2. PICK d \in deps[f] : \A i \in 1..Len(order) : order[i] # d
    BY <2>1 DEF SortInv, WaitingExact
  <2>3. d \in Needed
    BY NeededClosed
  <2> QED BY <2>2, <2>3
<1> QED BY <1>1, <1>3 DEF Cyclic

(* Once all have their place there is no cycle.                            *)
LEMMA PlacedMeansAcyclic ==
  ASSUME SortInv, AllPlaced
  PROVE  ~Cyclic
BY DEF SortInv, CyclesStay, AllPlaced, Cyclic

-----------------------------------------------------------------------------
(* The execution.                                                          *)

(* What each phase has behind it.                                          *)
PhaseInv ==
  /\ phase = "sorting" => built = 0 /\ open = <<>>
  /\ phase \in {"sorting", "setup", "body"} => closed = {} /\ raised = "none" /\ verdict = "none"
  /\ phase \notin {"sorting", "raised"} => ready = <<>> /\ AllPlaced
  /\ phase = "unwinding" => raised # "none" /\ verdict = "none"
  /\ phase \in {"body", "teardown"} => raised = "none" /\ built = Len(order)
  /\ verdict = "passed" => raised = "none" /\ built = Len(order) /\ AllPlaced
  /\ phase = "finished" /\ open # <<>> => verdict = "error" /\ raised # "none"
  /\ phase = "raised" => verdict = "none"

LEMMA InitPhase == Init => PhaseInv
BY DEF Init, PhaseInv

LEMMA NextPhase == TypeOK /\ SortInv /\ PhaseInv /\ [Next]_vars => PhaseInv'
<1> SUFFICES ASSUME TypeOK, SortInv, PhaseInv, [Next]_vars PROVE PhaseInv'
  OBVIOUS
<1>1. CASE Place
  BY <1>1 DEF Place, PhaseInv
<1>2. CASE ~Place
  <2>1. UNCHANGED <<graph, sorting>> /\ Needed' = Needed
    BY <1>2, OtherSteps, NeededFixtures
  <2>2. AllPlaced' <=> AllPlaced
    BY <2>1 DEF AllPlaced, sorting
  <2> USE DEF PhaseInv, graph, sorting
  <2>3. CASE StartSetup
    BY <2>1, <2>2, <2>3, LengthTells DEF StartSetup
  <2>4. CASE RejectCycle
    BY <2>1, <2>2, <2>4 DEF RejectCycle
  <2>5. ASSUME NEW f \in Fixture, SetUp(f), TRUE PROVE PhaseInv'
    BY <2>1, <2>2, <2>5 DEF SetUp
  <2>6. ASSUME NEW exc \in Exception, SetUpRaises(exc) PROVE PhaseInv'
    BY <2>1, <2>2, <2>6 DEF SetUpRaises, Exception
  <2>7. CASE StartBody
    BY <2>1, <2>2, <2>7 DEF StartBody
  <2>8. CASE BodyReturns
    BY <2>1, <2>2, <2>8 DEF BodyReturns
  <2>9. ASSUME NEW exc \in Exception, BodyRaises(exc) PROVE PhaseInv'
    BY <2>1, <2>2, <2>9 DEF BodyRaises, VerdictOf, Exception
  <2>10. CASE TearDown
    BY <2>1, <2>2, <2>10 DEF TearDown, Unwinding
  <2>11. CASE TearDownEscapes
    BY <2>1, <2>2, <2>11 DEF TearDownEscapes, Unwinding, VerdictOf
  <2>12. CASE Report
    BY <2>1, <2>2, <2>12 DEF Report
  <2>13. CASE ReportSetupFailure
    BY <2>1, <2>2, <2>13 DEF ReportSetupFailure, VerdictOf, TypeOK, Exception
  <2>14. CASE UNCHANGED vars
    BY <2>1, <2>2, <2>14 DEF vars
  <2> QED BY <1>2, <2>3, <2>4, <2>5, <2>6, <2>7, <2>8, <2>9, <2>10, <2>11, <2>12, <2>13, <2>14
      DEF Next, LibraryStep, FixtureStep, SetUpYields, SetUpReturns, BodyTimesOut, Exception, Rest
<1> QED BY <1>1, <1>2

(* The stack of teardowns follows the order of set-up: what is open is     *)
(* listed as it was set up, what is closed was set up after all of it.     *)
Before(f, g) == \E k, l \in 1..built : k < l /\ order[k] = f /\ order[l] = g

StackInv ==
  /\ \A i \in 1..Len(open) : \E k \in 1..built : order[k] = open[i]
  /\ \A i, j \in 1..Len(open) : i < j => Before(open[i], open[j])
  /\ \A g \in closed : \A i \in 1..Len(open) : Before(open[i], g)

LEMMA InitStack == Init => StackInv
BY EmptySeq DEF Init, StackInv

(* Closing the last one of the stack keeps it so.                          *)
LEMMA CloseLast ==
  ASSUME TypeOK, StackInv, open # <<>>, UNCHANGED <<order, built>>,
         open' = Front(open), closed' = closed \cup {open[Len(open)]}
  PROVE  StackInv'
<1> DEFINE n == Len(open)
<1>1. /\ n \in Nat \ {0} /\ Len(open') = n - 1
      /\ \A i \in 1..(n - 1) : open'[i] = open[i]
  BY FrontFacts DEF TypeOK
<1>2. \A i \in 1..(n - 1) : i \in 1..n /\ i < n /\ n \in 1..n
  BY <1>1
<1>3. \A i \in 1..Len(open') : \E k \in 1..built : order[k] = open'[i]
  BY <1>1, <1>2 DEF StackInv
<1>4. ASSUME NEW i \in 1..Len(open'), NEW j \in 1..Len(open'), i < j
      PROVE  Before(open'[i], open'[j])
  BY <1>1, <1>2, <1>4 DEF StackInv
<1>5. ASSUME NEW g \in closed', NEW i \in 1..Len(open')
      PROVE  Before(open'[i], g)
  BY <1>1, <1>2 DEF StackInv
<1>6. \A f, g : Before(f, g)' <=> Before(f, g)
  BY DEF Before
<1> QED BY <1>3, <1>4, <1>5, <1>6 DEF StackInv

LEMMA NextStack == TypeOK /\ PhaseInv /\ StackInv /\ [Next]_vars => StackInv'
<1> SUFFICES ASSUME TypeOK, PhaseInv, StackInv, [Next]_vars PROVE StackInv'
  OBVIOUS
<1>1. CASE Place
  BY <1>1, EmptySeq DEF Place, PhaseInv, StackInv, graph
<1>2. CASE TearDown \/ TearDownEscapes
  BY <1>2, CloseLast DEF TearDown, TearDownEscapes, sorting
<1>3. ASSUME NEW f \in Fixture, SetUp(f), UNCHANGED open PROVE StackInv'
  <2>1. /\ built' = built + 1 /\ UNCHANGED <<order, open, closed>> /\ built \in Nat
    BY <1>3, LenProperties DEF SetUp, sorting, TypeOK
  <2>2. 1..built \subseteq 1..built'
    BY <2>1
  <2> QED BY <2>1, <2>2 DEF StackInv, Before
<1>4. ASSUME NEW f \in Fixture, SetUpYields(f) PROVE StackInv'
  <2> DEFINE n == Len(open)
  <2>1. /\ built \in Nat /\ built' = built + 1 /\ UNCHANGED order /\ closed' = {}
        /\ order[built'] = f
    BY <1>4, LenProperties DEF SetUpYields, SetUp, sorting, TypeOK, PhaseInv
  <2>2. /\ n \in Nat /\ Len(open') = n + 1 /\ open'[n + 1] = f
        /\ \A i \in 1..n : open'[i] = open[i]
    BY <1>4, AppendProperties, LenProperties DEF SetUpYields, TypeOK
  <2>3. /\ 1..built \subseteq 1..built' /\ built' \in 1..built'
        /\ \A k \in 1..built : k < built'
    BY <2>1
  <2>4. \A i \in 1..Len(open') : i \in 1..n \/ i = n + 1
    BY <2>2
  <2> HIDE DEF n
  <2>5. \A i \in 1..n : \E k \in 1..built : order[k] = open[i]
    BY DEF StackInv, n
  <2>6. \A i \in 1..Len(open') : \E k \in 1..built' : order'[k] = open'[i]
    BY <2>1, <2>2, <2>3, <2>4, <2>5
  <2>7. ASSUME NEW i \in 1..Len(open'), NEW j \in 1..Len(open'), i < j
        PROVE  \E k, l \in 1..built' : k < l /\ order'[k] = open'[i] /\ order'[l] = open'[j]
    <3>1. i \in 1..n
      BY <2>2, <2>7
    <3>2. CASE j \in 1..n
      <4>1. Before(open[i], open[j])
        BY <2>7, <3>1, <3>2 DEF StackInv, n
      <4> QED BY <2>1, <2>2, <2>3, <3>1, <3>2, <4>1 DEF Before
    <3>3. CASE j = n + 1
      BY <2>1, <2>2, <2>3, <2>5, <3>1, <3>3
    <3> QED BY <2>4, <3>2, <3>3
  <2> QED BY <2>1, <2>6, <2>7 DEF StackInv, Before
<1>5. CASE UNCHANGED <<order, built, open, closed>>
  <2>1. order' = order /\ built' = built /\ open' = open /\ closed' = closed
    BY <1>5
  <2>2. ASSUME NEW f, NEW g PROVE Before(f, g)' <=> Before(f, g)
    BY <2>1 DEF Before
  <2> QED BY <2>1, <2>2 DEF StackInv
<1> QED BY <1>1, <1>2, <1>3, <1>4, <1>5
    DEF Next, LibraryStep, FixtureStep, StartSetup, RejectCycle, SetUpReturns, SetUpRaises,
        StartBody, BodyReturns, BodyRaises, BodyTimesOut, Report, ReportSetupFailure, Rest,
        vars, sorting

(* What yielded is open or closed.                                         *)
Accounted ==
  \A f \in yielded : f \in closed \/ \E i \in 1..Len(open) : open[i] = f

LEMMA NextAccounted == TypeOK /\ Accounted /\ [Next]_vars => Accounted'
<1> SUFFICES ASSUME TypeOK, Accounted, [Next]_vars PROVE Accounted'
  OBVIOUS
<1>1. CASE TearDown \/ TearDownEscapes
  <2>1. /\ Len(open) \in Nat \ {0} /\ Len(open') = Len(open) - 1
        /\ \A i \in 1..(Len(open) - 1) : open'[i] = open[i]
        /\ closed' = closed \cup {open[Len(open)]} /\ yielded' = yielded
    BY <1>1, FrontFacts DEF TearDown, TearDownEscapes, TypeOK
  <2>2. \A i \in 1..Len(open) : i \in 1..Len(open') \/ i = Len(open)
    BY <2>1
  <2> QED BY <2>1, <2>2 DEF Accounted
<1>2. ASSUME NEW f \in Fixture, SetUpYields(f) PROVE Accounted'
  <2>1. /\ Len(open) \in Nat /\ Len(open') = Len(open) + 1 /\ open'[Len(open) + 1] = f
        /\ \A i \in 1..Len(open) : open'[i] = open[i]
        /\ yielded' = yielded \cup {f} /\ closed' = closed
    BY <1>2, AppendProperties, LenProperties DEF SetUpYields, SetUp, TypeOK
  <2>2. 1..Len(open) \subseteq 1..Len(open') /\ Len(open) + 1 \in 1..Len(open')
    BY <2>1
  <2> QED BY <2>1, <2>2 DEF Accounted
<1>3. CASE UNCHANGED <<open, closed, yielded>>
  BY <1>3 DEF Accounted
<1> QED BY <1>1, <1>2, <1>3
    DEF Next, LibraryStep, FixtureStep, Place, StartSetup, RejectCycle, SetUpReturns, SetUp,
        SetUpRaises, StartBody, BodyReturns, BodyRaises, BodyTimesOut, Report,
        ReportSetupFailure, Rest, vars

-----------------------------------------------------------------------------
(* The properties.                                                         *)

Inv == TypeOK /\ SortInv /\ PhaseInv /\ StackInv /\ Accounted

(* The inductive invariant behind all of them.                             *)
THEOREM Invariance == Spec => []Inv
<1>1. Init => Inv
  BY InitType, InitSort, InitPhase, InitStack DEF Inv, Init, Accounted
<1>2. Inv /\ [Next]_vars => Inv'
  BY NextType, NextSort, NextPhase, NextStack, NextAccounted DEF Inv
<1> QED BY <1>1, <1>2, PTL DEF Spec

(* Kahn's loop refuses exactly the cyclic graphs.                          *)
THEOREM SortVerdictHolds == Spec => []SortVerdict
<1>1. Inv => SortVerdict
  BY LengthTells, StuckMeansCyclic, PlacedMeansAcyclic DEF Inv, PhaseInv, SortVerdict
<1> QED BY <1>1, Invariance, PTL

(* A fixture is called only when all it depends on has a value.            *)
THEOREM NoMissingDependencyHolds == Spec => []NoMissingDependency
<1>1. ASSUME Inv PROVE NoMissingDependency
  <2> SUFFICES ASSUME phase = "setup", built < Len(order), NEW d \in deps[order[built + 1]]
               PROVE  ValueOf(d)
    BY DEF NoMissingDependency
  <2>1. built \in Nat /\ built + 1 \in 1..Len(order) /\ built + 1 - 1 = built
    BY <1>1, LenProperties DEF Inv, TypeOK
  <2>2. \E j \in 1..(built + 1 - 1) : order[j] = d
    BY <1>1, <2>1 DEF Inv, SortInv, Topological
  <2> QED BY <2>1, <2>2 DEF ValueOf
<1> QED BY <1>1, Invariance, PTL

(* What was set up before f holds all that f depends on.                   *)
LEMMA DependsOnEarlier ==
  ASSUME Inv, NEW k \in 1..built, NEW g, DependsOn(order[k], g)
  PROVE  \E j \in 1..(k - 1) : order[j] = g
<1> DEFINE S == {order[j] : j \in 1..(k - 1)}
<1>1. built \in Nat /\ Len(order) \in Nat /\ built <= Len(order) /\ k \in 1..Len(order)
  BY LenProperties DEF Inv, TypeOK
<1>2. \A j \in 1..(k - 1) : j \in 1..Len(order) /\ \A i \in 1..(j - 1) : i \in 1..(k - 1)
  BY <1>1
<1>3. S \in SUBSET Fixture
  BY <1>2, NeededFixtures DEF Inv, SortInv, Topological
<1>4. deps[order[k]] \subseteq S
  BY <1>1 DEF Inv, SortInv, Topological
<1>5. DepClosed(S)
  <2> SUFFICES ASSUME NEW j \in 1..(k - 1), NEW d \in deps[order[j]]
               PROVE  d \in S
    BY DEF DepClosed
  <2>1. \E i \in 1..(j - 1) : order[i] = d
    BY <1>2 DEF Inv, SortInv, Topological
  <2> QED BY <1>2, <2>1
<1>6. g \in S
  BY <1>3, <1>4, <1>5 DEF DependsOn
<1> QED BY <1>6

(* No teardown runs before those of the fixtures that use what it tears    *)
(* down.                                                                   *)
THEOREM DependenciesOutliveHolds == Spec => []DependenciesOutlive
<1>1. ASSUME Inv PROVE DependenciesOutlive
  <2> SUFFICES ASSUME NEW f \in Range(open), NEW g \in closed, DependsOn(f, g)
               PROVE  FALSE
    BY DEF DependenciesOutlive
  <2>1. PICK i \in 1..Len(open) : open[i] = f
    BY <1>1, LenProperties DEF Inv, TypeOK, Range
  <2>2. PICK k, l \in 1..built : k < l /\ order[k] = f /\ order[l] = g
    BY <1>1, <2>1 DEF Inv, StackInv, Before
  <2>3. PICK j \in 1..(k - 1) : order[j] = g
    BY <1>1, <2>2, DependsOnEarlier
  <2>4. built \in Nat /\ Len(order) \in Nat /\ built <= Len(order)
    BY <1>1, LenProperties DEF Inv, TypeOK
  <2>5. j \in 1..Len(order) /\ l \in 1..Len(order) /\ j # l
    BY <2>2, <2>4
  <2> QED BY <1>1, <2>2, <2>3, <2>5 DEF Inv, SortInv, EachOnce
<1> QED BY <1>1, Invariance, PTL

(* A result other than "error" is reported with every fixture that yielded *)
(* torn down; what an escaping teardown leaves open is an error or gives   *)
(* no result.                                                              *)
THEOREM VerdictMeansReleasedHolds == Spec => []VerdictMeansReleased
<1>1. Inv => VerdictMeansReleased
  <2> SUFFICES ASSUME Inv PROVE VerdictMeansReleased
    OBVIOUS
  <2>1. open = <<>> => yielded \subseteq closed
    BY EmptySeq DEF Inv, Accounted
  <2> QED BY <2>1 DEF Inv, PhaseInv, VerdictMeansReleased
<1> QED BY <1>1, Invariance, PTL

(* "passed" is reported only for a scenario with all its fixtures.         *)
THEOREM PassedMeansCompleteHolds == Spec => []PassedMeansComplete
<1>1. Inv => PassedMeansComplete
  BY DEF Inv, PhaseInv, AllPlaced, ValueOf, PassedMeansComplete
<1> QED BY <1>1, Invariance, PTL

-----------------------------------------------------------------------------
(* The scope.                                                              *)

(* The state of the scope in terms of the phase, now and next.             *)
LEMMA ScopeStates ==
  /\ phase \in {"sorting", "setup"} => ScopeState = "opening"
  /\ phase = "body" => ScopeState = "using"
  /\ phase \in {"unwinding", "teardown"} => ScopeState = "closing"
  /\ phase \in {"finished", "raised"} =>
       ScopeState = IF open = <<>> THEN "over" ELSE "torn"
  /\ phase' \in {"sorting", "setup"} => ScopeState' = "opening"
  /\ phase' = "body" => ScopeState' = "using"
  /\ phase' \in {"unwinding", "teardown"} => ScopeState' = "closing"
  /\ phase' \in {"finished", "raised"} =>
       ScopeState' = IF open' = <<>> THEN "over" ELSE "torn"
BY DEF ScopeState

(* What is available in the scope.                                         *)
Available == {order[i] : i \in 1..built}

LEMMA InitScope == Init => Scope!Init
<1> SUFFICES ASSUME Init PROVE Scope!Init
  OBVIOUS
<1>1. deps \in [Fixture -> SUBSET Fixture] /\ open = <<>> /\ phase = "sorting" /\ built = 0
  BY FixtureAssumption DEF Init
<1>2. Available = {}
  BY <1>1 DEF Available
<1>3. ScopeState = "opening"
  BY <1>1, ScopeStates
<1> QED BY <1>1, <1>2, <1>3 DEF Scope!Init, Available

(* Setting a fixture up opens it.                                          *)
LEMMA SetUpOpens ==
  ASSUME Inv, NEW f \in Fixture, SetUp(f), open' \in {open, Append(open, f)}
  PROVE  Scope!Open(f)
<1>1. /\ phase = "setup" /\ phase' = "setup" /\ built' = built + 1
      /\ UNCHANGED <<deps, order>> /\ f = order[built + 1] /\ built < Len(order)
  BY DEF SetUp, graph, sorting
<1>2. built \in Nat /\ Len(order) \in Nat /\ built + 1 \in 1..Len(order) /\ built + 1 - 1 = built
  BY <1>1, LenProperties DEF Inv, TypeOK
<1>3. \A i \in 1..built : i \in 1..Len(order) /\ i # built + 1
  BY <1>1, <1>2
<1>4. f \notin Available
  BY <1>1, <1>2, <1>3 DEF Available, Inv, SortInv, EachOnce
<1>5. deps[f] \subseteq Available
  <2> DEFINE n == built + 1
  <2>1. n \in 1..Len(order) /\ n - 1 = built /\ order[n] = f
    BY <1>1, <1>2
  <2> HIDE DEF n
  <2>2. \A d \in deps[order[n]] : \E j \in 1..(n - 1) : order[j] = d
    BY <2>1 DEF Inv, SortInv, Topological
  <2> QED BY <2>1, <2>2 DEF Available
<1>6. 1..(built + 1) = (1..built) \cup {built + 1}
  BY <1>2
<1>7. Available' = Available \cup {f}
  BY <1>1, <1>6 DEF Available
<1>8. ScopeState = "opening" /\ ScopeState' = "opening"
  BY <1>1, ScopeStates
<1> QED BY <1>1, <1>4, <1>5, <1>7, <1>8 DEF Scope!Open, Available

(* Every step of an execution is a step of its scope, or none.             *)
LEMMA NextScope == Inv /\ [Next]_vars => [Scope!Next]_(Scope!vars)
<1> SUFFICES ASSUME Inv, [Next]_vars PROVE [Scope!Next]_(Scope!vars)
  OBVIOUS
<1> USE DEF graph, sorting
<1>1. CASE Place
  <2>1. built = 0 /\ built' = 0 /\ UNCHANGED <<deps, open, phase>> /\ phase = "sorting"
    BY <1>1 DEF Place, Inv, PhaseInv
  <2>2. Available' = Available
    BY <2>1 DEF Available
  <2>3. ScopeState' = ScopeState
    BY <2>1, ScopeStates
  <2> QED BY <2>1, <2>2, <2>3 DEF Scope!vars, Available
<1>2. CASE StartSetup
  <2>1. phase = "sorting" /\ phase' = "setup" /\ UNCHANGED <<deps, open, order, built>>
    BY <1>2 DEF StartSetup
  <2> QED BY <2>1, ScopeStates DEF Scope!vars
<1>3. CASE RejectCycle
  <2>1. /\ phase = "sorting" /\ phase' = "raised" /\ UNCHANGED <<deps, open, order, built>>
        /\ built = 0 /\ open = <<>>
    BY <1>3 DEF RejectCycle, Inv, PhaseInv
  <2>2. ScopeState = "opening" /\ ScopeState' = "over"
    BY <2>1, ScopeStates
  <2>3. Available = {} /\ Available' = Available
    BY <2>1 DEF Available
  <2>4. Scope!Reject
    BY <2>1, <2>2, <2>3 DEF Scope!Reject, Available
  <2> QED BY <2>4 DEF Scope!Next
<1>4. ASSUME NEW f \in Fixture, SetUpYields(f) \/ SetUpReturns(f) PROVE [Scope!Next]_(Scope!vars)
  <2>1. Scope!Open(f)
    BY <1>4, SetUpOpens DEF SetUpYields, SetUpReturns
  <2> QED BY <2>1 DEF Scope!Next
<1>5. ASSUME NEW exc \in Exception, SetUpRaises(exc) PROVE [Scope!Next]_(Scope!vars)
  <2>1. phase = "setup" /\ phase' = "unwinding" /\ UNCHANGED <<deps, open, order, built>>
    BY <1>5 DEF SetUpRaises
  <2>2. Scope!StartClosing
    BY <2>1, ScopeStates DEF Scope!StartClosing
  <2> QED BY <2>2 DEF Scope!Next
<1>6. CASE StartBody
  <2>1. phase = "setup" /\ phase' = "body" /\ UNCHANGED <<deps, open, order, built>>
    BY <1>6 DEF StartBody
  <2>2. Scope!Use
    BY <2>1, ScopeStates DEF Scope!Use
  <2> QED BY <2>2 DEF Scope!Next
<1>7. ASSUME phase = "body", phase' = "teardown", UNCHANGED <<deps, open, order, built>>
      PROVE  [Scope!Next]_(Scope!vars)
  <2>1. Scope!StartClosing
    BY <1>7, ScopeStates DEF Scope!StartClosing
  <2> QED BY <2>1 DEF Scope!Next
<1>8. CASE TearDown
  <2>1. /\ phase \in {"unwinding", "teardown"} /\ phase' = phase /\ open # <<>>
        /\ open' = Front(open) /\ UNCHANGED <<deps, order, built>>
    BY <1>8 DEF TearDown, Unwinding
  <2>2. Scope!Close
    BY <2>1, ScopeStates DEF Scope!Close, Front
  <2> QED BY <2>2 DEF Scope!Next
<1>9. CASE TearDownEscapes
  <2>1. /\ phase \in {"unwinding", "teardown"} /\ phase' \in {"finished", "raised"} /\ open # <<>>
        /\ open' = Front(open) /\ UNCHANGED <<deps, order, built>>
    BY <1>9 DEF TearDownEscapes, Unwinding
  <2>2. Scope!Tear
    BY <2>1, ScopeStates DEF Scope!Tear, Front
  <2> QED BY <2>2 DEF Scope!Next
<1>10. CASE Report \/ ReportSetupFailure
  <2>1. /\ phase \in {"unwinding", "teardown"} /\ phase' \in {"finished", "raised"} /\ open = <<>>
        /\ UNCHANGED <<deps, open, order, built>>
    BY <1>10 DEF Report, ReportSetupFailure
  <2>2. Scope!Finish
    BY <2>1, ScopeStates DEF Scope!Finish
  <2> QED BY <2>2 DEF Scope!Next
<1>11. CASE UNCHANGED vars
  BY <1>11 DEF vars, Scope!vars, ScopeState
<1> QED BY <1>1, <1>2, <1>3, <1>4, <1>5, <1>6, <1>7, <1>8, <1>9, <1>10, <1>11
    DEF Next, LibraryStep, FixtureStep, BodyReturns, BodyRaises, BodyTimesOut, Rest

(* An execution implements the resource scope, whatever the fixtures are.  *)
THEOREM ImplementsScopeHolds == Spec => ImplementsScope
<1>1. Inv /\ [Next]_vars => [Scope!Next]_(Scope!vars)
  BY NextScope
<1> QED BY <1>1, InitScope, Invariance, PTL DEF Spec, Scope!Spec, ImplementsScope

=============================================================================
