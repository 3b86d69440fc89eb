--------------------------- MODULE ListMatchProofs ---------------------------
(***************************************************************************)
(* What the list matchers decide, for lists of any length and every table  *)
(* of answers: a match has an assignment behind it, a mismatch has none    *)
(* that every comparison would accept.  Each algorithm has an invariant of *)
(* its own, which says what it has excluded so far.                        *)
(***************************************************************************)
EXTENDS ListMatch, FiniteSetTheorems, InductionLemmas, TLAPS

Placed(a, pairs) == \A i \in Element : <<i, a[i]>> \in pairs

(* What has been given away was accepted.                                  *)
ChosenFits == \A i \in 1..(e - 1) : <<i, chosen[i]>> \in Possible

ExactInv ==
  algorithm = "exact" =>
    /\ matcher.kind = "list" /\ matcher.ordered /\ n = m
    /\ ~failed => \A i \in 1..(e - 1) : <<i, i>> \in Possible
    /\ failed => \E i \in Element : <<i, i>> \notin Certain

EachInv ==
  algorithm = "each" =>
    /\ matcher.kind = "list_of" /\ n = 1
    /\ ~failed => \A k \in 1..(j - 1) : <<1, k>> \in Possible
    /\ failed => \E k \in Item : <<1, k>> \notin Certain

(* Every pattern has been compared with every item before.                 *)
AnyInv ==
  algorithm = "any" =>
    /\ matcher.kind = "forbidden" /\ n > 0 /\ e <= n
    /\ matcher.ordered => n = 1
    /\ \A i \in Element, k \in Item :
         k < j \/ (k = j /\ i < e) => <<i, k>> \notin Certain

(* No assignment in order can place the next element before item j.        *)
GreedyInv ==
  algorithm = "greedy" =>
    /\ matcher.kind \in {"list", "forbidden"}
    /\ matcher.ordered /\ matcher.extras
    /\ matcher.kind = "forbidden" => n > 0
    /\ Len(chosen) = e - 1 /\ Increasing(chosen) /\ ChosenFits
    /\ \A i \in DOMAIN chosen : chosen[i] < j
    /\ e <= n =>
         \A a \in [Element -> Item] :
           Increasing(a) /\ Placed(a, Certain) => a[e] >= j

PermutationsInv ==
  algorithm = "permutations" =>
    /\ matcher.kind = "list" /\ ~matcher.ordered /\ n = m /\ n > 0
    /\ chosen \in Perms /\ ChosenFits
    /\ \A a \in Perms : Placed(a, Certain) => a = chosen \/ a \in left

(* Assignment a comes before the point the search has reached.             *)
Behind(a) ==
  \/ \E k \in DOMAIN chosen :
       a[k] < chosen[k] /\ \A i \in 1..(k - 1) : a[i] = chosen[i]
  \/ /\ e <= n
     /\ a[e] < j
     /\ \A i \in DOMAIN chosen : a[i] = chosen[i]

SearchInv ==
  algorithm = "search" =>
    /\ matcher.kind = "list" /\ ~matcher.ordered /\ n > 0
    /\ ~matcher.extras => n = m
    /\ Len(chosen) = e - 1 /\ Injective(chosen) /\ ChosenFits
    /\ \A a \in [Element -> Item] :
         Injective(a) /\ Placed(a, Certain) => ~Behind(a)

StartInv ==
  algorithm = "none" => e = 1 /\ j = 1 /\ chosen = <<>> /\ ~failed

(* What the steps of a check have established.                             *)
Established ==
  /\ TypeOK
  /\ StartInv
  /\ ExactInv
  /\ EachInv
  /\ AnyInv
  /\ GreedyInv
  /\ PermutationsInv
  /\ SearchInv

IInv ==
  /\ Established
  /\ MatchIsPossible
  /\ MismatchIsPossible

-----------------------------------------------------------------------------
(* Neither the matcher nor the answers change: what is asked stays.        *)
LEMMA GivenKept ==
  ASSUME UNCHANGED given
  PROVE  /\ matcher' = matcher /\ n' = n /\ m' = m /\ fits' = fits
         /\ Element' = Element /\ Item' = Item /\ Perms' = Perms
         /\ Possible' = Possible /\ Certain' = Certain
BY DEF given, Element, Item, Perms, Possible, Certain

(* A comparison that succeeds is possible, one that fails is not certain.  *)
LEMMA AnswersTell ==
  ASSUME NEW i \in Element, NEW k \in Item,
         fits \in [Element \X Item -> Behaviour],
         NEW ok \in Answers(i, k)
  PROVE  /\ ok \in BOOLEAN
         /\ ok => <<i, k>> \in Possible
         /\ ~ok => <<i, k>> \notin Certain
BY DEF Answers, Behaviour, Possible, Certain

(* No injective assignment fits into fewer items than elements.            *)
LEMMA TooFewItems ==
  ASSUME NEW a \in [Element -> Item], n \in Nat, m \in Nat, m < n
  PROVE  ~Injective(a)
<1>1. IsFiniteSet(Element) /\ Cardinality(Element) = n
  BY FS_Interval DEF Element
<1>2. IsFiniteSet(Item) /\ Cardinality(Item) = m
  BY FS_Interval DEF Item
<1>3. \E i, k \in Element : i # k /\ a[i] = a[k]
  BY <1>1, <1>2, FS_PigeonHole
<1>. QED
  BY <1>3 DEF Injective

(* Increasing assignments are injective.                                   *)
LEMMA IncreasingInjective ==
  ASSUME NEW a \in [Element -> Item], Increasing(a), n \in Nat, m \in Nat
  PROVE  Injective(a)
BY DEF Increasing, Injective, Element, Item

(* Among as many items as elements, the order leaves one assignment.       *)
LEMMA IncreasingIsIdentity ==
  ASSUME NEW a \in [Element -> Item], Increasing(a), n = m, n \in Nat
  PROVE  \A i \in Element : a[i] = i
<1>1. \A i \in Element : a[i] \in 1..n
  BY DEF Item
<1>2. \A i \in Element : i # n => i + 1 \in Element /\ a[i] < a[i + 1]
  BY DEF Increasing, Element
<1>3. \A i \in Element : a[i] >= i
  <2>. DEFINE T == {i \in Element : a[i] < i}
  <2>1. SUFFICES ASSUME T # {} PROVE FALSE
    BY <1>1 DEF Element
  <2>2. PICK x \in T : \A y \in T : ~(y < x)
    <3>1. T \subseteq Nat /\ T # {}
      BY <2>1 DEF Element
    <3>. HIDE DEF T
    <3>. QED
      BY <3>1, LeastNat
  <2>3. x # 1 /\ x - 1 \in Element
    BY <1>1, <2>2 DEF Element
  <2>4. a[x - 1] >= x - 1
    BY <1>1, <2>2, <2>3 DEF Element
  <2>5. a[x - 1] < a[x]
    BY <1>2, <2>3 DEF Element
  <2>. QED
    BY <1>1, <2>3, <2>4, <2>5 DEF Element
<1>4. \A i \in Element : a[i] <= i
  <2>. DEFINE T == {k \in 0..n : n - k \in Element /\ a[n - k] > n - k}
  <2>1. SUFFICES ASSUME T # {} PROVE FALSE
    <3>1. SUFFICES ASSUME NEW i \in Element, ~(a[i] <= i), T = {} PROVE FALSE
      OBVIOUS
    <3>2. a[i] > i /\ n - i \in 0..n /\ n - (n - i) = i
      BY <1>1, <3>1 DEF Element
    <3>3. n - i \in T
      BY <3>1, <3>2
    <3>. QED
      BY <3>1, <3>3
  <2>2. PICK x \in T : \A y \in T : ~(y < x)
    <3>1. T \subseteq Nat /\ T # {}
      BY <2>1
    <3>. HIDE DEF T
    <3>. QED
      BY <3>1, LeastNat
  <2>3. x # 0 /\ n - (x - 1) \in Element
    BY <1>1, <2>2 DEF Element
  <2>4. a[n - (x - 1)] <= n - (x - 1)
    <3>1. x - 1 \in 0..n /\ x - 1 < x /\ a[n - (x - 1)] \in 1..n
      BY <1>1, <2>2, <2>3
    <3>2. ~(a[n - (x - 1)] > n - (x - 1))
      BY <2>2, <2>3, <3>1
    <3>. QED
      BY <3>1, <3>2
  <2>5. a[n - x] < a[n - (x - 1)]
    BY <2>2, <2>3 DEF Element, Increasing
  <2>. QED
    BY <1>1, <2>2, <2>3, <2>4, <2>5 DEF Element
<1>. QED
  BY <1>1, <1>3, <1>4 DEF Element

(* Until the verdict, what has been established about the search stays.    *)
LEMMA DecideKeeps ==
  ASSUME Established, NEW v \in {"match", "mismatch", "raised"}, Decide(v)
  PROVE  Established' /\ verdict' = v
<1>1. UNCHANGED <<given, algorithm, e, j, chosen, left, failed>> /\ verdict' = v
  BY DEF Decide
<1>2. TypeOK'
  BY <1>1 DEF Established, TypeOK, given, Element, Item, Perms
<1>3. StartInv' /\ ExactInv' /\ EachInv' /\ AnyInv'
  BY <1>1, GivenKept DEF Established, StartInv, ExactInv, EachInv, AnyInv
<1>4. GreedyInv' /\ PermutationsInv'
  BY <1>1, GivenKept DEF Established, GreedyInv, PermutationsInv, ChosenFits, Placed
<1>5. SearchInv'
  BY <1>1, GivenKept DEF Established, SearchInv, ChosenFits, Placed, Behind
<1>. QED
  BY <1>1, <1>2, <1>3, <1>4, <1>5 DEF Established

LEMMA InitEstablishes == Init => IInv
<1> SUFFICES ASSUME Init PROVE IInv
  OBVIOUS
<1>1. TypeOK
  <2>1. \E s \in Sizes : n = s[1] /\ m = s[2]
    BY DEF Init
  <2>2. <<n, m>> \in Sizes /\ n \in Nat /\ m \in Nat
    BY <2>1, MatchAssumption
  <2>3. fits \in [Element \X Item -> Behaviour]
    BY <2>2, MatchAssumption DEF Init
  <2>4. /\ chosen \in Seq(Item) /\ Len(chosen) <= n
        /\ e \in 1..(n + 1) /\ j \in 1..(m + 1)
    BY <2>2 DEF Init
  <2>5. left \subseteq Perms
    BY DEF Init
  <2>. QED
    BY <2>2, <2>3, <2>4 DEF Init, TypeOK
<1>. QED
  BY <1>1 DEF Init, IInv, Established, StartInv, ExactInv, EachInv, AnyInv, GreedyInv,
     PermutationsInv, SearchInv, MatchIsPossible, MismatchIsPossible

-----------------------------------------------------------------------------
(* The choice of an algorithm: nothing has been excluded yet.              *)
LEMMA ChooseKeeps ==
  ASSUME IInv, algorithm = "none", verdict = "none",
         NEW name \in {"exact", "each", "any", "greedy", "search"}, Choose(name),
         name = "exact" => matcher.kind = "list" /\ matcher.ordered /\ n = m,
         name = "each" => matcher.kind = "list_of",
         name = "any" => matcher.kind = "forbidden" /\ n > 0 /\ (matcher.ordered => n = 1),
         name = "greedy" => /\ matcher.kind \in {"list", "forbidden"}
                            /\ matcher.ordered /\ matcher.extras
                            /\ matcher.kind = "forbidden" => n > 0,
         name = "search" => /\ matcher.kind = "list" /\ ~matcher.ordered /\ n > 0
                            /\ ~matcher.extras => n = m
  PROVE  IInv'
<1>. USE DEF IInv, Established
<1>1. /\ UNCHANGED <<given, e, j, chosen, left, failed, verdict>>
      /\ algorithm' = name
  BY DEF Choose
<1>2. n \in Nat /\ m \in Nat
  BY MatchAssumption DEF TypeOK
<1>. e = 1 /\ j = 1 /\ chosen = <<>> /\ ~failed
  BY DEF StartInv
<1>3. TypeOK' /\ StartInv'
  BY <1>1, GivenKept DEF TypeOK, StartInv
<1>4. ExactInv' /\ EachInv'
  BY <1>1, GivenKept DEF ExactInv, EachInv, TypeOK
<1>5. AnyInv'
  BY <1>1, <1>2, GivenKept DEF AnyInv, Element, Item
<1>6. GreedyInv'
  BY <1>1, <1>2, GivenKept DEF GreedyInv, ChosenFits, Increasing, Placed, Element, Item
<1>7. PermutationsInv'
  BY <1>1 DEF PermutationsInv
<1>8. SearchInv'
  BY <1>1, <1>2, GivenKept
     DEF SearchInv, ChosenFits, Injective, Placed, Behind, Element, Item
<1>. QED
  BY <1>1, <1>3, <1>4, <1>5, <1>6, <1>7, <1>8 DEF MatchIsPossible, MismatchIsPossible

LEMMA ChoosePermutationsKeeps ==
  ASSUME IInv, algorithm = "none", verdict = "none",
         matcher.kind = "list", ~matcher.ordered, n = m, n > 0, ChoosePermutations
  PROVE  IInv'
<1>. USE DEF IInv, Established
<1>1. /\ UNCHANGED <<given, e, j, failed, verdict>>
      /\ algorithm' = "permutations"
  BY DEF ChoosePermutations
<1>2. PICK p \in Perms : chosen' = p /\ left' = Perms \ {p}
  BY DEF ChoosePermutations
<1>3. n \in Nat /\ m \in Nat
  BY MatchAssumption DEF TypeOK
<1>4. p \in [1..n -> Item]
  BY DEF Perms, Element, Item
<1>5. p \in Seq(Item) /\ Len(p) = n
  BY <1>3, <1>4
<1>6. TypeOK'
  BY <1>1, <1>2, <1>3, <1>5, GivenKept DEF TypeOK
<1>7. PermutationsInv'
  BY <1>1, <1>2, <1>3, GivenKept DEF PermutationsInv, ChosenFits, Placed, StartInv
<1>. QED
  BY <1>1, <1>6, <1>7 DEF StartInv, ExactInv, EachInv, AnyInv, GreedyInv, SearchInv,
     MatchIsPossible, MismatchIsPossible

(* Nothing is expected: the empty assignment is the one.                   *)
LEMMA NothingExpected ==
  ASSUME n = 0, m \in Nat, matcher.extras \/ n = m, NEW pairs
  PROVE  PlacedIn(pairs)
<1>. DEFINE a == [i \in Element |-> i]
<1>1. a \in [Element -> Item] /\ Element = {}
  BY DEF Element
<1>2. a \in Placement
  BY <1>1 DEF Placement, Increasing, Injective
<1>. QED
  BY <1>1, <1>2 DEF PlacedIn

LEMMA CheckListKeeps ==
  ASSUME IInv, CheckList PROVE IInv'
<1>. USE DEF IInv
<1>1. /\ algorithm = "none" /\ verdict = "none" /\ matcher.kind = "list"
      /\ TypeOK /\ Established
      /\ matcher.ordered \in BOOLEAN /\ matcher.extras \in BOOLEAN
  BY DEF CheckList, Established, TypeOK, Matcher
<1>2. n \in Nat /\ m \in Nat
  BY <1>1, MatchAssumption DEF TypeOK
<1>3. ASSUME Decide("mismatch"), n # m \/ m < n, ~matcher.extras \/ m < n,
             ~matcher.ordered \/ ~matcher.extras
      PROVE  IInv'
  <2>1. Established' /\ verdict' = "mismatch" /\ UNCHANGED given
    BY <1>1, <1>3, DecideKeeps DEF Decide
  <2>2. ~PlacedIn(Certain)
    BY <1>2, <1>3, TooFewItems DEF PlacedIn, Placement
  <2>3. ~PlacedIn(Certain)'
    BY <2>1, <2>2, GivenKept DEF PlacedIn, Placement
  <2>. QED
    BY <1>1, <2>1, <2>3, GivenKept DEF MatchIsPossible, MismatchIsPossible
<1>4. ASSUME Decide("match"), n = 0, matcher.extras \/ n = m PROVE IInv'
  <2>1. Established' /\ verdict' = "match" /\ UNCHANGED given
    BY <1>1, <1>4, DecideKeeps DEF Decide
  <2>2. PlacedIn(Possible)
    BY <1>2, <1>4, NothingExpected
  <2>3. PlacedIn(Possible)'
    BY <2>1, <2>2, GivenKept DEF PlacedIn, Placement
  <2>. QED
    BY <1>1, <2>1, <2>3, GivenKept DEF MatchIsPossible, MismatchIsPossible
<1>5. CASE matcher.ordered /\ ~matcher.extras
  <2>1. CASE n # m
    BY <1>1, <1>3, <1>5, <2>1 DEF CheckList
  <2>2. CASE n = m
    BY <1>1, <1>5, <2>2, ChooseKeeps DEF CheckList
  <2>. QED
    BY <2>1, <2>2
<1>6. CASE matcher.ordered /\ matcher.extras
  BY <1>1, <1>6, ChooseKeeps DEF CheckList
<1>7. CASE ~matcher.ordered /\ ~matcher.extras
  <2>1. CASE n # m
    BY <1>1, <1>3, <1>7, <2>1 DEF CheckList
  <2>2. CASE n = m /\ n = 0
    BY <1>1, <1>4, <1>7, <2>2 DEF CheckList
  <2>3. CASE n = m /\ n # 0 /\ n > MaxPerm
    BY <1>1, <1>2, <1>7, <2>3, ChooseKeeps DEF CheckList
  <2>4. CASE n = m /\ n # 0 /\ ~(n > MaxPerm)
    BY <1>1, <1>2, <1>7, <2>4, ChoosePermutationsKeeps DEF CheckList
  <2>. QED
    BY <2>1, <2>2, <2>3, <2>4
<1>8. CASE ~matcher.ordered /\ matcher.extras
  <2>1. CASE m < n
    BY <1>1, <1>3, <1>8, <2>1 DEF CheckList
  <2>2. CASE ~(m < n) /\ n = 0
    BY <1>1, <1>4, <1>8, <2>2 DEF CheckList
  <2>3. CASE ~(m < n) /\ n # 0
    BY <1>1, <1>2, <1>8, <2>3, ChooseKeeps DEF CheckList
  <2>. QED
    BY <2>1, <2>2, <2>3
<1>. QED
  BY <1>1, <1>5, <1>6, <1>7, <1>8

LEMMA CheckListOfKeeps ==
  ASSUME IInv, CheckListOf PROVE IInv'
BY ChooseKeeps DEF CheckListOf

LEMMA CheckForbiddenKeeps ==
  ASSUME IInv, CheckForbidden PROVE IInv'
<1>1. /\ algorithm = "none" /\ verdict = "none" /\ matcher.kind = "forbidden"
      /\ matcher.extras = TRUE /\ matcher.ordered \in BOOLEAN /\ Established
  BY DEF IInv, CheckForbidden, Established, TypeOK, Matcher
<1>2. n \in Nat /\ m \in Nat
  BY <1>1, MatchAssumption DEF Established, TypeOK
<1>3. CASE n = 0
  <2>1. Established' /\ verdict' = "match" /\ UNCHANGED given
    BY <1>1, <1>3, DecideKeeps DEF CheckForbidden, Decide
  <2>2. ~FoundIn(Certain)'
    BY <1>1, <1>3, <2>1, GivenKept DEF FoundIn, Certain, Element
  <2>. QED
    BY <1>1, <2>1, <2>2, GivenKept DEF IInv, MatchIsPossible, MismatchIsPossible
<1>4. CASE n # 0 /\ (n = 1 \/ ~matcher.ordered)
  BY <1>1, <1>2, <1>4, ChooseKeeps DEF CheckForbidden
<1>5. CASE n # 0 /\ ~(n = 1 \/ ~matcher.ordered)
  BY <1>1, <1>2, <1>5, ChooseKeeps DEF CheckForbidden
<1>. QED
  BY <1>3, <1>4, <1>5

-----------------------------------------------------------------------------
(* One comparison leaves what it does not touch: the invariants of the     *)
(* other algorithms say nothing, and there is no verdict yet.              *)
LEMMA OneAlgorithm ==
  ASSUME algorithm' # "none", verdict' = "none", TypeOK',
         algorithm' = "exact" => ExactInv',
         algorithm' = "each" => EachInv',
         algorithm' = "any" => AnyInv',
         algorithm' = "greedy" => GreedyInv',
         algorithm' = "permutations" => PermutationsInv',
         algorithm' = "search" => SearchInv'
  PROVE  IInv'
BY DEF IInv, Established, StartInv, ExactInv, EachInv, AnyInv, GreedyInv,
   PermutationsInv, SearchInv, MatchIsPossible, MismatchIsPossible

LEMMA ExactKeeps ==
  ASSUME IInv, ExactCompare PROVE IInv'
<1>. USE DEF IInv, Established
<1>1. PICK ok \in Answers(e, e) : failed' = (failed \/ ~ok)
  BY DEF ExactCompare
<1>2. /\ algorithm = "exact" /\ algorithm' = "exact" /\ verdict' = "none"
      /\ e <= n /\ e' = e + 1
      /\ UNCHANGED <<given, j, chosen, left>>
  BY DEF ExactCompare, At
<1>3. n \in Nat /\ m \in Nat /\ n = m /\ e \in Element /\ e \in Item
  BY <1>2, MatchAssumption DEF TypeOK, ExactInv, Element, Item
<1>4. /\ ok \in BOOLEAN
      /\ ok => <<e, e>> \in Possible
      /\ ~ok => <<e, e>> \notin Certain
  BY <1>3, AnswersTell DEF TypeOK
<1>5. TypeOK'
  BY <1>1, <1>2, <1>3, <1>4, GivenKept DEF TypeOK
<1>6. ExactInv'
  <2>1. ASSUME ~failed' PROVE \A i \in 1..(e' - 1) : <<i, i>> \in Possible
    <3>1. ~failed /\ ok
      BY <1>1, <1>4, <2>1 DEF TypeOK
    <3>2. \A i \in 1..(e - 1) : <<i, i>> \in Possible
      BY <3>1, <1>2 DEF ExactInv
    <3>3. \A i \in 1..(e' - 1) : i \in 1..(e - 1) \/ i = e
      BY <1>2, <1>3 DEF Element
    <3>. QED
      BY <3>1, <3>2, <3>3, <1>4
  <2>2. ASSUME failed' PROVE \E i \in Element : <<i, i>> \notin Certain
    BY <2>2, <1>1, <1>2, <1>3, <1>4 DEF ExactInv
  <2>. QED
    BY <2>1, <2>2, <1>2, GivenKept DEF ExactInv
<1>. QED
  BY <1>2, <1>5, <1>6, OneAlgorithm

LEMMA EachKeeps ==
  ASSUME IInv, EachCompare PROVE IInv'
<1>. USE DEF IInv, Established
<1>1. PICK ok \in Answers(1, j) : failed' = (failed \/ ~ok)
  BY DEF EachCompare
<1>2. /\ algorithm = "each" /\ algorithm' = "each" /\ verdict' = "none"
      /\ j <= m /\ j' = j + 1
      /\ UNCHANGED <<given, e, chosen, left>>
  BY DEF EachCompare, At
<1>3. n \in Nat /\ m \in Nat /\ 1 \in Element /\ j \in Item
  BY <1>2, MatchAssumption DEF TypeOK, EachInv, Element, Item
<1>4. /\ ok \in BOOLEAN
      /\ ok => <<1, j>> \in Possible
      /\ ~ok => <<1, j>> \notin Certain
  BY <1>3, AnswersTell DEF TypeOK
<1>5. TypeOK'
  BY <1>1, <1>2, <1>3, <1>4, GivenKept DEF TypeOK
<1>6. EachInv'
  <2>1. ASSUME ~failed' PROVE \A k \in 1..(j' - 1) : <<1, k>> \in Possible
    <3>1. ~failed /\ ok
      BY <1>1, <1>4, <2>1 DEF TypeOK
    <3>2. \A k \in 1..(j - 1) : <<1, k>> \in Possible
      BY <3>1, <1>2 DEF EachInv
    <3>3. \A k \in 1..(j' - 1) : k \in 1..(j - 1) \/ k = j
      BY <1>2, <1>3 DEF Item
    <3>. QED
      BY <3>1, <3>2, <3>3, <1>4
  <2>2. ASSUME failed' PROVE \E k \in Item : <<1, k>> \notin Certain
    BY <2>2, <1>1, <1>2, <1>3, <1>4 DEF EachInv
  <2>. QED
    BY <2>1, <2>2, <1>2, GivenKept DEF EachInv
<1>. QED
  BY <1>2, <1>5, <1>6, OneAlgorithm

(* A hit is possible, and one of what is forbidden; else one pair more is  *)
(* not certain.                                                            *)
LEMMA AnyKeeps ==
  ASSUME IInv, AnyCompare PROVE IInv'
<1>. USE DEF IInv, Established
<1>1. /\ algorithm = "any" /\ algorithm' = "any" /\ verdict = "none" /\ j <= m
      /\ UNCHANGED <<given, chosen, left, failed>>
  BY DEF AnyCompare, At
<1>2. n \in Nat /\ m \in Nat /\ e \in Element /\ j \in Item
  BY <1>1, MatchAssumption DEF TypeOK, AnyInv, Element, Item
<1>3. PICK ok \in Answers(e, j) :
        IF ok THEN verdict' = "mismatch" /\ UNCHANGED <<e, j>>
        ELSE /\ IF e < n THEN e' = e + 1 /\ UNCHANGED j
                          ELSE e' = 1 /\ j' = j + 1
             /\ UNCHANGED verdict
  BY DEF AnyCompare
<1>4. /\ ok \in BOOLEAN
      /\ ok => <<e, j>> \in Possible
      /\ ~ok => <<e, j>> \notin Certain
  BY <1>2, AnswersTell DEF TypeOK
<1>5. CASE ok
  <2>1. Decide("mismatch")
    BY <1>1, <1>3, <1>5 DEF Decide
  <2>2. Established' /\ verdict' = "mismatch"
    BY <2>1, DecideKeeps
  <2>3. FoundIn(Possible)
    <3>1. CASE ~matcher.ordered
      BY <3>1, <1>4, <1>5 DEF FoundIn
    <3>2. CASE matcher.ordered
      <4>. DEFINE a == [i \in Element |-> j]
      <4>1. n = 1 /\ e = 1 /\ Element = {1}
        BY <3>2, <1>1, <1>2 DEF AnyInv, Element
      <4>2. matcher.extras = TRUE
        BY <1>1 DEF TypeOK, Matcher, AnyInv
      <4>3. a \in [Element -> Item] /\ Increasing(a)
        BY <4>1, <1>2 DEF Increasing
      <4>4. a \in Placement
        BY <4>2, <4>3, <3>2 DEF Placement
      <4>5. \A i \in Element : <<i, a[i]>> \in Possible
        BY <4>1, <1>4, <1>5
      <4>. QED
        BY <4>1, <4>4, <4>5, <3>2 DEF FoundIn, PlacedIn
    <3>. QED
      BY <3>1, <3>2
  <2>4. FoundIn(Possible)'
    BY <2>3, <1>1, GivenKept DEF FoundIn, PlacedIn, Placement
  <2>. QED
    BY <1>1, <2>2, <2>4, GivenKept DEF MatchIsPossible, MismatchIsPossible, AnyInv
<1>6. CASE ~ok
  <2>1. /\ verdict' = "none"
        /\ \/ e < n /\ e' = e + 1 /\ j' = j
           \/ e = n /\ e' = 1 /\ j' = j + 1
    BY <1>1, <1>2, <1>3, <1>6 DEF Element
  <2>2. TypeOK'
    BY <1>1, <1>2, <2>1, GivenKept DEF TypeOK, Element, Item
  <2>3. AnyInv'
    <3>1. \A i \in Element, k \in Item :
            k < j' \/ (k = j' /\ i < e') => <<i, k>> \notin Certain
      BY <1>1, <1>2, <1>4, <1>6, <2>1 DEF AnyInv, Element, Item
    <3>. QED
      BY <3>1, <1>1, <1>2, <2>1, GivenKept DEF AnyInv, Element
  <2>. QED
    BY <1>1, <2>1, <2>2, <2>3, OneAlgorithm
<1>. QED
  BY <1>4, <1>5, <1>6

(* If the item is taken, the next element comes after it in every          *)
(* assignment; if it is refused, no assignment gives it to this element.   *)
LEMMA GreedyKeeps ==
  ASSUME IInv, GreedyCompare PROVE IInv'
<1>. USE DEF IInv, Established
<1>1. /\ algorithm = "greedy" /\ algorithm' = "greedy" /\ verdict' = "none"
      /\ e <= n /\ j <= m /\ j' = j + 1
      /\ UNCHANGED <<given, left, failed>>
  BY DEF GreedyCompare, At
<1>2. n \in Nat /\ m \in Nat /\ e \in Element /\ j \in Item
  BY <1>1, MatchAssumption DEF TypeOK, Element, Item
<1>3. PICK ok \in Answers(e, j) :
        IF ok THEN e' = e + 1 /\ chosen' = Append(chosen, j)
        ELSE UNCHANGED <<e, chosen>>
  BY DEF GreedyCompare
<1>4. /\ ok \in BOOLEAN
      /\ ok => <<e, j>> \in Possible
      /\ ~ok => <<e, j>> \notin Certain
  BY <1>2, AnswersTell DEF TypeOK
<1>5. /\ chosen \in Seq(Item) /\ Len(chosen) = e - 1
      /\ Increasing(chosen) /\ ChosenFits
      /\ \A i \in DOMAIN chosen : chosen[i] < j
  BY <1>1 DEF TypeOK, GreedyInv
<1>6. ASSUME NEW a \in [Element -> Item], Increasing(a), Placed(a, Certain)
      PROVE  a[e] >= j /\ a[e] \in Item /\ <<e, a[e]>> \in Certain
  BY <1>1, <1>2, <1>6 DEF GreedyInv, Placed
<1>7. CASE ok
  <2>1. /\ e' = e + 1 /\ chosen' \in Seq(Item) /\ Len(chosen') = e' - 1
        /\ DOMAIN chosen' = 1..e
        /\ \A i \in 1..(e - 1) : chosen'[i] = chosen[i]
        /\ chosen'[e] = j
    BY <1>2, <1>3, <1>5, <1>7 DEF Element
  <2>2. TypeOK'
    BY <1>1, <1>2, <2>1, GivenKept DEF TypeOK, Element, Item
  <2>3. DOMAIN chosen = 1..(e - 1) /\ 1..e = 1..(e - 1) \cup {e}
    BY <1>2, <1>5 DEF Element
  <2>4. Increasing(chosen')
    BY <1>2, <1>5, <2>1, <2>3 DEF Increasing, Element
  <2>5. \A i \in 1..e : <<i, chosen'[i]>> \in Possible
    BY <1>4, <1>5, <1>7, <2>1, <2>3 DEF ChosenFits
  <2>6. \A i \in DOMAIN chosen' : chosen'[i] < j'
    <3>1. \A i \in 1..(e - 1) : chosen[i] < j /\ chosen[i] \in Item
      BY <1>5, <2>3
    <3>. QED
      BY <3>1, <1>1, <1>2, <2>1, <2>3 DEF Item
  <2>7. ASSUME e' <= n, NEW a \in [Element -> Item], Increasing(a), Placed(a, Certain)
        PROVE  a[e'] >= j'
    <3>1. e \in DOMAIN a /\ e' \in DOMAIN a /\ e < e' /\ a[e'] \in Item
      BY <1>2, <2>1, <2>7 DEF Element
    <3>2. a[e] < a[e']
      BY <3>1, <2>7 DEF Increasing
    <3>3. a[e] >= j /\ a[e] \in Item
      BY <1>6, <2>7
    <3>. QED
      BY <3>1, <3>2, <3>3, <1>1, <1>2 DEF Item
  <2>8. ChosenFits'
    <3>1. 1..(e' - 1) = 1..e
      BY <1>2, <2>1 DEF Element
    <3>. QED
      BY <1>1, <2>5, <3>1, GivenKept DEF ChosenFits
  <2>9. e' <= n => \A a \in [Element -> Item] :
          Increasing(a) /\ Placed(a, Certain) => a[e'] >= j'
    BY <2>7
  <2>10. (e <= n => \A a \in [Element -> Item] :
           Increasing(a) /\ Placed(a, Certain) => a[e] >= j)'
    BY <1>1, <2>9, GivenKept DEF Placed, Increasing
  <2>11. GreedyInv'
    BY <1>1, <2>1, <2>4, <2>6, <2>8, <2>10, GivenKept DEF GreedyInv
  <2>. QED
    BY <1>1, <2>2, <2>11, OneAlgorithm
<1>8. CASE ~ok
  <2>1. UNCHANGED <<e, chosen>>
    BY <1>3, <1>4, <1>8
  <2>2. TypeOK'
    BY <1>1, <1>2, <2>1, GivenKept DEF TypeOK, Item
  <2>3. \A i \in DOMAIN chosen : chosen[i] < j'
    BY <1>1, <1>2, <1>5 DEF Item
  <2>4. ASSUME NEW a \in [Element -> Item], Increasing(a), Placed(a, Certain)
        PROVE  a[e] >= j'
    <3>1. a[e] >= j /\ a[e] \in Item /\ a[e] # j
      BY <1>4, <1>6, <1>8, <2>4
    <3>. QED
      BY <3>1, <1>1, <1>2 DEF Item
  <2>5. GreedyInv'
    BY <1>1, <2>1, <2>3, <2>4, GivenKept DEF GreedyInv, ChosenFits, Placed
  <2>. QED
    BY <1>1, <2>2, <2>5, OneAlgorithm
<1>. QED
  BY <1>4, <1>7, <1>8

(* The permutation that fails is not the one; the next starts afresh.      *)
LEMMA PermutationKeeps ==
  ASSUME IInv, PermutationCompare PROVE IInv'
<1>. USE DEF IInv, Established
<1>1. /\ algorithm = "permutations" /\ algorithm' = "permutations"
      /\ verdict = "none" /\ e <= n
      /\ UNCHANGED <<given, j, failed>>
  BY DEF PermutationCompare, At
<1>2. /\ n \in Nat /\ m \in Nat /\ n = m /\ e \in Element /\ Item = Element
      /\ matcher.kind = "list" /\ ~matcher.ordered
      /\ chosen \in Perms /\ ChosenFits /\ left \subseteq Perms
      /\ \A a \in Perms : Placed(a, Certain) => a = chosen \/ a \in left
  BY <1>1, MatchAssumption DEF TypeOK, PermutationsInv, Element, Item
<1>3. chosen[e] \in Item
  BY <1>2 DEF Perms
<1>4. PICK ok \in Answers(e, chosen[e]) :
       IF ok THEN e' = e + 1 /\ UNCHANGED <<chosen, left, verdict>>
       ELSE IF left = {} THEN verdict' = "mismatch" /\ UNCHANGED <<e, chosen, left>>
       ELSE \E p \in left :
              /\ chosen' = p
              /\ left' = left \ {p}
              /\ e' = 1
              /\ UNCHANGED verdict
  BY DEF PermutationCompare
<1>5. /\ ok \in BOOLEAN
      /\ ok => <<e, chosen[e]>> \in Possible
      /\ ~ok => <<e, chosen[e]>> \notin Certain
  BY <1>2, <1>3, AnswersTell DEF TypeOK
<1>6. CASE ok
  <2>1. e' = e + 1 /\ UNCHANGED <<chosen, left, verdict>>
    BY <1>4, <1>6
  <2>2. TypeOK'
    BY <1>1, <1>2, <2>1, GivenKept DEF TypeOK, Element
  <2>3. \A i \in 1..(e' - 1) : i \in 1..(e - 1) \/ i = e
    BY <1>2, <2>1 DEF Element
  <2>4. ChosenFits'
    BY <1>1, <1>2, <1>5, <1>6, <2>1, <2>3, GivenKept DEF ChosenFits
  <2>5. PermutationsInv'
    BY <1>1, <1>2, <2>1, <2>4, GivenKept DEF PermutationsInv, Placed
  <2>. QED
    BY <1>1, <2>1, <2>2, <2>5, OneAlgorithm
<1>7. CASE ~ok
  <2>1. ~Placed(chosen, Certain)
    BY <1>2, <1>5, <1>7 DEF Placed
  <2>2. CASE left = {}
    <3>1. Decide("mismatch")
      BY <1>1, <1>4, <1>7, <2>2 DEF Decide
    <3>2. Established' /\ verdict' = "mismatch"
      BY <3>1, DecideKeeps
    <3>3. ~PlacedIn(Certain)
      BY <1>2, <2>1, <2>2 DEF PlacedIn, Placement, Perms, Placed
    <3>4. ~PlacedIn(Certain)'
      BY <3>3, <1>1, GivenKept DEF PlacedIn, Placement
    <3>. QED
      BY <1>1, <1>2, <3>2, <3>4, GivenKept DEF MatchIsPossible, MismatchIsPossible
  <2>3. CASE left # {}
    <3>1. PICK p \in left : chosen' = p /\ left' = left \ {p}
      BY <1>4, <1>7, <2>3
    <3>2. e' = 1 /\ verdict' = "none"
      BY <1>1, <1>4, <1>7, <2>3
    <3>3. p \in Perms /\ p \in [1..n -> Item]
      BY <1>2, <3>1 DEF Perms, Element
    <3>4. p \in Seq(Item) /\ Len(p) = n
      BY <1>2, <3>3
    <3>5. TypeOK'
      BY <1>1, <1>2, <3>1, <3>2, <3>4, GivenKept DEF TypeOK
    <3>6. PermutationsInv'
      BY <1>1, <1>2, <2>1, <3>1, <3>2, <3>3, GivenKept
         DEF PermutationsInv, ChosenFits, Placed
    <3>. QED
      BY <1>1, <3>2, <3>5, <3>6, OneAlgorithm
  <2>. QED
    BY <2>2, <2>3
<1>. QED
  BY <1>5, <1>6, <1>7

-----------------------------------------------------------------------------
(* What the search knows, unfolded.                                        *)
LEMMA SearchFacts ==
  ASSUME IInv, At("search")
  PROVE  /\ n \in Nat /\ m \in Nat /\ n > 0 /\ e \in 1..(n + 1) /\ j \in 1..(m + 1)
         /\ matcher.kind = "list" /\ ~matcher.ordered
         /\ ~matcher.extras => n = m
         /\ chosen \in Seq(Item) /\ DOMAIN chosen = 1..(e - 1) /\ Len(chosen) = e - 1
         /\ Injective(chosen) /\ ChosenFits
         /\ \A a \in [Element -> Item] :
              Injective(a) /\ Placed(a, Certain) => ~Behind(a)
<1>1. TypeOK /\ SearchInv /\ algorithm = "search"
  BY DEF IInv, Established, At
<1>2. n \in Nat /\ m \in Nat
  BY <1>1, MatchAssumption DEF TypeOK
<1>3. chosen \in Seq(Item) /\ Len(chosen) = e - 1 /\ DOMAIN chosen = 1..(e - 1)
  BY <1>1 DEF TypeOK, SearchInv
<1>. QED
  BY <1>1, <1>2, <1>3 DEF TypeOK, SearchInv

LEMMA SearchKeeps ==
  ASSUME IInv, SearchCompare PROVE IInv'
<1>1. /\ algorithm = "search" /\ algorithm' = "search" /\ verdict' = "none"
      /\ e <= n /\ j <= m /\ j \notin ToSet(chosen)
      /\ UNCHANGED <<given, left, failed>>
  BY DEF SearchCompare, At
<1>2. At("search")
  BY DEF SearchCompare
<1>. USE SearchFacts, <1>2
<1>3. e \in Element /\ j \in Item
  BY <1>1 DEF Element, Item
<1>4. PICK ok \in Answers(e, j) :
        IF ok THEN e' = e + 1 /\ j' = 1 /\ chosen' = Append(chosen, j)
        ELSE j' = j + 1 /\ UNCHANGED <<e, chosen>>
  BY DEF SearchCompare
<1>5. /\ ok \in BOOLEAN
      /\ ok => <<e, j>> \in Possible
      /\ ~ok => <<e, j>> \notin Certain
  BY <1>3, AnswersTell DEF IInv, Established, TypeOK
<1>6. \A i \in 1..(e - 1) : chosen[i] # j
  BY <1>1 DEF ToSet
<1>7. CASE ok
  <2>1. /\ e' = e + 1 /\ j' = 1 /\ chosen' \in Seq(Item) /\ Len(chosen') = e' - 1
        /\ DOMAIN chosen' = 1..e
        /\ \A i \in 1..(e - 1) : chosen'[i] = chosen[i]
        /\ chosen'[e] = j
    <3>1. e' = e + 1 /\ j' = 1 /\ chosen' = Append(chosen, j)
      BY <1>4, <1>7
    <3>2. chosen \in Seq(Item) /\ Len(chosen) = e - 1 /\ e \in Nat
      OBVIOUS
    <3>3. chosen' \in Seq(Item) /\ Len(chosen') = e
      BY <1>3, <3>1, <3>2
    <3>. QED
      BY <1>3, <3>1, <3>2, <3>3
  <2>2. TypeOK'
    BY <1>1, <1>3, <2>1, GivenKept DEF IInv, Established, TypeOK, Element, Item
  <2>3. \A i \in 1..e : i \in 1..(e - 1) \/ i = e
    OBVIOUS
  <2>4. Injective(chosen')
    BY <1>6, <2>1, <2>3 DEF Injective
  <2>5. \A i \in 1..(e' - 1) : i \in 1..(e - 1) \/ i = e
    BY <2>1
  <2>6. ChosenFits'
    BY <1>1, <1>5, <1>7, <2>1, <2>5, GivenKept DEF ChosenFits
  <2>7. ASSUME NEW a \in [Element -> Item], Injective(a), Placed(a, Certain)
        PROVE  ~Behind(a)'
    <3>1. ~Behind(a)
      BY <2>7
    <3>2. ASSUME NEW k \in 1..e, a[k] < chosen'[k],
                 \A i \in 1..(k - 1) : a[i] = chosen'[i]
          PROVE  FALSE
      <4>1. CASE k = e
        <5>1. a[e] < j /\ \A i \in DOMAIN chosen : a[i] = chosen[i]
          BY <2>1, <3>2, <4>1
        <5>. QED
          BY <1>1, <3>1, <5>1 DEF Behind
      <4>2. CASE k \in 1..(e - 1)
        <5>1. a[k] < chosen[k] /\ \A i \in 1..(k - 1) : a[i] = chosen[i]
          BY <2>1, <3>2, <4>2
        <5>. QED
          BY <3>1, <4>2, <5>1 DEF Behind
      <4>. QED
        BY <2>3, <4>1, <4>2
    <3>3. e' <= n => ~(a[e'] < 1)
      <4>1. e' <= n => e' \in Element
        BY <2>1 DEF Element
      <4>. QED
        BY <2>7, <4>1 DEF Item
    <3>. QED
      BY <1>1, <2>1, <3>2, <3>3, GivenKept DEF Behind
  <2>8. SearchInv'
    BY <1>1, <2>1, <2>4, <2>6, <2>7, GivenKept DEF SearchInv, Placed, Injective
  <2>. QED
    BY <1>1, <2>2, <2>8, OneAlgorithm
<1>8. CASE ~ok
  <2>1. j' = j + 1 /\ UNCHANGED <<e, chosen>>
    BY <1>4, <1>5, <1>8
  <2>2. TypeOK'
    BY <1>1, <2>1, GivenKept DEF IInv, Established, TypeOK, Item
  <2>3. ASSUME NEW a \in [Element -> Item], Injective(a), Placed(a, Certain)
        PROVE  ~Behind(a)'
    <3>1. ~Behind(a)
      BY <2>3
    <3>2. a[e] # j /\ a[e] \in Item
      BY <1>3, <1>5, <1>8, <2>3 DEF Placed
    <3>3. a[e] < j' => a[e] < j
      <4>1. a[e] \in Int /\ j \in Int
        BY <3>2 DEF Item
      <4>. QED
        BY <3>2, <4>1, <2>1
    <3>. QED
      BY <1>1, <2>1, <3>1, <3>3, GivenKept DEF Behind
  <2>4. ChosenFits'
    BY <1>1, <2>1, GivenKept DEF ChosenFits
  <2>5. SearchInv'
    BY <1>1, <2>1, <2>3, <2>4, GivenKept DEF SearchInv, Placed, Injective
  <2>. QED
    BY <1>1, <2>2, <2>5, OneAlgorithm
<1>. QED
  BY <1>5, <1>7, <1>8

(* An assignment that agrees so far cannot use an item twice.              *)
LEMMA SkipKeeps ==
  ASSUME IInv, SearchSkips PROVE IInv'
<1>1. /\ algorithm = "search" /\ algorithm' = "search" /\ verdict' = "none"
      /\ e <= n /\ j <= m /\ j' = j + 1 /\ j \in ToSet(chosen)
      /\ UNCHANGED <<given, left, failed, e, chosen>>
  BY DEF SearchSkips, At
<1>2. At("search")
  BY DEF SearchSkips
<1>. USE SearchFacts, <1>2
<1>3. e \in Element
  BY <1>1 DEF Element
<1>4. PICK k \in 1..(e - 1) : chosen[k] = j
  BY <1>1 DEF ToSet
<1>5. TypeOK'
  BY <1>1, GivenKept DEF IInv, Established, TypeOK, Item
<1>6. ASSUME NEW a \in [Element -> Item], Injective(a), Placed(a, Certain)
      PROVE  ~Behind(a)'
  <2>1. ~Behind(a)
    BY <1>6
  <2>2. k \in DOMAIN a /\ e \in DOMAIN a /\ k # e /\ a[e] \in Item
    BY <1>1, <1>3, <1>6 DEF Element
  <2>3. (\A i \in DOMAIN chosen : a[i] = chosen[i]) => a[e] # j
    BY <1>4, <1>6, <2>2 DEF Injective
  <2>4. a[e] < j' => a[e] < j \/ a[e] = j
    BY <1>1, <2>2 DEF Item
  <2>. QED
    BY <1>1, <2>1, <2>3, <2>4, GivenKept DEF Behind
<1>7. ChosenFits'
  BY <1>1, GivenKept DEF ChosenFits
<1>8. SearchInv'
  BY <1>1, <1>6, <1>7, GivenKept DEF SearchInv, Placed, Injective
<1>. QED
  BY <1>1, <1>5, <1>8, OneAlgorithm

(* No item was left: what agrees with all the choices is behind as well.   *)
LEMMA BacktrackKeeps ==
  ASSUME IInv, SearchBacktracks PROVE IInv'
<1>1. /\ algorithm = "search" /\ algorithm' = "search" /\ verdict' = "none"
      /\ e <= n /\ j > m /\ e > 1
      /\ j' = Last(chosen) + 1 /\ e' = e - 1 /\ chosen' = Front(chosen)
      /\ UNCHANGED <<given, left, failed>>
  BY DEF SearchBacktracks, At
<1>2. At("search")
  BY DEF SearchBacktracks
<1>. USE SearchFacts, <1>2
<1>3. e \in Element /\ e' \in Element /\ e' \in 1..(e - 1)
  BY <1>1 DEF Element
<1>4. /\ chosen' \in Seq(Item) /\ DOMAIN chosen' = 1..(e' - 1) /\ Len(chosen') = e' - 1
      /\ \A i \in 1..(e' - 1) : chosen'[i] = chosen[i]
  BY <1>1 DEF Front
<1>5. chosen[e'] \in Item /\ j' = chosen[e'] + 1
  BY <1>1, <1>3 DEF Last
<1>6. TypeOK'
  <2>1. j' \in 1..(m + 1)
    BY <1>5 DEF Item
  <2>2. e' \in 1..(n + 1) /\ Len(chosen') <= n
    BY <1>1, <1>4
  <2>. QED
    BY <1>1, <1>4, <2>1, <2>2, GivenKept DEF IInv, Established, TypeOK
<1>7. ASSUME NEW a \in [Element -> Item], Injective(a), Placed(a, Certain)
      PROVE  ~Behind(a)'
  <2>1. ~Behind(a)
    BY <1>7
  <2>2. a[e] \in Item /\ a[e'] \in Item
    BY <1>3, <1>7
  <2>3. a[e] < j
    BY <1>1, <2>2 DEF Item
  <2>4. ASSUME NEW k \in 1..(e' - 1), a[k] < chosen'[k],
               \A i \in 1..(k - 1) : a[i] = chosen'[i]
        PROVE  FALSE
    <3>1. k \in DOMAIN chosen /\ a[k] < chosen[k]
          /\ \A i \in 1..(k - 1) : a[i] = chosen[i]
      BY <1>1, <1>3, <1>4, <2>4
    <3>. QED
      BY <2>1, <3>1 DEF Behind
  <2>5. ASSUME a[e'] < j', \A i \in 1..(e' - 1) : a[i] = chosen'[i]
        PROVE  FALSE
    <3>1. \A i \in 1..(e' - 1) : a[i] = chosen[i]
      BY <1>4, <2>5
    <3>2. CASE a[e'] < chosen[e']
      BY <1>3, <2>1, <3>1, <3>2 DEF Behind
    <3>3. CASE a[e'] = chosen[e']
      <4>1. \A i \in 1..(e - 1) : i \in 1..(e' - 1) \/ i = e'
        BY <1>1
      <4>2. \A i \in DOMAIN chosen : a[i] = chosen[i]
        BY <3>1, <3>3, <4>1
      <4>. QED
        BY <1>1, <2>1, <2>3, <4>2 DEF Behind
    <3>. QED
      BY <1>5, <2>2, <2>5, <3>2, <3>3 DEF Item
  <2>. QED
    BY <1>4, <2>4, <2>5 DEF Behind
<1>8. ChosenFits' /\ Injective(chosen')
  <2>1. 1..(e' - 1) \subseteq 1..(e - 1)
    BY <1>1
  <2>2. ChosenFits'
    BY <1>1, <1>4, <2>1, GivenKept DEF ChosenFits
  <2>3. Injective(chosen')
    BY <1>4, <2>1 DEF Injective
  <2>. QED
    BY <2>2, <2>3
<1>9. SearchInv'
  BY <1>1, <1>4, <1>7, <1>8, GivenKept DEF SearchInv, Placed, Injective
<1>. QED
  BY <1>1, <1>6, <1>9, OneAlgorithm

-----------------------------------------------------------------------------
(* The verdicts at the end of each algorithm.                              *)
LEMMA MatchRight ==
  ASSUME IInv, verdict = "none", Decide("match"),
         matcher.kind = "list" => PlacedIn(Possible),
         matcher.kind = "list_of" => AllIn(Possible),
         matcher.kind = "forbidden" => ~FoundIn(Certain)
  PROVE  IInv'
<1>1. Established' /\ verdict' = "match" /\ UNCHANGED given
  BY DecideKeeps DEF IInv, Decide
<1>. QED
  BY <1>1, GivenKept DEF IInv, MatchIsPossible, MismatchIsPossible, PlacedIn,
     Placement, AllIn, FoundIn

LEMMA MismatchRight ==
  ASSUME IInv, verdict = "none", Decide("mismatch"),
         matcher.kind = "list" => ~PlacedIn(Certain),
         matcher.kind = "list_of" => ~AllIn(Certain),
         matcher.kind = "forbidden" => FoundIn(Possible)
  PROVE  IInv'
<1>1. Established' /\ verdict' = "mismatch" /\ UNCHANGED given
  BY DecideKeeps DEF IInv, Decide
<1>. QED
  BY <1>1, GivenKept DEF IInv, MatchIsPossible, MismatchIsPossible, PlacedIn,
     Placement, AllIn, FoundIn

LEMMA ExactEndsKeeps ==
  ASSUME IInv, ExactEnds PROVE IInv'
<1>1. /\ algorithm = "exact" /\ verdict = "none" /\ e > n /\ TypeOK
      /\ matcher.kind = "list" /\ matcher.ordered /\ n = m
      /\ failed \in BOOLEAN /\ n \in Nat /\ e \in 1..(n + 1)
  BY MatchAssumption DEF ExactEnds, At, IInv, Established, ExactInv, TypeOK
<1>2. CASE ~failed
  <2>. DEFINE a == [i \in Element |-> i]
  <2>1. a \in Placement
    BY <1>1 DEF Placement, Increasing, Element, Item
  <2>2. \A i \in Element : <<i, a[i]>> \in Possible
    <3>1. Element = 1..(e - 1)
      BY <1>1 DEF Element
    <3>. QED
      BY <1>1, <1>2, <3>1 DEF IInv, Established, ExactInv
  <2>3. PlacedIn(Possible)
    BY <2>1, <2>2 DEF PlacedIn
  <2>. QED
    BY <1>1, <1>2, <2>3, MatchRight DEF ExactEnds
<1>3. CASE failed
  <2>1. PICK i \in Element : <<i, i>> \notin Certain
    BY <1>1, <1>3 DEF IInv, Established, ExactInv
  <2>2. ASSUME NEW a \in Placement, \A k \in Element : <<k, a[k]>> \in Certain
        PROVE  FALSE
    <3>1. a[i] = i
      BY <1>1, IncreasingIsIdentity DEF Placement
    <3>. QED
      BY <2>1, <2>2, <3>1
  <2>3. ~PlacedIn(Certain)
    BY <2>2 DEF PlacedIn
  <2>. QED
    BY <1>1, <1>3, <2>3, MismatchRight DEF ExactEnds
<1>. QED
  BY <1>1, <1>2, <1>3

LEMMA EachEndsKeeps ==
  ASSUME IInv, EachEnds PROVE IInv'
<1>1. /\ verdict = "none" /\ j > m /\ matcher.kind = "list_of"
      /\ failed \in BOOLEAN /\ m \in Nat /\ j \in 1..(m + 1)
      /\ ~failed => \A k \in 1..(j - 1) : <<1, k>> \in Possible
      /\ failed => \E k \in Item : <<1, k>> \notin Certain
  BY MatchAssumption DEF EachEnds, At, IInv, Established, EachInv, TypeOK
<1>2. Item = 1..(j - 1)
  BY <1>1 DEF Item
<1>3. CASE ~failed
  BY <1>1, <1>2, <1>3, MatchRight DEF EachEnds, AllIn
<1>4. CASE failed
  BY <1>1, <1>4, MismatchRight DEF EachEnds, AllIn
<1>. QED
  BY <1>1, <1>3, <1>4

LEMMA AnyEndsKeeps ==
  ASSUME IInv, AnyEnds PROVE IInv'
<1>1. /\ verdict = "none" /\ j > m /\ matcher.kind = "forbidden"
      /\ n \in Nat /\ m \in Nat /\ j \in 1..(m + 1) /\ n > 0
      /\ \A i \in Element, k \in Item :
           k < j \/ (k = j /\ i < e) => <<i, k>> \notin Certain
  BY MatchAssumption DEF AnyEnds, At, IInv, Established, AnyInv, TypeOK
<1>2. \A i \in Element, k \in Item : <<i, k>> \notin Certain
  <2>1. \A k \in Item : k < j
    BY <1>1 DEF Item
  <2>. QED
    BY <1>1, <2>1
<1>3. Certain = {}
  BY <1>2 DEF Certain
<1>4. ~PlacedIn(Certain)
  <2>1. 1 \in Element
    BY <1>1 DEF Element
  <2>. QED
    BY <1>3, <2>1 DEF PlacedIn
<1>. QED
  BY <1>1, <1>3, <1>4, MatchRight DEF AnyEnds, FoundIn

(* The items chosen are an assignment.                                     *)
LEMMA GreedyPlaced ==
  ASSUME IInv, At("greedy"), e > n PROVE PlacedIn(Possible)
<1>1. /\ matcher.ordered /\ matcher.extras /\ Len(chosen) = e - 1
      /\ Increasing(chosen) /\ ChosenFits /\ chosen \in Seq(Item)
      /\ n \in Nat /\ e \in 1..(n + 1)
  BY MatchAssumption DEF IInv, Established, GreedyInv, At, TypeOK
<1>2. 1..(e - 1) = Element
  BY <1>1 DEF Element
<1>3. chosen \in [Element -> Item]
  BY <1>1, <1>2
<1>. QED
  BY <1>1, <1>2, <1>3 DEF PlacedIn, Placement, ChosenFits

(* No item is left for the next element, wherever it could have been.      *)
LEMMA GreedyNotPlaced ==
  ASSUME IInv, At("greedy"), ~(e > n), j > m PROVE ~PlacedIn(Certain)
<1>1. /\ matcher.ordered /\ n \in Nat /\ m \in Nat
      /\ e \in 1..(n + 1) /\ j \in 1..(m + 1)
      /\ e <= n => \A a \in [Element -> Item] :
                     Increasing(a) /\ Placed(a, Certain) => a[e] >= j
  BY MatchAssumption DEF IInv, Established, GreedyInv, At, TypeOK
<1>2. e <= n /\ e \in Element
  BY <1>1 DEF Element
<1>3. ASSUME NEW a \in Placement, Placed(a, Certain) PROVE FALSE
  <2>1. a \in [Element -> Item] /\ Increasing(a)
    BY <1>1, <1>3 DEF Placement
  <2>2. a[e] >= j /\ a[e] \in Item
    BY <1>1, <1>2, <1>3, <2>1
  <2>. QED
    BY <1>1, <2>2 DEF Item
<1>. QED
  BY <1>3 DEF PlacedIn, Placed

LEMMA GreedyEndsKeeps ==
  ASSUME IInv, GreedyEnds PROVE IInv'
<1>1. /\ verdict = "none" /\ At("greedy") /\ matcher.kind \in {"list", "forbidden"}
      /\ matcher.ordered /\ (matcher.kind = "forbidden" => n > 0)
      /\ e > n \/ j > m
  BY DEF GreedyEnds, At, IInv, Established, GreedyInv
<1>2. CASE e > n
  BY <1>1, <1>2, GreedyPlaced, MatchRight, MismatchRight DEF GreedyEnds, FoundIn
<1>3. CASE ~(e > n)
  BY <1>1, <1>3, GreedyNotPlaced, MatchRight, MismatchRight DEF GreedyEnds, FoundIn
<1>. QED
  BY <1>2, <1>3

LEMMA PermutationFitsKeeps ==
  ASSUME IInv, PermutationFits PROVE IInv'
<1>1. /\ verdict = "none" /\ matcher.kind = "list" /\ ~matcher.ordered /\ n = m
      /\ chosen \in Perms /\ ChosenFits /\ n \in Nat /\ e \in 1..(n + 1) /\ e > n
  BY MatchAssumption
     DEF PermutationFits, At, IInv, Established, PermutationsInv, TypeOK
<1>2. 1..(e - 1) = Element /\ Item = Element
  BY <1>1 DEF Element, Item
<1>3. chosen \in Placement
  BY <1>1, <1>2 DEF Placement, Perms
<1>4. PlacedIn(Possible)
  BY <1>1, <1>2, <1>3 DEF PlacedIn, ChosenFits
<1>. QED
  BY <1>1, <1>4, MatchRight DEF PermutationFits

LEMMA SearchEndsKeeps ==
  ASSUME IInv, SearchEnds PROVE IInv'
<1>1. At("search") /\ verdict = "none"
  BY DEF SearchEnds, At
<1>. USE SearchFacts, <1>1
<1>2. CASE e > n /\ Decide("match")
  <2>1. 1..(e - 1) = Element
    BY <1>2 DEF Element
  <2>2. chosen \in Placement
    BY <2>1 DEF Placement
  <2>3. PlacedIn(Possible)
    BY <2>1, <2>2 DEF PlacedIn, ChosenFits
  <2>. QED
    BY <1>2, <2>3, MatchRight
<1>3. CASE e = 1 /\ j > m /\ Decide("mismatch")
  <2>1. ASSUME NEW a \in Placement, Placed(a, Certain) PROVE FALSE
    <3>1. a \in [Element -> Item] /\ Injective(a)
      BY <2>1 DEF Placement
    <3>2. a[1] \in Item
      BY <3>1 DEF Element
    <3>3. a[e] < j
      BY <1>3, <3>2 DEF Item
    <3>4. e <= n /\ \A i \in DOMAIN chosen : a[i] = chosen[i]
      BY <1>3
    <3>. QED
      BY <2>1, <3>1, <3>3, <3>4 DEF Behind
  <2>2. ~PlacedIn(Certain)
    BY <2>1 DEF PlacedIn, Placed
  <2>. QED
    BY <1>3, <2>2, MismatchRight
<1>. QED
  BY <1>2, <1>3 DEF SearchEnds

LEMMA RaisesKeeps ==
  ASSUME IInv, CompareRaises PROVE IInv'
<1>1. Established' /\ verdict' = "raised"
  BY DecideKeeps DEF IInv, CompareRaises
<1>. QED
  BY <1>1 DEF IInv, MatchIsPossible, MismatchIsPossible

LEMMA StutterKeeps ==
  ASSUME IInv, UNCHANGED vars PROVE IInv'
<1>1. UNCHANGED <<given, algorithm, e, j, chosen, left, failed, verdict>>
  BY DEF vars, given
<1>2. TypeOK' /\ StartInv' /\ ExactInv' /\ EachInv' /\ AnyInv'
  BY <1>1, GivenKept DEF IInv, Established, TypeOK, StartInv, ExactInv, EachInv, AnyInv
<1>3. GreedyInv' /\ PermutationsInv'
  BY <1>1, GivenKept DEF IInv, Established, GreedyInv, PermutationsInv, ChosenFits, Placed
<1>4. SearchInv'
  BY <1>1, GivenKept DEF IInv, Established, SearchInv, ChosenFits, Placed, Behind
<1>5. MatchIsPossible' /\ MismatchIsPossible'
  BY <1>1, GivenKept DEF IInv, MatchIsPossible, MismatchIsPossible, PlacedIn,
     Placement, AllIn, FoundIn
<1>. QED
  BY <1>2, <1>3, <1>4, <1>5 DEF IInv, Established

-----------------------------------------------------------------------------
(* Every step of every matcher preserves the invariant.                    *)
LEMMA StepKeeps == IInv /\ [Next]_vars => IInv'
<1>. SUFFICES ASSUME IInv, [Next]_vars PROVE IInv'
  OBVIOUS
<1>1. CASE CheckList \/ CheckListOf \/ CheckForbidden
  BY <1>1, CheckListKeeps, CheckListOfKeeps, CheckForbiddenKeeps
<1>2. CASE Compare
  BY <1>2, ExactKeeps, EachKeeps, AnyKeeps, GreedyKeeps, PermutationKeeps,
     SearchKeeps, SkipKeeps, BacktrackKeeps DEF Compare
<1>3. CASE End
  BY <1>3, ExactEndsKeeps, EachEndsKeeps, AnyEndsKeeps, GreedyEndsKeeps,
     PermutationFitsKeeps, SearchEndsKeeps DEF End
<1>4. CASE CompareRaises
  BY <1>4, RaisesKeeps
<1>5. CASE Rest \/ UNCHANGED vars
  BY <1>5, StutterKeeps DEF Rest
<1>. QED
  BY <1>1, <1>2, <1>3, <1>4, <1>5 DEF Next

LEMMA Invariant == Spec => []IInv
BY InitEstablishes, StepKeeps, PTL DEF Spec

(* The indices of every algorithm stay within the lists.                   *)
THEOREM TypeCorrect == Spec => []TypeOK
<1>1. IInv => TypeOK
  BY DEF IInv, Established
<1>. QED
  BY <1>1, Invariant, PTL

(* A match has an assignment behind it that the answers allow, whichever   *)
(* algorithm found it and however the answers change: no item is used      *)
(* twice.  Nothing forbidden that every answer shows is overlooked.        *)
THEOREM MatchIsPossibleHolds == Spec => []MatchIsPossible
<1>1. IInv => MatchIsPossible
  BY DEF IInv
<1>. QED
  BY <1>1, Invariant, PTL

(* No assignment that every answer would accept is missed, by the greedy   *)
(* pass, the permutations or the search.                                   *)
THEOREM MismatchIsPossibleHolds == Spec => []MismatchIsPossible
<1>1. IInv => MismatchIsPossible
  BY DEF IInv
<1>. QED
  BY <1>1, Invariant, PTL

=============================================================================
