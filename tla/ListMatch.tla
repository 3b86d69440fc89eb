------------------------------ MODULE ListMatch ------------------------------
(***************************************************************************)
(* The matchers of match/lists.py and match/forbidden.py, one comparison   *)
(* of an expected element with a list item at a time.  In the async        *)
(* variants a comparison may be a question to a language model, which      *)
(* fails, or answers otherwise the next time it is asked.                  *)
(*                                                                         *)
(* Only the verdict is modelled.  Of the failed comparisons the code keeps *)
(* one to show, which decides nothing, and so does not the order in which  *)
(* permutations are tried.  What is no list at all is refused before.  A   *)
(* comparison that fails has an error to say so, as every matcher has it:  *)
(* "errors is not empty" is "some comparison failed".                      *)
(***************************************************************************)
EXTENDS Integers, Sequences, SequencesExt

CONSTANTS
  Sizes,        \* the sizes considered: <<expected elements, list items>>
  Replies,      \* Replies[s]: how comparisons of that size may behave
  MaxPerm       \* _MAX_PERM

Behaviour == {"always", "sometimes", "never"}

Matcher ==
  [kind : {"list"}, ordered : BOOLEAN, extras : BOOLEAN]
    \cup [kind : {"forbidden"}, ordered : BOOLEAN, extras : {TRUE}]
    \cup [kind : {"list_of"}, ordered : {TRUE}, extras : {FALSE}]

ASSUME MatchAssumption ==
  /\ Sizes \subseteq Nat \X Nat
  /\ Replies \in [Sizes -> SUBSET Behaviour]
  /\ MaxPerm \in Nat

VARIABLES
  matcher,      \* "list", "list_of" or "forbidden", ordered, allow_extras
  n,            \* how many elements are expected (or forbidden)
  m,            \* how many items the list has
  fits,         \* fits[i, j]: when item j is accepted by element i
  algorithm,    \* the function that decides, "none" before
  e,            \* the element under comparison
  j,            \* the item under comparison
  chosen,       \* the items given to elements, in the order of the elements
  left,         \* the permutations not tried
  failed,       \* did some comparison fail (where all are made)?
  verdict       \* "none", "match", "mismatch" or "raised"

vars == <<matcher, n, m, fits, algorithm, e, j, chosen, left, failed, verdict>>

given == <<matcher, n, m, fits>>

Element == 1..n
Item == 1..m

Injective(a) == \A i, k \in DOMAIN a : i # k => a[i] # a[k]
Increasing(a) == \A i, k \in DOMAIN a : i < k => a[i] < a[k]

Perms == {p \in [Element -> Element] : Injective(p)}

(* What a comparison may answer.                                           *)
Answers(i, k) ==
  {ok \in BOOLEAN : fits[<<i, k>>] # IF ok THEN "never" ELSE "always"}

-----------------------------------------------------------------------------
Init ==
  /\ matcher \in Matcher
  /\ \E s \in Sizes : n = s[1] /\ m = s[2]
  /\ matcher.kind = "list_of" => n = 1
  /\ fits \in [Element \X Item -> Replies[<<n, m>>]]
  /\ algorithm = "none"
  /\ e = 1 /\ j = 1
  /\ chosen = <<>>
  /\ left = {}
  /\ failed = FALSE
  /\ verdict = "none"

Decide(v) ==
  /\ verdict' = v
  /\ UNCHANGED <<given, algorithm, e, j, chosen, left, failed>>

Choose(name) ==
  /\ algorithm' = name
  /\ UNCHANGED <<given, e, j, chosen, left, failed, verdict>>

(* The permutations are tried in an order that does not matter.            *)
ChoosePermutations ==
  /\ algorithm' = "permutations"
  /\ \E p \in Perms : chosen' = p /\ left' = Perms \ {p}
  /\ UNCHANGED <<given, e, j, failed, verdict>>

(* ListMatcher.check and async_check.                                      *)
CheckList ==
  /\ algorithm = "none" /\ verdict = "none"
  /\ matcher.kind = "list"
  /\ \/ /\ matcher.ordered /\ ~matcher.extras
        /\ IF n # m THEN Decide("mismatch") ELSE Choose("exact")
     \/ /\ matcher.ordered /\ matcher.extras
        /\ Choose("greedy")
     \/ /\ ~matcher.ordered /\ ~matcher.extras
        /\ IF n # m THEN Decide("mismatch")
           ELSE IF n = 0 THEN Decide("match")
           ELSE IF n > MaxPerm THEN Choose("search")
           ELSE ChoosePermutations
     \/ /\ ~matcher.ordered /\ matcher.extras
        /\ IF m < n THEN Decide("mismatch")
           ELSE IF n = 0 THEN Decide("match")
           ELSE Choose("search")

(* ListOfMatcher.check and async_check: the first element is the matcher.  *)
CheckListOf ==
  /\ algorithm = "none" /\ verdict = "none"
  /\ matcher.kind = "list_of"
  /\ Choose("each")

(* ForbiddenToolCallsMatcher.check.                                        *)
CheckForbidden ==
  /\ algorithm = "none" /\ verdict = "none"
  /\ matcher.kind = "forbidden"
  /\ IF n = 0 THEN Decide("match")
     ELSE Choose(IF n = 1 \/ ~matcher.ordered THEN "any" ELSE "greedy")

-----------------------------------------------------------------------------
At(name) == algorithm = name /\ verdict = "none"

(* _ordered_exact: every element against the item of its index.            *)
ExactCompare ==
  /\ At("exact") /\ e <= n
  /\ \E ok \in Answers(e, e) : failed' = (failed \/ ~ok)
  /\ e' = e + 1
  /\ UNCHANGED <<given, algorithm, j, chosen, left, verdict>>

ExactEnds ==
  /\ At("exact") /\ e > n
  /\ Decide(IF failed THEN "mismatch" ELSE "match")

(* ListOfMatcher: every item against the one matcher.                      *)
EachCompare ==
  /\ At("each") /\ j <= m
  /\ \E ok \in Answers(1, j) : failed' = (failed \/ ~ok)
  /\ j' = j + 1
  /\ UNCHANGED <<given, algorithm, e, chosen, left, verdict>>

EachEnds ==
  /\ At("each") /\ j > m
  /\ Decide(IF failed THEN "mismatch" ELSE "match")

(* _match_any_forbidden: every pattern against every item.                 *)
AnyCompare ==
  /\ At("any") /\ j <= m
  /\ \E ok \in Answers(e, j) :
       IF ok THEN verdict' = "mismatch" /\ UNCHANGED <<e, j>>
       ELSE /\ IF e < n THEN e' = e + 1 /\ UNCHANGED j
                        ELSE e' = 1 /\ j' = j + 1
            /\ UNCHANGED verdict
  /\ UNCHANGED <<given, algorithm, chosen, left, failed>>

AnyEnds ==
  /\ At("any") /\ j > m
  /\ Decide("match")

(* _ordered_subsequence and _match_forbidden_subsequence: the next item,   *)
(* against the first element that has none.                                *)
GreedyCompare ==
  /\ At("greedy") /\ e <= n /\ j <= m
  /\ \E ok \in Answers(e, j) :
       IF ok THEN e' = e + 1 /\ chosen' = Append(chosen, j)
       ELSE UNCHANGED <<e, chosen>>
  /\ j' = j + 1
  /\ UNCHANGED <<given, algorithm, left, failed, verdict>>

(* What the one asks for the other forbids.                                *)
GreedyEnds ==
  /\ At("greedy") /\ (e > n \/ j > m)
  /\ Decide(IF (e > n) = (matcher.kind = "list") THEN "match" ELSE "mismatch")

-----------------------------------------------------------------------------
(* _multiset_by_permutation: a permutation is left at its first failure.   *)
PermutationCompare ==
  /\ At("permutations") /\ e <= n
  /\ \E ok \in Answers(e, chosen[e]) :
       IF ok THEN e' = e + 1 /\ UNCHANGED <<chosen, left, verdict>>
       ELSE IF left = {} THEN verdict' = "mismatch" /\ UNCHANGED <<e, chosen, left>>
       ELSE \E p \in left :
              /\ chosen' = p
              /\ left' = left \ {p}
              /\ e' = 1
              /\ UNCHANGED verdict
  /\ UNCHANGED <<given, algorithm, j, failed>>

PermutationFits ==
  /\ At("permutations") /\ e > n
  /\ Decide("match")

(* Mutant: used[j] is not looked at.                                       *)
SearchCompareUsed ==
  /\ At("search") /\ e <= n /\ j <= m
  /\ \E ok \in Answers(e, j) :
       IF ok THEN e' = e + 1 /\ j' = 1 /\ chosen' = Append(chosen, j)
       ELSE j' = j + 1 /\ UNCHANGED <<e, chosen>>
  /\ UNCHANGED <<given, algorithm, left, failed, verdict>>

(* _unordered_injective_dfs: the next item that no element before has.     *)
SearchCompare ==
  /\ At("search") /\ e <= n /\ j <= m
  /\ j \notin ToSet(chosen)
  /\ \E ok \in Answers(e, j) :
       IF ok THEN e' = e + 1 /\ j' = 1 /\ chosen' = Append(chosen, j)
       ELSE j' = j + 1 /\ UNCHANGED <<e, chosen>>
  /\ UNCHANGED <<given, algorithm, left, failed, verdict>>

SearchSkips ==
  /\ At("search") /\ e <= n /\ j <= m
  /\ j \in ToSet(chosen)
  /\ j' = j + 1
  /\ UNCHANGED <<given, algorithm, e, chosen, left, failed, verdict>>

(* No item is left for this element: the one before tries its next.        *)
SearchBacktracks ==
  /\ At("search") /\ e <= n /\ j > m
  /\ e > 1
  /\ j' = Last(chosen) + 1
  /\ e' = e - 1
  /\ chosen' = Front(chosen)
  /\ UNCHANGED <<given, algorithm, left, failed, verdict>>

(* Mutant: the first element that finds no item ends the search.           *)
SearchGivesUp ==
  /\ At("search")
  /\ \/ e > n /\ Decide("match")
     \/ e <= n /\ j > m /\ Decide("mismatch")

SearchEnds ==
  /\ At("search")
  /\ \/ e > n /\ Decide("match")
     \/ e = 1 /\ j > m /\ Decide("mismatch")

(* A comparison may raise: a judge that cannot be reached, a condition     *)
(* that does not apply to the value.  Nothing here catches it.             *)
CompareRaises ==
  /\ algorithm # "none" /\ verdict = "none"
  /\ n > 0 /\ m > 0
  /\ Decide("raised")

Rest == verdict # "none" /\ UNCHANGED vars

Compare ==
  \/ ExactCompare
  \/ EachCompare
  \/ AnyCompare
  \/ GreedyCompare
  \/ PermutationCompare
  \/ SearchCompare
  \/ SearchSkips
  \/ SearchBacktracks

End ==
  \/ ExactEnds
  \/ EachEnds
  \/ AnyEnds
  \/ GreedyEnds
  \/ PermutationFits
  \/ SearchEnds

Next ==
  \/ CheckList
  \/ CheckListOf
  \/ CheckForbidden
  \/ Compare
  \/ End
  \/ CompareRaises
  \/ Rest

Spec == Init /\ [][Next]_vars

-----------------------------------------------------------------------------
TypeOK ==
  /\ matcher \in Matcher
  /\ <<n, m>> \in Sizes
  /\ matcher.kind = "list_of" => n = 1
  /\ fits \in [Element \X Item -> Behaviour]
  /\ algorithm \in {"none", "exact", "each", "any", "greedy", "permutations", "search"}
  /\ e \in 1..(n + 1)
  /\ j \in 1..(m + 1)
  /\ chosen \in Seq(Item) /\ Len(chosen) <= n
  /\ left \subseteq Perms
  /\ failed \in BOOLEAN
  /\ verdict \in {"none", "match", "mismatch", "raised"}

(* The pairs that a comparison may accept, and those it cannot refuse.     *)
Possible == {p \in Element \X Item : fits[p] # "never"}
Certain == {p \in Element \X Item : fits[p] = "always"}

(***************************************************************************)
(* What the docstring of ListMatcher promises (lists.py:675-684): an item  *)
(* for every element, by index, in order, or any, none of them twice, and  *)
(* none left over unless extras are allowed.                               *)
(***************************************************************************)
Placement ==
  {a \in [Element -> Item] :
     /\ IF matcher.ordered THEN Increasing(a) ELSE Injective(a)
     /\ ~matcher.extras => n = m}

PlacedIn(pairs) == \E a \in Placement : \A i \in Element : <<i, a[i]>> \in pairs

(* forbid_tool_calls: one of the patterns, or all of them in order.        *)
FoundIn(pairs) ==
  IF matcher.ordered THEN n > 0 /\ PlacedIn(pairs) ELSE pairs # {}

AllIn(pairs) == \A k \in Item : <<1, k>> \in pairs

(***************************************************************************)
(* A match is never reported without an assignment that the answers allow, *)
(* and what is forbidden is not overlooked where every answer is certain:  *)
(* an item is not used twice, greedy placement and backtracking included.  *)
(***************************************************************************)
MatchIsPossible ==
  verdict = "match" =>
    /\ matcher.kind = "list" => PlacedIn(Possible)
    /\ matcher.kind = "list_of" => AllIn(Possible)
    /\ matcher.kind = "forbidden" => ~FoundIn(Certain)

(***************************************************************************)
(* A mismatch is reported only when no assignment exists that every answer *)
(* would accept: taking the first item that fits, in order, loses nothing, *)
(* and the search leaves no assignment out.                                *)
(***************************************************************************)
MismatchIsPossible ==
  verdict = "mismatch" =>
    /\ matcher.kind = "list" => ~PlacedIn(Certain)
    /\ matcher.kind = "list_of" => ~AllIn(Certain)
    /\ matcher.kind = "forbidden" => FoundIn(Possible)

=============================================================================
