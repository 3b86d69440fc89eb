-------------------------- MODULE ShrinkEngineProofs --------------------------
(***************************************************************************)
(* Proofs about ShrinkPasses and ShrinkEngine.                             *)
(***************************************************************************)
EXTENDS ShrinkEngine, InductionLemmas

Conversation == Seq(Seq(Letter))

-----------------------------------------------------------------------------
(* What the helpers of a pass return.                                      *)

(* Chars adds up the lengths of the turns.                                 *)
LEMMA CharsUpTo ==
  ASSUME NEW t \in Conversation
  PROVE  \E g \in [0..Len(t) -> Nat] :
           /\ g[0] = 0
           /\ \A i \in 1..Len(t) : g[i] = g[i - 1] + Len(t[i])
           /\ Chars(t) = g[Len(t)]
<1> DEFINE n == Len(t)
           Def(g, i) == IF i = 0 THEN 0 ELSE g[i - 1] + Len(t[i])
           f == CHOOSE g : g = [i \in 0..n |-> Def(g, i)]
           S == {k \in Nat : \E g \in [0..k -> Nat] :
                               k <= n => \A i \in 0..k : g[i] = Def(g, i)}
<1>0. n \in Nat /\ \A i \in 1..n : Len(t[i]) \in Nat
  BY DEF Conversation
<1>1. 0 \in S
  <2> DEFINE e == [i \in 0..0 |-> 0]
  <2>1. e \in [0..0 -> Nat]
    OBVIOUS
  <2>2. \A i \in 0..0 : e[i] = Def(e, i)
    OBVIOUS
  <2> HIDE DEF e, Def
  <2> QED BY <2>1, <2>2
<1>2. ASSUME NEW k \in Nat, k \in S PROVE k + 1 \in S
  <2>1. PICK g \in [0..k -> Nat] : k <= n => \A i \in 0..k : g[i] = Def(g, i)
    BY <1>2
  <2> DEFINE h == [i \in 0..(k+1) |-> IF i = k + 1 /\ i <= n THEN g[k] + Len(t[k+1])
                                      ELSE IF i = k + 1 THEN 0 ELSE g[i]]
  <2>2. k + 1 <= n => g[k] + Len(t[k+1]) \in Nat
    BY <1>0
  <2>3. h \in [0..(k+1) -> Nat]
    BY <2>2
  <2>4. ASSUME k + 1 <= n, NEW i \in 0..(k+1) PROVE h[i] = Def(h, i)
    <3>1. CASE i = k + 1
      <4>1. h[k] = g[k] /\ i - 1 = k /\ i # 0
        BY <3>1
      <4> QED BY <4>1, <3>1, <2>4
    <3>2. CASE i # k + 1 /\ i = 0
      <4>1. h[i] = g[i] /\ i \in 0..k
        BY <3>2
      <4>2. g[i] = Def(g, i)
        <5> HIDE DEF h, Def
        <5> QED BY <4>1, <2>1, <2>4
      <4> QED BY <4>1, <4>2, <3>2
    <3>3. CASE i # k + 1 /\ i # 0
      <4>1. h[i] = g[i] /\ h[i-1] = g[i-1] /\ i \in 0..k
        BY <3>3
      <4>2. g[i] = Def(g, i)
        <5> HIDE DEF h, Def
        <5> QED BY <4>1, <2>1, <2>4
      <4> QED BY <4>1, <4>2, <3>3
    <3> QED BY <3>1, <3>2, <3>3
  <2>5. k + 1 <= n => \A i \in 0..(k+1) : h[i] = Def(h, i)
    BY <2>4
  <2> HIDE DEF h, Def
  <2> QED BY <2>3, <2>5
<1>3. PICK g \in [0..n -> Nat] : \A i \in 0..n : g[i] = Def(g, i)
  <2>1. Nat \subseteq S
    <3> HIDE DEF S
    <3> QED BY <1>1, <1>2, SetInduction
  <2>2. n \in S
    <3> HIDE DEF S
    <3> QED BY <1>0, <2>1
  <2> HIDE DEF Def
  <2> QED BY <2>2
<1>4. f = [i \in 0..n |-> Def(f, i)]
  <2>1. g = [i \in 0..n |-> Def(g, i)]
    BY <1>3
  <2> QED BY <2>1
<1>5. \A i \in 0..n : f[i] = Def(f, i)
  <2> HIDE DEF f
  <2> QED BY <1>4
<1>6. Chars(t) = f[n]
  BY DEF Chars
<1> HIDE DEF f
<1>7. \A i \in 1..n : f[i] = f[i - 1] + Len(t[i])
  <2> SUFFICES ASSUME NEW i \in 1..n PROVE f[i] = f[i - 1] + Len(t[i])
    OBVIOUS
  <2>1. f[i] = Def(f, i) /\ i # 0
    BY <1>5
  <2> QED BY <2>1, Zenon
<1>8. f[0] = 0
  BY <1>0, <1>5
<1>9. \A i \in 0..n : f[i] \in Nat
  <2> DEFINE I == {k \in Nat : k <= n => f[k] \in Nat}
  <2>1. 0 \in I
    BY <1>8
  <2>2. ASSUME NEW k \in Nat, k \in I PROVE k + 1 \in I
    <3> SUFFICES ASSUME k + 1 <= n PROVE f[k+1] \in Nat
      OBVIOUS
    <3>1. f[k] \in Nat /\ k + 1 \in 1..n /\ (k + 1) - 1 = k
      BY <2>2, <1>0
    <3>2. f[k+1] = f[(k+1) - 1] + Len(t[k+1])
      BY <3>1, <1>7
    <3>3. Len(t[k+1]) \in Nat
      BY <3>1, <1>0
    <3> QED BY <3>1, <3>2, <3>3
  <2>3. Nat \subseteq I
    <3> HIDE DEF I
    <3> QED BY <2>1, <2>2, SetInduction
  <2> QED BY <2>3, <1>0
<1>10. f \in [0..n -> Nat]
  <2>1. f = [i \in 0..n |-> f[i]]
    BY <1>4
  <2> QED BY <2>1, <1>9
<1> QED BY <1>6, <1>7, <1>8, <1>10

LEMMA CharsType ==
  ASSUME NEW t \in Conversation
  PROVE  Chars(t) \in Nat
<1>1. Len(t) \in 0..Len(t)
  BY DEF Conversation
<1> QED BY <1>1, CharsUpTo

(* Shorter turns, fewer characters.                                        *)
LEMMA CharsMonotone ==
  ASSUME NEW s \in Conversation, NEW t \in Conversation, Len(s) = Len(t),
         \A i \in 1..Len(t) : Len(s[i]) <= Len(t[i])
  PROVE  Chars(s) <= Chars(t)
<1>0. Len(t) \in Nat /\ \A i \in 1..Len(t) : Len(s[i]) \in Nat /\ Len(t[i]) \in Nat
  BY DEF Conversation
<1>1. PICK g \in [0..Len(s) -> Nat] :
        /\ g[0] = 0
        /\ \A i \in 1..Len(s) : g[i] = g[i - 1] + Len(s[i])
        /\ Chars(s) = g[Len(s)]
  BY CharsUpTo
<1>2. PICK h \in [0..Len(t) -> Nat] :
        /\ h[0] = 0
        /\ \A i \in 1..Len(t) : h[i] = h[i - 1] + Len(t[i])
        /\ Chars(t) = h[Len(t)]
  BY CharsUpTo
<1> DEFINE I == {k \in Nat : k <= Len(t) => g[k] <= h[k]}
<1>3. 0 \in I
  BY <1>1, <1>2
<1>4. ASSUME NEW k \in Nat, k \in I PROVE k + 1 \in I
  <2> SUFFICES ASSUME k + 1 <= Len(t) PROVE g[k+1] <= h[k+1]
    OBVIOUS
  <2>1. g[k] <= h[k] /\ k + 1 \in 1..Len(t) /\ (k + 1) - 1 = k
    BY <1>4, <1>0
  <2>2. g[k+1] = g[k] + Len(s[k+1])
    BY <2>1, <1>1
  <2>3. h[k+1] = h[k] + Len(t[k+1])
    BY <2>1, <1>2
  <2>4. k \in 0..Len(t) /\ k \in 0..Len(s)
    BY <2>1, <1>0
  <2>5. g[k] \in Nat /\ h[k] \in Nat
    BY <2>4
  <2>6. Len(s[k+1]) \in Nat /\ Len(t[k+1]) \in Nat /\ Len(s[k+1]) <= Len(t[k+1])
    BY <2>1, <1>0
  <2> QED BY <2>1, <2>2, <2>3, <2>5, <2>6
<1>5. Nat \subseteq I
  <2> HIDE DEF I
  <2> QED BY <1>3, <1>4, SetInduction
<1> QED BY <1>0, <1>1, <1>2, <1>5

(* The conversations that do not outgrow t, those of as many turns, and    *)
(* where a deterministic pass may lead from t.                             *)
Within(t) == {c \in Conversation : ~Smaller(t, c)}
AsLong(t) == {c \in Conversation : Len(c) = Len(t)}
Leads(kind, t) == IF kind = "remove_user_turns" THEN Within(t) ELSE AsLong(t)

(* What OnlyRewritingGrows says of a step.                                 *)
Grows ==
  Smaller(turns, turns')
    => Len(turns') = Len(turns) /\ passes[pass] = "simplify_user_messages"

LEMMA LeanerIsWithin ==
  ASSUME NEW t \in Conversation, NEW c \in Conversation, Len(c) = Len(t),
         \A i \in 1..Len(t) : Len(c[i]) <= Len(t[i])
  PROVE  c \in Within(t)
<1>1. Chars(c) <= Chars(t) /\ Chars(c) \in Nat /\ Chars(t) \in Nat
  BY CharsMonotone, CharsType
<1>2. Len(t) \in Nat
  BY DEF Conversation
<1> QED BY <1>1, <1>2 DEF Within, Smaller

LEMMA FewerIsWithin ==
  ASSUME NEW t \in Conversation, NEW c \in Conversation, Len(c) < Len(t)
  PROVE  c \in Within(t)
<1>1. Len(t) \in Nat /\ Len(c) \in Nat
  BY DEF Conversation
<1> QED BY <1>1 DEF Within, Smaller

(* A conversation with one turn removed.                                   *)
LEMMA RemovalsWithin ==
  ASSUME NEW t \in Conversation
  PROVE  Removals(t) \in Seq(Within(t))
<1>1. CASE Len(t) <= 1
  BY <1>1 DEF Removals
<1>2. CASE ~(Len(t) <= 1)
  <2>1. ASSUME NEW i \in 1..Len(t) PROVE RemoveAt(t, i) \in Within(t)
    <3>1. /\ SubSeq(t, 1, i - 1) \in Conversation /\ Len(SubSeq(t, 1, i - 1)) = i - 1
          /\ SubSeq(t, i + 1, Len(t)) \in Conversation
          /\ Len(SubSeq(t, i + 1, Len(t))) = Len(t) - i
      BY DEF Conversation
    <3>2. RemoveAt(t, i) \in Conversation /\ Len(RemoveAt(t, i)) = Len(t) - 1
      <4> DEFINE a == SubSeq(t, 1, i - 1)
                 b == SubSeq(t, i + 1, Len(t))
      <4>1. RemoveAt(t, i) = a \o b
        BY DEF RemoveAt
      <4>2. Len(t) \in Nat
        BY DEF Conversation
      <4>0. /\ a \in Conversation /\ Len(a) = i - 1
            /\ b \in Conversation /\ Len(b) = Len(t) - i
        BY <3>1
      <4>3. a \o b \in Conversation /\ Len(a \o b) = Len(a) + Len(b)
        <5> HIDE DEF a, b
        <5> DEFINE T == Seq(Letter)
        <5>1. a \in Seq(T) /\ b \in Seq(T)
          BY <4>0 DEF Conversation
        <5>2. a \o b \in Seq(T) /\ Len(a \o b) = Len(a) + Len(b)
          <6> HIDE DEF T
          <6> QED BY <5>1
        <5> QED BY <5>2 DEF Conversation
      <4> HIDE DEF a, b
      <4> QED BY <4>0, <4>1, <4>2, <4>3
    <3>3. Len(RemoveAt(t, i)) < Len(t)
      BY <3>2 DEF Conversation
    <3> QED BY <3>2, <3>3, FewerIsWithin
  <2>2. Removals(t) = [i \in 1..Len(t) |-> RemoveAt(t, i)]
    BY <1>2 DEF Removals
  <2>3. Len(t) \in Nat
    BY DEF Conversation
  <2> HIDE DEF Conversation
  <2> QED BY <2>1, <2>2, <2>3
<1> QED BY <1>1, <1>2

(* Messages in the place of turn i.                                        *)
LEMMA ReplacingKeepsTurns ==
  ASSUME NEW t \in Conversation, NEW i \in 1..Len(t),
         NEW messages \in Seq(Seq(Letter))
  PROVE  Replacing(t, i, messages) \in Seq(AsLong(t))
<1>1. ASSUME NEW j \in 1..Len(messages)
      PROVE  [t EXCEPT ![i] = messages[j]] \in AsLong(t)
  <2>1. messages[j] \in Seq(Letter)
    OBVIOUS
  <2> QED BY <2>1 DEF Conversation, AsLong
<1> QED BY <1>1 DEF Replacing

(* Messages no longer than the one they replace.                           *)
LEMMA ReplacingWithin ==
  ASSUME NEW t \in Conversation, NEW i \in 1..Len(t),
         NEW messages \in Seq(Seq(Letter)),
         \A j \in 1..Len(messages) : Len(messages[j]) <= Len(t[i])
  PROVE  Replacing(t, i, messages) \in Seq(Within(t))
<1>1. ASSUME NEW j \in 1..Len(messages)
      PROVE  [t EXCEPT ![i] = messages[j]] \in Within(t)
  <2> DEFINE c == [t EXCEPT ![i] = messages[j]]
  <2>1. messages[j] \in Seq(Letter)
    OBVIOUS
  <2>2. c \in Conversation /\ Len(c) = Len(t)
    BY <2>1 DEF Conversation
  <2>3. ASSUME NEW k \in 1..Len(t) PROVE Len(c[k]) <= Len(t[k])
    <3>1. CASE k = i
      <4>1. c[k] = messages[j]
        BY <3>1 DEF Conversation
      <4> QED BY <3>1, <4>1
    <3>2. CASE k # i
      <4>1. c[k] = t[k] /\ t[k] \in Seq(Letter)
        BY <3>2 DEF Conversation
      <4>2. Len(t[k]) \in Nat
        BY <4>1
      <4> QED BY <4>1, <4>2
    <3> QED BY <3>1, <3>2
  <2>4. c \in Within(t)
    <3> HIDE DEF c
    <3> QED BY <2>2, <2>3, LeanerIsWithin
  <2> QED BY <2>4
<1> QED BY <1>1 DEF Replacing

(* A change of case makes a message of a message.                          *)
LEMMA CaseType ==
  ASSUME NEW msg \in Seq(Letter)
  PROVE  Lower(msg) \in Seq(Letter) /\ Upper(msg) \in Seq(Letter)
<1>1. Len(msg) \in Nat /\ \A i \in 1..Len(msg) : msg[i] \in Letter
  OBVIOUS
<1>2. \A c \in Letter : LowerCase(c) \in Seq(Letter) /\ UpperCase(c) \in Seq(Letter)
  <2> SUFFICES ASSUME NEW c \in Letter
               PROVE  LowerCase(c) \in Seq(Letter) /\ UpperCase(c) \in Seq(Letter)
    OBVIOUS
  <2>1. /\ c \in {"a", "A", "sharp s", "dotted I"}
        /\ \A d \in {"a", "A", "sharp s", "dotted I"} : d \in Letter
    BY DEF Letter
  <2>2. LowerCase(c) \in {<<"a">>, <<"a", "a">>, <<c>>}
    BY <2>1 DEF LowerCase
  <2>3. UpperCase(c) \in {<<"A">>, <<"A", "A">>, <<c>>}
    BY <2>1 DEF UpperCase
  <2>4. \A x, y \in Letter : <<x>> \in Seq(Letter) /\ <<x, y>> \in Seq(Letter)
    <3> HIDE DEF Letter
    <3> QED OBVIOUS
  <2>5. <<"a">> \in Seq(Letter) /\ <<"a", "a">> \in Seq(Letter) /\ <<c>> \in Seq(Letter)
    BY <2>1, <2>4, Zenon
  <2>6. <<"A">> \in Seq(Letter) /\ <<"A", "A">> \in Seq(Letter)
    BY <2>1, <2>4, Zenon
  <2> QED BY <2>2, <2>3, <2>5, <2>6, Zenon
<1>3. /\ [i \in 1..Len(msg) |-> LowerCase(msg[i])] \in Seq(Seq(Letter))
      /\ [i \in 1..Len(msg) |-> UpperCase(msg[i])] \in Seq(Seq(Letter))
  BY <1>1, <1>2
<1> QED BY <1>3, FlattenSeqType DEF Lower, Upper

LEMMA VariantsType ==
  ASSUME NEW msg \in Seq(Letter)
  PROVE  Variants(msg) \in Seq(Seq(Letter))
<1> DEFINE M == Seq(Letter)
           x == IF Len(msg) > 1 THEN <<Front(msg)>> ELSE <<>>
           y == IF Lower(msg) # msg THEN <<Lower(msg)>> ELSE <<>>
           z == IF Upper(msg) # msg THEN <<Upper(msg)>> ELSE <<>>
<1>1. Len(msg) > 1 => Front(msg) \in M
  BY DEF Front
<1>2. x \in Seq(M) /\ y \in Seq(M) /\ z \in Seq(M)
  <2> HIDE DEF M
  <2> QED BY <1>1, CaseType DEF M
<1>3. Variants(msg) = x \o y \o z
  BY DEF Variants
<1> HIDE DEF M, x, y, z
<1> QED BY <1>2, <1>3 DEF M

LEMMA SimplificationsKeepTurns ==
  ASSUME NEW t \in Conversation
  PROVE  Simplifications(t) \in Seq(AsLong(t))
<1> DEFINE Of(i) == Replacing(t, i, Variants(t[i]))
<1>1. ASSUME NEW i \in 1..Len(t) PROVE Of(i) \in Seq(AsLong(t))
  <2>1. t[i] \in Seq(Letter)
    BY DEF Conversation
  <2> QED BY <2>1, VariantsType, ReplacingKeepsTurns
<1>2. Len(t) \in Nat
  BY DEF Conversation
<1>3. [i \in 1..Len(t) |-> Of(i)] \in Seq(Seq(AsLong(t)))
  <2> HIDE DEF Of
  <2> QED BY <1>1, <1>2
<1>4. Simplifications(t) = FlattenSeq([i \in 1..Len(t) |-> Of(i)])
  BY DEF Simplifications
<1> QED BY <1>3, <1>4, FlattenSeqType

(* A budget cuts a batch off, but not down to nothing.                     *)
LEMMA TakeFacts ==
  ASSUME NEW S, NEW cands \in Seq(S), NEW limit \in Nat \cup {Unlimited}
  PROVE  /\ Take(cands, limit) \in Seq(S)
         /\ limit # Unlimited => Len(Take(cands, limit)) <= limit
         /\ limit = Unlimited => Take(cands, limit) = cands
<1>1. CASE limit = Unlimited \/ limit >= Len(cands)
  BY <1>1 DEF Take, Unlimited
<1>2. CASE ~(limit = Unlimited \/ limit >= Len(cands))
  <2>1. Take(cands, limit) = SubSeq(cands, 1, limit)
    BY <1>2 DEF Take
  <2>2. limit \in Nat /\ limit <= Len(cands)
    BY <1>2 DEF Unlimited
  <2> QED BY <2>1, <2>2, <1>2
<1> QED BY <1>1, <1>2

(* min is one of the winners.                                              *)
LEMMA BestWins ==
  ASSUME NEW cands \in Seq(Conversation), NEW wins \in SUBSET DOMAIN cands, wins # {}
  PROVE  \E i \in wins : Best(cands, wins) = cands[i]
<1> DEFINE L(i) == Len(cands[i])
           C(i) == Chars(cands[i])
<1>1. \A i \in wins : cands[i] \in Conversation /\ i \in Nat
  OBVIOUS
<1>2. \A i \in wins : L(i) \in Nat /\ C(i) \in Nat
  BY <1>1, CharsType DEF Conversation
<1>3. PICK a \in wins : \A j \in wins : ~(L(j) < L(a))
  <2> HIDE DEF L
  <2> DEFINE T == {L(i) : i \in wins}
  <2>1. T \subseteq Nat /\ T # {}
    BY <1>2
  <2>2. \E x \in T : \A y \in T : ~(y < x)
    <3> HIDE DEF T
    <3> QED BY <2>1, LeastNat
  <2> QED BY <2>2
<1> DEFINE W == {i \in wins : L(i) = L(a)}
<1>4. PICK b \in W : \A j \in W : ~(C(j) < C(b))
  <2> HIDE DEF L, C
  <2> DEFINE T == {C(i) : i \in W}
  <2>1. T \subseteq Nat /\ T # {}
    BY <1>2
  <2>2. \E x \in T : \A y \in T : ~(y < x)
    <3> HIDE DEF T
    <3> QED BY <2>1, LeastNat
  <2> QED BY <2>2
<1> DEFINE V == {i \in W : C(i) = C(b)}
<1>5. PICK c \in V : \A j \in V : ~(j < c)
  <2> HIDE DEF L, C
  <2>1. V \subseteq Nat /\ V # {}
    BY <1>1
  <2> HIDE DEF V
  <2> QED BY <2>1, LeastNat
<1>6. \A j \in wins : \/ Smaller(cands[c], cands[j])
                      \/ ~Smaller(cands[j], cands[c]) /\ c <= j
  <2> SUFFICES ASSUME NEW j \in wins
               PROVE  \/ Smaller(cands[c], cands[j])
                      \/ ~Smaller(cands[j], cands[c]) /\ c <= j
    OBVIOUS
  <2>1. /\ L(c) = L(a) /\ C(c) = C(b) /\ L(j) \in Nat /\ C(j) \in Nat
        /\ L(c) \in Nat /\ C(c) \in Nat /\ j \in Nat /\ c \in Nat
    BY <1>1, <1>2
  <2>2. ~(L(j) < L(c)) /\ (L(j) = L(c) => ~(C(j) < C(c)))
    <3> HIDE DEF L, C
    <3> QED BY <1>3, <1>4, <2>1
  <2>3. L(j) = L(c) /\ C(j) = C(c) => ~(j < c)
    <3> HIDE DEF L, C
    <3> QED BY <1>5, <2>1
  <2> QED BY <2>1, <2>2, <2>3 DEF Smaller
<1>7. c \in wins
  OBVIOUS
<1> QED BY <1>6, <1>7 DEF Best

(* A shorter message proposed for turn i.                                  *)
LEMMA ProposalsWithin ==
  ASSUME NEW t \in Conversation, NEW i \in 1..Len(t),
         MaxProposals \in Nat, NEW messages \in Proposals(t[i])
  PROVE  Replacing(t, i, messages) \in Seq(Within(t))
<1>0. t[i] \in Seq(Letter) /\ Len(t[i]) \in Nat
  BY DEF Conversation
<1> DEFINE M == {m \in Seq(Letter) : Len(m) <= Len(t[i])}
<1>1. UNION {[1..k -> Letter] : k \in 1..(Len(t[i]) - 1)} \subseteq M
  <2> SUFFICES ASSUME NEW k \in 1..(Len(t[i]) - 1), NEW m \in [1..k -> Letter]
               PROVE  m \in M
    OBVIOUS
  <2>1. k \in Nat /\ k <= Len(t[i])
    BY <1>0
  <2>2. m \in Seq(Letter) /\ Len(m) = k
    BY <2>1
  <2> QED BY <2>1, <2>2
<1>2. PICK n \in 0..MaxProposals :
        messages \in [1..n -> UNION {[1..k -> Letter] : k \in 1..(Len(t[i]) - 1)}]
  BY DEF Proposals
<1>3. messages \in [1..n -> M] /\ n \in Nat
  <2> HIDE DEF M
  <2> QED BY <1>1, <1>2
<1>4. messages \in Seq(M) /\ Len(messages) = n
  <2> HIDE DEF M
  <2> QED BY <1>3
<1>5. messages \in Seq(Seq(Letter))
      /\ \A j \in 1..Len(messages) : messages[j] \in M
  BY <1>3, <1>4
<1> QED BY <1>5, ReplacingWithin

-----------------------------------------------------------------------------
(* The inductive invariant.                                                *)

WithoutLlm == \A p \in 1..Len(passes) : passes[p] # "llm_semantic_simplify"

(* What has been spent of the cap covers what is reported and, without an  *)
(* LLM pass, what was verified.                                            *)
Accounts ==
  /\ cap = Unlimited => budget = Unlimited
  /\ cap # Unlimited => /\ budget \in 0..cap
                        /\ total <= cap - budget
                        /\ WithoutLlm => batches <= cap - budget

(* A deterministic agent does not contradict itself.                       *)
Consistent == ~Flaky => reproduced \cap refuted = {}

(* After the last pass: it has seen every removal fail.                    *)
Exhausted ==
  /\ pass = Len(passes) + 1
  /\ state # "raised"
  /\ cap = Unlimited
  /\ passes[Len(passes)] = "remove_user_turns"
  => \A i \in DOMAIN Removals(turns) : Removals(turns)[i] \in refuted

DoneWhenOver == state = "done" => pass > Len(passes) \/ budget = 0

OriginalFailed == original \in reproduced

IInv ==
  /\ TypeOK
  /\ ResultReproduced
  /\ OriginalFailed
  /\ Accounts
  /\ Consistent
  /\ Exhausted
  /\ DoneWhenOver

(* What verifying a batch does to the histories.                           *)
LEMMA VerifiedFacts ==
  ASSUME IInv, NEW S, S \subseteq Conversation,
         NEW cands \in Seq(S), cands # <<>>,
         NEW wins \in Outcomes(cands), Verified(cands, wins)
  PROVE  /\ reproduced \subseteq reproduced' /\ refuted \subseteq refuted'
         /\ reproduced' \subseteq Conversation
         /\ refuted' \subseteq Conversation
         /\ Consistent'
         /\ wins # {} => /\ Best(cands, wins) \in S
                         /\ Best(cands, wins) \in reproduced'
         /\ wins = {} => \A i \in DOMAIN cands : cands[i] \in refuted'
         /\ batches' \in 0..MaxCount
         /\ batches' <= batches + 1
         /\ Len(cands) \in Nat \ {0}
<1>1. wins \in SUBSET DOMAIN cands
  BY DEF Outcomes
<1>2. \A i \in DOMAIN cands : cands[i] \in S
  OBVIOUS
<1>3. cands \in Seq(Conversation) /\ Len(cands) \in Nat \ {0}
  OBVIOUS
<1>4. /\ reproduced' = reproduced \cup {cands[i] : i \in wins}
      /\ refuted' = refuted \cup {cands[i] : i \in DOMAIN cands \ wins}
  BY DEF Verified
<1>5. Consistent'
  <2> SUFFICES ASSUME ~Flaky, NEW c \in reproduced', c \in refuted' PROVE FALSE
    BY DEF Consistent
  <2>1. reproduced \cap refuted = {}
    BY DEF IInv, Consistent
  <2>2. /\ \A i, j \in DOMAIN cands : cands[i] = cands[j] /\ i \in wins => j \in wins
        /\ \A i \in DOMAIN cands :
             /\ cands[i] \in reproduced => i \in wins
             /\ cands[i] \in refuted => i \notin wins
    BY DEF Outcomes
  <2>3. CASE c \in reproduced
    BY <1>1, <1>4, <2>1, <2>2, <2>3
  <2>4. CASE \E i \in wins : c = cands[i]
    BY <1>1, <1>4, <2>2, <2>4
  <2> QED BY <1>4, <2>3, <2>4
<1>6. wins # {} => /\ Best(cands, wins) \in S
                   /\ Best(cands, wins) \in reproduced'
  BY <1>1, <1>2, <1>3, <1>4, BestWins
<1>7. batches' \in 0..MaxCount /\ batches' <= batches + 1
  <2>1. MaxCount \in Nat \ {0}
    BY ShrinkAssumption
  <2>2. batches \in 0..MaxCount
    BY DEF IInv, TypeOK
  <2>3. batches' = Counted(batches, 1)
    BY DEF Verified
  <2> QED BY <2>1, <2>2, <2>3 DEF Counted
<1>8. reproduced \subseteq Conversation /\ refuted \subseteq Conversation
  BY DEF IInv, TypeOK, Conversation
<1> QED BY <1>1, <1>2, <1>3, <1>4, <1>5, <1>6, <1>7, <1>8

(* The batch of a deterministic round.                                     *)
LEMMA CandidatesFacts ==
  ASSUME IInv, NEW kind \in {"remove_user_turns", "simplify_user_messages"}
  PROVE  /\ Candidates(kind) \in Seq(Leads(kind, turns))
         /\ cap # Unlimited => Len(Candidates(kind)) <= budget
         /\ cap = Unlimited /\ kind = "remove_user_turns"
              => Candidates(kind) = Removals(turns)
<1>1. turns \in Conversation /\ budget \in Nat \cup {Unlimited}
      /\ (cap = Unlimited <=> budget = Unlimited)
  BY DEF IInv, TypeOK, Conversation, Accounts, Unlimited
<1> DEFINE all == IF kind = "remove_user_turns" THEN Removals(turns)
                                                ELSE Simplifications(turns)
<1>2. all \in Seq(Leads(kind, turns))
  BY <1>1, RemovalsWithin, SimplificationsKeepTurns DEF Leads
<1>3. Candidates(kind) = Take(all, budget)
  BY DEF Candidates
<1>4. kind = "remove_user_turns" => all = Removals(turns)
  OBVIOUS
<1> HIDE DEF all
<1> QED BY <1>1, <1>2, <1>3, <1>4, TakeFacts

LEMMA InitIInv == Init => IInv
<1> SUFFICES ASSUME Init PROVE IInv
  OBVIOUS
<1> USE ShrinkAssumption
<1>1. /\ original \in Conversation /\ passes \in Seq(PassKind) /\ passes # <<>>
      /\ <<passes, cap>> \in Settings
      /\ cap \in (Nat \ {0}) \cup {Unlimited}
  <2>1. PICK s \in Settings : passes = s[1] /\ cap = s[2]
    BY DEF Init
  <2>2. s \in (Seq(PassKind) \ {<<>>}) \X ((Nat \ {0}) \cup {Unlimited})
    OBVIOUS
  <2>3. s = <<s[1], s[2]>>
    BY <2>2
  <2>4. <<passes, cap>> \in Settings
    BY <2>1, <2>3
  <2>5. /\ passes \in Seq(PassKind) /\ passes # <<>>
        /\ cap \in (Nat \ {0}) \cup {Unlimited}
    BY <2>1, <2>2
  <2>6. original \in Conversation
    BY DEF Init, Conversation
  <2> QED BY <2>4, <2>5, <2>6
<1>2. Len(passes) \in Nat \ {0}
  BY <1>1
<1>3. TypeOK
  BY <1>1, <1>2 DEF Init, TypeOK, Conversation, Unlimited
<1>4. cap # Unlimited => cap \in Nat
  BY DEF Init
<1> QED BY <1>2, <1>3, <1>4 DEF Init, IInv, ResultReproduced, Accounts, Consistent,
                               Exhausted, DoneWhenOver,
                               OriginalFailed

(* What a step leaves alone and every action's proof needs.                *)
LEMMA IInvFacts ==
  ASSUME IInv
  PROVE  /\ turns \in Conversation /\ original \in Conversation
         /\ passes \in Seq(PassKind) /\ passes # <<>>
         /\ Len(passes) \in Nat \ {0}
         /\ cap \in Nat \cup {Unlimited}
         /\ budget \in Nat \cup {Unlimited}
         /\ total \in Nat /\ batches \in Nat /\ tried \in Nat
         /\ MaxCount \in Nat \ {0}
<1> QED BY ShrinkAssumption DEF IInv, TypeOK, Conversation

LEMMA DeterministicRoundStep ==
  ASSUME IInv, NEW kind \in {"remove_user_turns", "simplify_user_messages"},
         DeterministicRound(kind)
  PROVE  IInv' /\ Grows
<1> DEFINE cands == Candidates(kind)
<1>0. /\ cands \in Seq(Leads(kind, turns)) /\ cands # <<>>
      /\ cap # Unlimited => Len(cands) <= budget
      /\ cap = Unlimited /\ kind = "remove_user_turns" => cands = Removals(turns)
  BY CandidatesFacts DEF DeterministicRound
<1> HIDE DEF cands
<1>1. PICK wins \in Outcomes(cands) :
        /\ Verified(cands, wins)
        /\ budget' = Spend(budget, Len(cands))
        /\ total' = Counted(total, Len(cands))
        /\ turns' = IF wins # {} THEN Best(cands, wins) ELSE turns
        /\ pass' = IF wins # {} THEN pass ELSE pass + 1
  BY DEF DeterministicRound, Round, cands
<1>2. /\ state = "shrinking" /\ pass <= Len(passes) /\ passes[pass] = kind /\ budget # 0
      /\ UNCHANGED <<original, passes, cap, at, tried, state>>
  BY DEF DeterministicRound, Running, given
<1>3. Leads(kind, turns) \subseteq Conversation
  BY DEF Within, AsLong, Leads
<1>4. /\ reproduced \subseteq reproduced' /\ refuted \subseteq refuted'
      /\ reproduced' \subseteq Conversation /\ refuted' \subseteq Conversation
      /\ Consistent'
      /\ wins # {} => /\ Best(cands, wins) \in Leads(kind, turns)
                      /\ Best(cands, wins) \in reproduced'
      /\ wins = {} => \A i \in DOMAIN cands : cands[i] \in refuted'
      /\ batches' \in 0..MaxCount
      /\ batches' <= batches + 1
      /\ Len(cands) \in Nat \ {0}
  <2> HIDE DEF Verified, Outcomes, Consistent
  <2> QED BY <1>0, <1>1, <1>3, VerifiedFacts
<1>5. pass \in 1..(Len(passes) + 1)
  BY DEF IInv, TypeOK
<1>6. turns' \in Conversation /\ turns' \in reproduced'
  <2>1. CASE wins = {}
    BY <2>1, <1>1, <1>4, IInvFacts DEF IInv, ResultReproduced
  <2>2. CASE wins # {}
    BY <2>2, <1>1, <1>3, <1>4
  <2> QED BY <2>1, <2>2
<1>7. Grows
  <2>1. ~Smaller(turns, turns)
    BY IInvFacts, CharsType DEF Smaller, Conversation
  <2>2. turns' # turns => turns' \in Leads(kind, turns)
    BY <1>1, <1>4
  <2> QED BY <2>1, <2>2, <1>2 DEF Within, AsLong, Leads, Grows
<1>8. Accounts' /\ budget' \in Nat \cup {Unlimited} /\ total' \in 0..MaxCount
  <2>1. total' \in 0..MaxCount /\ total' <= total + Len(cands)
    BY <1>1, <1>4, IInvFacts DEF Counted
  <2>2. CASE cap = Unlimited
    <3>1. budget = Unlimited
      BY <2>2 DEF IInv, Accounts
    <3>2. budget' = Unlimited
      BY <3>1, <1>1 DEF Spend
    <3> QED BY <2>1, <2>2, <3>2, <1>2 DEF Accounts
  <2>3. CASE cap # Unlimited
    <3>1. budget \in 0..cap /\ total <= cap - budget
          /\ (WithoutLlm => batches <= cap - budget)
      BY <2>3 DEF IInv, Accounts
    <3>2. budget' = budget - Len(cands)
      BY <3>1, <1>1 DEF Spend, Unlimited
    <3>3. cap \in Nat /\ cap' = cap /\ budget \in Nat
      BY <2>3, <3>1, <1>2, IInvFacts
    <3>4. budget' \in 0..cap
      BY <3>1, <3>2, <3>3, <2>3, <1>0, <1>4
    <3>5. total' <= cap - budget'
      BY <3>1, <3>2, <3>3, <2>1, <1>4, IInvFacts
    <3>6. WithoutLlm => batches' <= cap - budget'
      BY <3>1, <3>2, <3>3, <1>4, IInvFacts
    <3>7. WithoutLlm' = WithoutLlm
      BY <1>2 DEF WithoutLlm
    <3>8. budget' \in Nat
      BY <3>3, <3>4
    <3>9. cap' # Unlimited
      BY <2>3, <3>3
    <3>10. Accounts'
      <4> HIDE DEF WithoutLlm
      <4> QED BY <3>3, <3>4, <3>5, <3>6, <3>7, <3>9 DEF Accounts
    <3> QED BY <2>1, <3>8, <3>10
  <2> QED BY <2>2, <2>3
<1>9. TypeOK'
  <2>1. pass' \in 1..(Len(passes) + 1)
    BY <1>1, <1>2, <1>5, IInvFacts
  <2>2. /\ original \in Originals /\ <<passes, cap>> \in Settings
        /\ at \in Nat \ {0} /\ tried \in 0..MaxCount
        /\ state \in {"shrinking", "done", "raised"}
    BY DEF IInv, TypeOK
  <2> HIDE DEF Accounts
  <2> QED BY <1>2, <1>4, <1>6, <1>8, <2>1, <2>2 DEF TypeOK, Conversation
<1>10. Exhausted'
  <2> SUFFICES ASSUME pass' = Len(passes) + 1, cap = Unlimited,
                      passes[Len(passes)] = "remove_user_turns"
               PROVE  \A i \in DOMAIN Removals(turns') : Removals(turns')[i] \in refuted'
    BY <1>2 DEF Exhausted
  <2>1. wins = {} /\ pass = Len(passes)
    BY <1>1, <1>2, <1>5, IInvFacts
  <2>2. turns' = turns /\ cands = Removals(turns)
    BY <2>1, <1>0, <1>1, <1>2
  <2> QED BY <2>1, <2>2, <1>4
<1> QED BY <1>2, <1>4, <1>6, <1>7, <1>8, <1>9, <1>10
        DEF IInv, ResultReproduced, OriginalFailed, DoneWhenOver

LEMMA DeterministicPassEndsStep ==
  ASSUME IInv, NEW kind \in {"remove_user_turns", "simplify_user_messages"},
         DeterministicPassEnds(kind)
  PROVE  IInv' /\ ~Smaller(turns, turns')
<1>1. /\ Candidates(kind) = <<>> /\ pass' = pass + 1
      /\ pass \in 1..Len(passes) /\ passes[pass] = kind /\ state = "shrinking"
      /\ UNCHANGED <<original, passes, cap, turns, budget, total, at, tried, state,
                     reproduced, refuted, batches>>
  BY DEF DeterministicPassEnds, Running, given, IInv, TypeOK
<1>2. TypeOK'
  <2>1. pass' \in 1..(Len(passes) + 1)
    BY <1>1, IInvFacts
  <2> QED BY <1>1, <2>1 DEF IInv, TypeOK
<1>3. Exhausted'
  <2> SUFFICES ASSUME pass' = Len(passes) + 1, cap = Unlimited,
                      passes[Len(passes)] = "remove_user_turns"
               PROVE  \A i \in DOMAIN Removals(turns) : Removals(turns)[i] \in refuted
    BY <1>1 DEF Exhausted
  <2>1. pass = Len(passes)
    BY <1>1, IInvFacts
  <2>2. Removals(turns) = <<>>
    BY <1>1, <2>1, CandidatesFacts
  <2> QED BY <2>2
<1>4. ~Smaller(turns, turns')
  BY <1>1, IInvFacts, CharsType DEF Smaller, Conversation
<1> QED BY <1>1, <1>2, <1>3, <1>4
        DEF IInv, ResultReproduced, OriginalFailed, Accounts, WithoutLlm, Consistent,
            DoneWhenOver

LEMMA ProposeStep ==
  ASSUME IInv, Propose
  PROVE  IInv' /\ ~Smaller(turns, turns')
<1>1. /\ pass \in 1..Len(passes) /\ passes[pass] = "llm_semantic_simplify"
      /\ state = "shrinking" /\ at \in 1..Len(turns)
      /\ UNCHANGED <<original, passes, cap, pass, budget, total, state>>
  BY IInvFacts DEF Propose, LlmRunning, Running, given, IInv, TypeOK
<1>2. PICK messages \in Proposals(turns[at]) :
        LET cands == Replacing(turns, at, messages) IN
        IF cands = <<>>
        THEN at' = at + 1 /\ UNCHANGED <<turns, tried, reproduced, refuted, batches>>
        ELSE \E wins \in Outcomes(cands) :
               /\ Verified(cands, wins)
               /\ tried' = Counted(tried, Len(cands))
               /\ IF wins # {}
                  THEN turns' = Best(cands, wins) /\ at' = 1
                  ELSE at' = at + 1 /\ UNCHANGED turns
  BY DEF Propose
<1> DEFINE cands == Replacing(turns, at, messages)
<1>3. cands \in Seq(Within(turns))
  BY <1>1, ProposalsWithin, IInvFacts, ShrinkAssumption
<1>4. Within(turns) \subseteq Conversation
  BY DEF Within
<1>5. ~Smaller(turns, turns)
  BY IInvFacts, CharsType DEF Smaller, Conversation
<1>6. /\ reproduced \subseteq reproduced' /\ refuted \subseteq refuted'
      /\ reproduced' \subseteq Conversation /\ refuted' \subseteq Conversation
      /\ Consistent'
      /\ turns' \in Conversation /\ turns' \in reproduced' /\ ~Smaller(turns, turns')
      /\ batches' \in 0..MaxCount
      /\ tried' \in 0..MaxCount
      /\ at' \in Nat \ {0}
  <2>1. CASE cands = <<>>
    <3>1. at' = at + 1 /\ UNCHANGED <<turns, tried, reproduced, refuted, batches>>
      BY <1>2, <2>1
    <3> QED BY <3>1, <1>1, <1>5, IInvFacts
            DEF IInv, TypeOK, ResultReproduced, Consistent, Conversation
  <2>2. CASE cands # <<>>
    <3>1. PICK wins \in Outcomes(cands) :
            /\ Verified(cands, wins)
            /\ tried' = Counted(tried, Len(cands))
            /\ IF wins # {} THEN turns' = Best(cands, wins) /\ at' = 1
                            ELSE at' = at + 1 /\ UNCHANGED turns
      BY <1>2, <2>2
    <3> HIDE DEF cands
    <3>2. /\ reproduced \subseteq reproduced' /\ refuted \subseteq refuted'
          /\ reproduced' \subseteq Conversation /\ refuted' \subseteq Conversation
          /\ Consistent'
          /\ wins # {} => /\ Best(cands, wins) \in Within(turns)
                          /\ Best(cands, wins) \in reproduced'
          /\ batches' \in 0..MaxCount
          /\ Len(cands) \in Nat \ {0}
      <4> HIDE DEF Verified, Outcomes, Consistent
      <4> QED BY <1>3, <1>4, <2>2, <3>1, VerifiedFacts
    <3>3. tried' \in 0..MaxCount
      BY <3>1, <3>2, IInvFacts DEF Counted
    <3>4. CASE wins = {}
      <4>1. at' = at + 1 /\ turns' = turns
        BY <3>1, <3>4
      <4>2. turns \in reproduced
        BY DEF IInv, ResultReproduced
      <4> HIDE DEF Consistent
      <4> QED BY <1>1, <1>5, <3>2, <3>3, <4>1, <4>2, IInvFacts
    <3>5. CASE wins # {}
      <4>1. at' = 1 /\ turns' = Best(cands, wins)
        BY <3>1, <3>5
      <4>2. turns' \in Conversation /\ ~Smaller(turns, turns')
        BY <3>2, <3>5, <4>1 DEF Within
      <4> HIDE DEF Consistent
      <4> QED BY <3>2, <3>3, <3>5, <4>1, <4>2
    <3> QED BY <3>4, <3>5
  <2> QED BY <2>1, <2>2
<1> HIDE DEF cands
<1>7. TypeOK'
  <2>1. /\ original \in Originals /\ <<passes, cap>> \in Settings
        /\ pass \in 1..(Len(passes) + 1) /\ budget \in Nat \cup {Unlimited}
        /\ total \in 0..MaxCount
    BY DEF IInv, TypeOK
  <2> QED BY <1>1, <1>6, <2>1 DEF TypeOK, Conversation
<1>8. Accounts'
  <2>1. ~WithoutLlm /\ WithoutLlm' = WithoutLlm
    BY <1>1 DEF WithoutLlm
  <2> HIDE DEF WithoutLlm
  <2> QED BY <1>1, <2>1 DEF IInv, Accounts
<1>9. Exhausted'
  BY <1>1, IInvFacts DEF Exhausted
<1> QED BY <1>1, <1>6, <1>7, <1>8, <1>9
        DEF IInv, ResultReproduced, OriginalFailed, DoneWhenOver

LEMMA LlmPassEndsStep ==
  ASSUME IInv, LlmPassEnds
  PROVE  IInv' /\ ~Smaller(turns, turns')
<1> DEFINE n == IF budget = Unlimited \/ tried <= budget THEN tried ELSE budget
<1>1. /\ pass \in 1..Len(passes) /\ passes[pass] = "llm_semantic_simplify"
      /\ state = "shrinking" /\ pass' = pass + 1 /\ at' = 1 /\ tried' = 0
      /\ total' = Counted(total, n) /\ budget' = Spend(budget, n)
      /\ UNCHANGED <<original, passes, cap, turns, state, reproduced, refuted, batches>>
  BY DEF LlmPassEnds, LlmRunning, Running, given, IInv, TypeOK
<1>2. n \in Nat /\ (budget # Unlimited => n <= budget)
  BY IInvFacts
<1> HIDE DEF n
<1>3. total' \in 0..MaxCount /\ total' <= total + n
  BY <1>1, <1>2, IInvFacts DEF Counted
<1>4. /\ budget = Unlimited => budget' = Unlimited
      /\ budget # Unlimited => budget' = budget - n /\ budget' \in Nat
  BY <1>1, <1>2, IInvFacts DEF Spend, Unlimited
<1>5. TypeOK'
  <2>1. pass' \in 1..(Len(passes) + 1)
    BY <1>1, IInvFacts
  <2>2. budget' \in Nat \cup {Unlimited}
    BY <1>4
  <2>3. tried' \in 0..MaxCount
    BY <1>1, IInvFacts
  <2> QED BY <1>1, <1>3, <2>1, <2>2, <2>3 DEF IInv, TypeOK
<1>6. Accounts'
  <2>1. ~WithoutLlm'
    BY <1>1 DEF WithoutLlm
  <2> HIDE DEF WithoutLlm
  <2>2. CASE cap = Unlimited
    BY <1>1, <1>4, <2>1, <2>2 DEF IInv, Accounts
  <2>3. CASE cap # Unlimited
    <3>1. budget \in 0..cap /\ total <= cap - budget /\ cap \in Nat
      BY <2>3, IInvFacts DEF IInv, Accounts
    <3>2. budget' = budget - n /\ budget' \in Nat
      BY <1>4, <3>1 DEF Unlimited
    <3>3. budget' \in 0..cap /\ total' <= cap - budget'
      BY <1>2, <1>3, <3>1, <3>2, IInvFacts
    <3> QED BY <1>1, <2>1, <2>3, <3>3 DEF Accounts
  <2> QED BY <2>2, <2>3
<1>7. Exhausted'
  BY <1>1, IInvFacts DEF Exhausted
<1>8. ~Smaller(turns, turns')
  BY <1>1, IInvFacts, CharsType DEF Smaller, Conversation
<1> QED BY <1>1, <1>5, <1>6, <1>7, <1>8
        DEF IInv, ResultReproduced, OriginalFailed, Consistent, DoneWhenOver

LEMMA LlmUnavailableStep ==
  ASSUME IInv, LlmUnavailable
  PROVE  IInv' /\ ~Smaller(turns, turns')
<1>1. /\ pass \in 1..Len(passes) /\ passes[pass] = "llm_semantic_simplify"
      /\ state = "shrinking" /\ pass' = pass + 1
      /\ UNCHANGED <<original, passes, cap, turns, budget, total, at, tried, state,
                     reproduced, refuted, batches>>
  BY DEF LlmUnavailable, LlmRunning, Running, given, IInv, TypeOK
<1>2. TypeOK'
  <2>1. pass' \in 1..(Len(passes) + 1)
    BY <1>1, IInvFacts
  <2> QED BY <1>1, <2>1 DEF IInv, TypeOK
<1>3. Exhausted'
  BY <1>1, IInvFacts DEF Exhausted
<1>4. ~Smaller(turns, turns')
  BY <1>1, IInvFacts, CharsType DEF Smaller, Conversation
<1> QED BY <1>1, <1>2, <1>3, <1>4
        DEF IInv, ResultReproduced, OriginalFailed, Accounts, WithoutLlm, Consistent,
            DoneWhenOver

LEMMA ReturnStep ==
  ASSUME IInv, Return
  PROVE  IInv' /\ ~Smaller(turns, turns')
<1>1. /\ state = "shrinking" /\ state' = "done"
      /\ pass > Len(passes) \/ budget = 0
      /\ UNCHANGED <<original, passes, cap, turns, pass, budget, total, at, tried,
                     reproduced, refuted, batches>>
  BY DEF Return, given
<1>2. TypeOK'
  BY <1>1 DEF IInv, TypeOK
<1>3. Exhausted'
  BY <1>1 DEF IInv, Exhausted
<1>4. ~Smaller(turns, turns')
  BY <1>1, IInvFacts, CharsType DEF Smaller, Conversation
<1> QED BY <1>1, <1>2, <1>3, <1>4
        DEF IInv, ResultReproduced, OriginalFailed, Accounts, WithoutLlm, Consistent,
            DoneWhenOver

LEMMA VerificationRaisesStep ==
  ASSUME IInv, VerificationRaises
  PROVE  IInv' /\ state' = "raised"
<1>1. /\ state = "shrinking" /\ state' = "raised" /\ turns' = original
      /\ UNCHANGED <<original, passes, cap, pass, budget, total, at, tried,
                     reproduced, refuted, batches>>
  BY DEF VerificationRaises, given
<1>2. TypeOK'
  BY <1>1, IInvFacts DEF IInv, TypeOK, Conversation
<1> QED BY <1>1, <1>2
        DEF IInv, ResultReproduced, OriginalFailed, Accounts, WithoutLlm, Consistent,
            DoneWhenOver, Exhausted

(* Every step keeps the invariant and, short of falling back, only grows   *)
(* by rewriting.                                                           *)
LEMMA NextIInv ==
  IInv /\ [Next]_vars => /\ IInv'
                         /\ state' # "raised" \/ UNCHANGED vars => Grows
<1> SUFFICES ASSUME IInv, [Next]_vars
             PROVE  /\ IInv'
                    /\ state' # "raised" \/ UNCHANGED vars => Grows
  OBVIOUS
<1>1. ASSUME NEW kind \in {"remove_user_turns", "simplify_user_messages"},
             DeterministicRound(kind) \/ DeterministicPassEnds(kind)
      PROVE  IInv' /\ Grows
  BY <1>1, DeterministicRoundStep, DeterministicPassEndsStep DEF Grows
<1>2. CASE Propose
  BY <1>2, ProposeStep DEF Grows
<1>3. CASE LlmPassEnds
  BY <1>3, LlmPassEndsStep DEF Grows
<1>4. CASE LlmUnavailable
  BY <1>4, LlmUnavailableStep DEF Grows
<1>5. CASE Return
  BY <1>5, ReturnStep DEF Grows
<1>6. ASSUME VerificationRaises PROVE IInv' /\ state' = "raised" /\ ~UNCHANGED vars
  <2>1. IInv' /\ state' = "raised"
    BY <1>6, VerificationRaisesStep
  <2>2. state = "shrinking"
    BY <1>6 DEF VerificationRaises
  <2> QED BY <2>1, <2>2 DEF vars
<1>7. ASSUME Rest \/ UNCHANGED vars PROVE IInv' /\ Grows
  <2>1. UNCHANGED <<original, passes, cap, turns, pass, budget, total, at, tried, state,
                    reproduced, refuted, batches>>
    BY <1>7 DEF Rest, vars
  <2>2. ~Smaller(turns, turns')
    BY <2>1, IInvFacts, CharsType DEF Smaller, Conversation
  <2> QED BY <2>1, <2>2
          DEF IInv, TypeOK, ResultReproduced, OriginalFailed, Accounts, WithoutLlm,
              Consistent, Exhausted, DoneWhenOver, Grows
<1> HIDE DEF IInv
<1> QED BY <1>1, <1>2, <1>3, <1>4, <1>5, <1>6, <1>7 DEF Next

-----------------------------------------------------------------------------
(* The theorems.                                                           *)

(* The inductive invariant holds in every state of a shrink.               *)
THEOREM Invariance == Spec => []IInv
<1>1. Init => IInv
  BY InitIInv
<1>2. IInv /\ [Next]_vars => IInv'
  BY NextIInv
<1> QED BY <1>1, <1>2, PTL DEF Spec

(* Every variable of the shrink engine keeps its type; in particular the   *)
(* budget never becomes negative.                                          *)
THEOREM TypeCorrect == Spec => []TypeOK
<1>1. IInv => TypeOK
  BY DEF IInv
<1> QED BY <1>1, Invariance, PTL

(* For every conversation, list of passes, cap and agent: what shrinking   *)
(* returns is the original or was seen to reproduce the failure.           *)
THEOREM ResultReproducedHolds == Spec => []ResultReproduced
<1>1. IInv => ResultReproduced
  BY DEF IInv
<1> QED BY <1>1, Invariance, PTL

(* For every cap and list of passes: the reported count is within the cap, *)
(* and without an LLM pass so are the batches.                             *)
THEOREM CapHoldsHolds == Spec => []CapHolds
<1>1. IInv => CapHolds
  <2> SUFFICES ASSUME IInv, cap # Unlimited
               PROVE  total <= cap /\ (WithoutLlm => batches <= cap)
    BY DEF CapHolds, WithoutLlm
  <2>1. /\ budget \in 0..cap /\ total <= cap - budget
        /\ WithoutLlm => batches <= cap - budget
    BY DEF IInv, Accounts
  <2> QED BY <2>1, IInvFacts
<1> QED BY <1>1, Invariance, PTL

(* For every conversation and agent: a last pass that removes turns ends   *)
(* with one of which every single removal was seen not to reproduce the    *)
(* failure.                                                                *)
THEOREM OneMinimalHolds == Spec => []OneMinimal
<1>1. IInv => OneMinimal
  <2> SUFFICES ASSUME IInv, state = "done", cap = Unlimited,
                      passes[Len(passes)] = "remove_user_turns",
                      NEW i \in DOMAIN Removals(turns)
               PROVE  /\ Removals(turns)[i] \in refuted
                      /\ ~Flaky => Removals(turns)[i] \notin reproduced
    BY DEF OneMinimal
  <2>1. budget # 0
    BY DEF IInv, Accounts, Unlimited
  <2>2. pass = Len(passes) + 1
    BY <2>1, IInvFacts DEF IInv, TypeOK, DoneWhenOver
  <2>3. Removals(turns)[i] \in refuted
    BY <2>2 DEF IInv, Exhausted
  <2> QED BY <2>3 DEF IInv, Consistent
<1> QED BY <1>1, Invariance, PTL

(* For every conversation and list of passes: no round leaves more turns,  *)
(* and only one of simplify_user_messages leaves as many with more         *)
(* characters.                                                             *)
THEOREM OnlyRewritingGrowsHolds == Spec => OnlyRewritingGrows
<1>1. IInv /\ [Next]_vars
        => [Smaller(turns, turns') /\ state' # "raised"
              => Len(turns') = Len(turns) /\ passes[pass] = "simplify_user_messages"]_vars
  BY NextIInv DEF Grows
<1> QED BY <1>1, Invariance, PTL DEF Spec, OnlyRewritingGrows

=============================================================================
