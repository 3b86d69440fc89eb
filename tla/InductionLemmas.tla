---------------------------- MODULE InductionLemmas ----------------------------
(***************************************************************************)
(* Facts about the natural numbers, about recursive functions and about    *)
(* sequences of sequences that the proofs of the components share.  They   *)
(* rest on the well-foundedness of the natural numbers, which the library  *)
(* states without a parameter.                                             *)
(***************************************************************************)
EXTENDS Integers, Sequences, SequencesExt, WellFoundedInduction, TLAPS

(* A non-empty set of natural numbers has a least element.                *)
LEMMA LeastNat ==
  ASSUME NEW T, T \subseteq Nat, T # {}
  PROVE  \E x \in T : \A y \in T : ~ (y < x)
<1>1. IsWellFoundedOn(OpToRel(<,Nat), Nat)
  BY NatLessThanWellFounded
<1>2. \E x \in T : \A y \in T : ~ (<<y, x>> \in OpToRel(<,Nat))
  BY <1>1, WFMin
<1>3. \A x \in Nat, y \in Nat : y < x => <<y, x>> \in OpToRel(<,Nat)
  BY DEF OpToRel
<1> QED BY <1>2, <1>3

(* Induction over the natural numbers, for a set instead of a predicate:   *)
(* a predicate P is the set {n \in Nat : P(n)}.                            *)
LEMMA SetInduction ==
  ASSUME NEW S, 0 \in S, \A n \in Nat : n \in S => n + 1 \in S
  PROVE  Nat \subseteq S
<1>1. SUFFICES ASSUME Nat \ S # {} PROVE FALSE
  OBVIOUS
<1> DEFINE T == Nat \ S
<1>0. T \subseteq Nat /\ T # {}
  BY <1>1
<1>2. PICK x \in T : \A y \in T : ~ (y < x)
  <2> HIDE DEF T
  <2> QED BY <1>0, LeastNat
<1>3. x # 0
  BY <1>2
<1>4. x - 1 \in Nat /\ x - 1 < x
  BY <1>3
<1>5. x - 1 \in S
  BY <1>2, <1>4
<1> QED BY <1>5, <1>4, <1>2

(* step[k] gives the value at k from that at k - 1.                         *)
Recurs(f, n, base, step) == f[0] = base /\ \A k \in 1..n : f[k] = step[k][f[k-1]]

(* A recursion over 0..n with values in D has a solution.                   *)
LEMMA RecursionSolved ==
  ASSUME NEW n \in Nat, NEW D, NEW base \in D, NEW step \in [1..n -> [D -> D]]
  PROVE  \E f \in [0..n -> D] : Recurs(f, n, base, step)
<1> DEFINE Upto(f, m) == f[0] = base /\ \A k \in 1..m : f[k] = step[k][f[k-1]]
           S == {m \in Nat : m <= n => \E f \in [0..m -> D] : Upto(f, m)}
<1>1. 0 \in S
  <2>1. [i \in 0..0 |-> base] \in [0..0 -> D] /\ Upto([i \in 0..0 |-> base], 0)
    OBVIOUS
  <2> HIDE DEF Upto
  <2> QED BY <2>1
<1>2. ASSUME NEW m \in Nat, m \in S PROVE m + 1 \in S
  <2>1. SUFFICES ASSUME m + 1 <= n PROVE \E f \in [0..(m + 1) -> D] : Upto(f, m + 1)
    OBVIOUS
  <2>2. PICK g \in [0..m -> D] : Upto(g, m)
    <3> HIDE DEF Upto
    <3> QED BY <1>2, <2>1
  <2> DEFINE h == [i \in 0..(m + 1) |-> IF i <= m THEN g[i] ELSE step[m + 1][g[m]]]
  <2>3. m + 1 \in 1..n /\ g[m] \in D
    BY <2>1
  <2>4. step[m + 1][g[m]] \in D
    BY <2>3
  <2>5. h \in [0..(m + 1) -> D]
    BY <2>4
  <2>6. h[0] = base
    BY <2>2
  <2>7. ASSUME NEW k \in 1..(m + 1) PROVE h[k] = step[k][h[k-1]]
    <3>1. h[k - 1] = g[k - 1]
      OBVIOUS
    <3>2. CASE k \in 1..m
      BY <3>1, <3>2, <2>2
    <3>3. CASE k = m + 1
      <4>1. h[m + 1] = step[m + 1][g[m]] /\ h[m] = g[m] /\ (m + 1) - 1 = m
        OBVIOUS
      <4> HIDE DEF h
      <4> QED BY <3>3, <4>1
    <3> QED BY <3>2, <3>3
  <2> QED
    <3> HIDE DEF h
    <3> QED BY <2>5, <2>6, <2>7
<1>3. n \in S
  <2> HIDE DEF S
  <2> QED BY <1>1, <1>2, SetInduction
<1> QED
  <2> HIDE DEF Upto
  <2>1. \E f \in [0..n -> D] : Upto(f, n)
    BY <1>3
  <2> QED BY <2>1 DEF Upto, Recurs

(* Induction over 0..n.                                                     *)
LEMMA UpToInduction ==
  ASSUME NEW n \in Nat, NEW S, 0 \in S, \A i \in 1..n : i - 1 \in S => i \in S
  PROVE  \A i \in 0..n : i \in S
<1> DEFINE T == {k \in Nat : k <= n => k \in S}
<1>1. 0 \in T
  OBVIOUS
<1>2. ASSUME NEW k \in Nat, k \in T PROVE k + 1 \in T
  <2> SUFFICES ASSUME k + 1 <= n PROVE k + 1 \in S
    OBVIOUS
  <2>1. k + 1 \in 1..n /\ (k + 1) - 1 = k /\ k \in S
    BY <1>2
  <2> QED BY <2>1
<1>3. Nat \subseteq T
  <2> HIDE DEF T
  <2> QED BY <1>1, <1>2, SetInduction
<1> QED BY <1>3

(* FlattenSeq(s) is the last of its own partial results.                    *)
Flattens(f, s) ==
  /\ f[0] = <<>>
  /\ \A i \in 1..Len(s) : f[i] = f[i - 1] \o s[i]
  /\ FlattenSeq(s) = f[Len(s)]

LEMMA FlattenParts ==
  ASSUME NEW T, NEW s \in Seq(Seq(T))
  PROVE  \E f \in [0..Len(s) -> Seq(T)] : Flattens(f, s)
<1> DEFINE n == Len(s)
           D == Seq(T)
           e == <<>>
           Def(g, i) == IF i = 1 THEN s[i] ELSE g[i-1] \o s[i]
           F == CHOOSE g : g = [i \in 1..n |-> Def(g, i)]
           step == [k \in 1..n |-> [q \in D |-> q \o s[k]]]
<1>1. n \in Nat /\ e \in D /\ \A k \in 1..n : s[k] \in D
  OBVIOUS
<1>2. step \in [1..n -> [D -> D]] /\ \A k \in 1..n, q \in D : step[k][q] = q \o s[k]
  <2>1. \A k \in 1..n, q \in D : q \o s[k] \in D
    BY <1>1
  <2> HIDE DEF D, n
  <2> QED BY <2>1
<1>3. PICK f \in [0..n -> D] : Recurs(f, n, e, step)
  <2> HIDE DEF n, D, e, step
  <2> QED BY <1>1, <1>2, RecursionSolved
<1>4. f[0] = <<>> /\ \A i \in 1..n : f[i] = f[i - 1] \o s[i]
  <2>1. \A i \in 1..n : f[i] = step[i][f[i - 1]] /\ f[i - 1] \in D
    <3>1. \A i \in 1..n : i - 1 \in 0..n
      BY <1>1
    <3>2. \A i \in 1..n : f[i] = step[i][f[i - 1]]
      BY <1>3, Zenon DEF Recurs
    <3> HIDE DEF D, n
    <3> QED BY <3>1, <3>2
  <2>2. f[0] = e
    BY <1>3 DEF Recurs
  <2> HIDE DEF step, D, n
  <2> QED BY <1>2, <2>1, <2>2
<1>5. FlattenSeq(s) = f[n]
  <2>1. CASE n = 0
    BY <1>4, <2>1 DEF FlattenSeq
  <2>2. CASE n # 0
    <3> DEFINE G == [i \in 1..n |-> f[i]]
    <3>1. \A i \in 1..n : f[i] = Def(G, i)
      <4> TAKE i \in 1..n
      <4>1. CASE i = 1
        <5>1. f[i] = f[i - 1] \o s[i]
          BY <1>4, Zenon
        <5>2. i - 1 = 0 /\ s[i] \in D /\ f[0] = <<>>
          BY <1>1, <1>4, <4>1
        <5>3. f[i] = <<>> \o s[i]
          BY <5>1, <5>2, Zenon
        <5>4. f[i] = s[i]
          BY <5>2, <5>3
        <5> QED BY <4>1, <5>4
      <4>2. CASE i # 1
        <5>1. i - 1 \in 1..n
          BY <4>2, <1>1
        <5>2. G[i - 1] = f[i - 1]
          BY <5>1
        <5> HIDE DEF G
        <5> QED BY <1>4, <4>2, <5>2
      <4> QED BY <4>1, <4>2
    <3>2. G = [i \in 1..n |-> Def(G, i)]
      <4> HIDE DEF Def, n
      <4> QED BY <3>1
    <3>3. F = [i \in 1..n |-> Def(F, i)]
      <4> HIDE DEF Def, n, G
      <4> QED BY <3>2
    <3>4. \A i \in 1..n : F[i] = Def(F, i)
      <4> HIDE DEF Def, n, F
      <4> QED BY <3>3
    <3> HIDE DEF F
    <3> DEFINE S == {i \in 0..n : i # 0 => F[i] = f[i]}
    <3>5. 0 \in S
      BY <1>1
    <3>6. ASSUME NEW i \in 1..n, i - 1 \in S PROVE i \in S
      <4>1. CASE i = 1
        <5>1. f[i] = f[i - 1] \o s[i]
          BY <1>4, Zenon
        <5>2. i - 1 = 0 /\ s[i] \in D /\ f[0] = <<>> /\ i \in 0..n
          BY <1>1, <1>4, <4>1
        <5>3. f[i] = <<>> \o s[i]
          BY <5>1, <5>2, Zenon
        <5>4. f[i] = s[i]
          BY <5>2, <5>3
        <5>5. F[i] = s[i]
          BY <3>4, <4>1
        <5> QED BY <5>2, <5>4, <5>5
      <4>2. CASE i # 1
        <5>1. i - 1 # 0 /\ i \in 0..n
          BY <4>2, <1>1
        <5>2. F[i] = F[i - 1] \o s[i]
          BY <3>4, <4>2
        <5>3. F[i - 1] = f[i - 1]
          BY <3>6, <5>1
        <5> QED BY <1>4, <5>1, <5>2, <5>3
      <4> QED BY <4>1, <4>2
    <3>7. \A i \in 0..n : i \in S
      <4> HIDE DEF S, n
      <4> QED BY <1>1, <3>5, <3>6, UpToInduction
    <3>8. n \in 0..n
      BY <1>1
    <3>9. F[n] = f[n]
      BY <2>2, <3>7, <3>8
    <3>10. FlattenSeq(s) = F[n]
      BY <2>2 DEF FlattenSeq, F
    <3> QED BY <3>9, <3>10
  <2> QED BY <2>1, <2>2
<1> QED BY <1>4, <1>5 DEF Flattens

(* The sequences of a sequence, one after the other: a sequence again.     *)
LEMMA FlattenSeqType ==
  ASSUME NEW T, NEW s \in Seq(Seq(T))
  PROVE  FlattenSeq(s) \in Seq(T)
<1>1. PICK f \in [0..Len(s) -> Seq(T)] : Flattens(f, s)
  BY FlattenParts
<1>2. Len(s) \in 0..Len(s)
  OBVIOUS
<1>3. f[Len(s)] \in Seq(T)
  BY <1>2
<1> QED BY <1>1, <1>3 DEF Flattens

(* A sequence more is appended to the result.                               *)
LEMMA FlattenAppend ==
  ASSUME NEW T, NEW s \in Seq(Seq(T)), NEW x \in Seq(T)
  PROVE  FlattenSeq(Append(s, x)) = FlattenSeq(s) \o x
<1> DEFINE n == Len(s)
           r == Append(s, x)
<1>1. n \in Nat /\ r \in Seq(Seq(T)) /\ Len(r) = n + 1 /\ r[n + 1] = x
      /\ \A i \in 1..n : r[i] = s[i]
  OBVIOUS
<1>2. PICK f \in [0..n -> Seq(T)] : Flattens(f, s)
  BY FlattenParts
<1>3. PICK g \in [0..Len(r) -> Seq(T)] : Flattens(g, r)
  <2> HIDE DEF r
  <2> QED BY <1>1, FlattenParts
<1> HIDE DEF n, r
<1>4. f[0] = <<>> /\ (\A i \in 1..n : f[i] = f[i - 1] \o s[i]) /\ FlattenSeq(s) = f[n]
  BY <1>2, Zenon DEF Flattens, n
<1>5. g[0] = <<>> /\ (\A i \in 1..Len(r) : g[i] = g[i - 1] \o r[i]) /\ FlattenSeq(r) = g[Len(r)]
  BY <1>3, Zenon DEF Flattens
<1> DEFINE S == {i \in 0..n : g[i] = f[i]}
<1>6. 0 \in S
  BY <1>1, <1>4, <1>5
<1>7. ASSUME NEW i \in 1..n, i - 1 \in S PROVE i \in S
  <2>1. i \in 1..Len(r) /\ i \in 0..n
    BY <1>1
  <2>3. r[i] = s[i] /\ g[i - 1] = f[i - 1]
    BY <1>1, <1>7
  <2>2. g[i] = f[i]
    <3>1. f[i] = f[i - 1] \o s[i] /\ g[i] = g[i - 1] \o r[i]
      BY <1>4, <1>5, <2>1, Zenon
    <3> QED BY <2>3, <3>1
  <2> QED BY <2>1, <2>2
<1>8. \A i \in 0..n : i \in S
  <2> HIDE DEF S
  <2> QED BY <1>1, <1>6, <1>7, UpToInduction
<1>9. n \in 0..n /\ n + 1 \in 1..Len(r) /\ (n + 1) - 1 = n
  BY <1>1
<1>10. g[n] = f[n]
  BY <1>8, <1>9
<1>11. g[n + 1] = f[n] \o x
  <2>1. g[n + 1] = g[(n + 1) - 1] \o r[n + 1]
    BY <1>5, <1>9, Zenon
  <2> QED BY <1>1, <1>9, <1>10, <2>1, Zenon
<1> QED BY <1>1, <1>4, <1>5, <1>11 DEF r

=============================================================================
