----------------------------- MODULE RecordProofs -----------------------------
(***************************************************************************)
(* Of the cases that are run, the turns that are recorded of them and the  *)
(* pages that show them: what holds of ParamCases, AgentTurn and           *)
(* ResultViews for every value of their constants.  The three modules      *)
(* share no variable; they are extended together because the last shows    *)
(* what the others made.                                                   *)
(***************************************************************************)
EXTENDS ParamCases, AgentTurn, ResultViews, FiniteSetTheorems, FunctionTheorems,
        SequenceTheorems, InductionLemmas

-----------------------------------------------------------------------------
(* ParamCases: the expansion of the axes, and what an index means.         *)
-----------------------------------------------------------------------------
(* Numbers read with the bases b[1], ..., b[n], b[n] that of the last digit. *)
Products(f, n, b) == f \in [0..n -> Nat] /\ f[0] = 1 /\ \A i \in 1..n : f[i] = f[i - 1] * b[i]

Dropped(d, x, n, b) ==
  d \in [0..n -> Nat] /\ d[0] = x /\ \A k \in 1..n : d[k] = d[k - 1] \div b[n - k + 1]

LEMMA DivMod ==
  ASSUME NEW x \in Nat, NEW b \in Nat \ {0}
  PROVE  /\ x \div b \in Nat /\ x % b \in 0..(b - 1)
         /\ x = (x \div b) * b + (x % b)
OBVIOUS

LEMMA DivModUnique ==
  ASSUME NEW q \in Nat, NEW r \in Nat, NEW b \in Nat, r < b
  PROVE  (q * b + r) \div b = q /\ (q * b + r) % b = r
<1> DEFINE x == q * b + r
           p == x \div b
           s == x % b
<1>1. x \in Nat /\ b \in Nat \ {0}
  OBVIOUS
<1>2. p \in Nat /\ s \in 0..(b - 1) /\ x = p * b + s
  BY <1>1, DivMod
<1>3. q * b + r = p * b + s
  BY <1>2
<1> HIDE DEF p, s
<1>4. ~(p < q)
  <2> SUFFICES ASSUME p < q PROVE FALSE
    OBVIOUS
  <2>1. p + 1 <= q
    BY <1>2
  <2>2. (p + 1) * b <= q * b
    BY <1>2, <2>1
  <2> QED BY <1>2, <1>3, <2>2
<1>5. ~(q < p)
  <2> SUFFICES ASSUME q < p PROVE FALSE
    OBVIOUS
  <2>1. q + 1 <= p
    BY <1>2
  <2>2. (q + 1) * b <= p * b
    BY <1>2, <2>1
  <2> QED BY <1>2, <1>3, <2>2
<1>6. p = q
  BY <1>2, <1>4, <1>5
<1> QED BY <1>2, <1>3, <1>6 DEF p, s

(* No digit is left of a number below the product of the bases.             *)
LEMMA DigitsBounded ==
  ASSUME NEW n \in Nat, NEW b \in [1..n -> Nat], NEW f, Products(f, n, b),
         NEW x \in Nat, x < f[n], NEW d, Dropped(d, x, n, b)
  PROVE  /\ \A i \in 1..n : b[i] \in Nat \ {0}
         /\ \A k \in 0..n : d[k] < f[n - k]
<1>1. f \in [0..n -> Nat] /\ f[0] = 1 /\ \A i \in 1..n : f[i] = f[i - 1] * b[i]
  BY DEF Products
<1>2. d \in [0..n -> Nat] /\ d[0] = x /\ \A k \in 1..n : d[k] = d[k - 1] \div b[n - k + 1]
  BY DEF Dropped
<1> DEFINE S == {k \in 0..n : d[k] < f[n - k] /\ \A i \in 1..n : i > n - k => b[i] # 0}
<1>3. 0 \in S
  BY <1>2
<1>4. ASSUME NEW k \in 1..n, k - 1 \in S PROVE k \in S
  <2> DEFINE m == n - k
  <2>1. m \in 0..n /\ m + 1 \in 1..n /\ k - 1 \in 0..n /\ n - (k - 1) = m + 1 /\ (m + 1) - 1 = m
        /\ n - k + 1 = m + 1
    OBVIOUS
  <2> HIDE DEF m
  <2>2. d[k - 1] < f[m + 1] /\ \A i \in 1..n : i > m + 1 => b[i] # 0
    BY <1>4, <2>1
  <2>3. f[m + 1] = f[m] * b[m + 1] /\ f[m] \in Nat /\ b[m + 1] \in Nat /\ d[k - 1] \in Nat
    BY <1>1, <1>2, <2>1
  <2>4. b[m + 1] # 0
    <3> SUFFICES ASSUME b[m + 1] = 0 PROVE FALSE
      OBVIOUS
    <3>1. f[m + 1] = 0
      BY <2>3
    <3> QED BY <2>2, <2>3, <3>1
  <2>5. d[k] = d[k - 1] \div b[m + 1]
    BY <1>2, <2>1
  <2>6. d[k] < f[m]
    <3> DEFINE q == d[k - 1]
               c == b[m + 1]
               g == f[m]
    <3>1. q \in Nat /\ c \in Nat \ {0} /\ g \in Nat /\ q < g * c
      BY <2>2, <2>3, <2>4
    <3> HIDE DEF q, c, g
    <3>2. q \div c \in Nat /\ q = (q \div c) * c + (q % c) /\ q % c \in Nat
      <4>1. q \div c \in Nat /\ q % c \in 0..(c - 1) /\ q = (q \div c) * c + (q % c)
        BY <3>1, DivMod
      <4>2. \A z \in 0..(c - 1) : z \in Nat
        BY <3>1
      <4> QED BY <4>1, <4>2, Zenon
    <3>3. q \div c < g
      <4> DEFINE p == q \div c
                 s == q % c
      <4>1. p \in Nat /\ s \in Nat /\ p * c + s < g * c
        BY <3>1, <3>2
      <4> HIDE DEF p, s
      <4>2. ASSUME g <= p PROVE FALSE
        <5>1. g * c <= p * c
          BY <3>1, <4>1, <4>2
        <5> QED BY <3>1, <4>1, <5>1
      <4>3. p < g
        BY <3>1, <4>1, <4>2
      <4> QED BY <4>3 DEF p
    <3> QED BY <2>5, <3>3 DEF q, c, g
  <2>7. \A i \in 1..n : i > m => b[i] # 0
    <3>1. \A i \in 1..n : i > m => i = m + 1 \/ i > m + 1
      BY <2>1
    <3> QED BY <2>2, <2>4, <3>1
  <2> QED BY <2>6, <2>7 DEF m
<1>5. \A k \in 0..n : k \in S
  <2> HIDE DEF S
  <2> QED BY <1>3, <1>4, UpToInduction
<1>6. n \in S
  BY <1>5
<1> QED BY <1>5, <1>6

AllNonzero(b, n) == \A i \in 1..n : b[i] # 0

SameRest(d, e, n, b) == \A i \in 1..n : d[n - i] % b[i] = e[n - i] % b[i]

(* Two numbers with the same digits are the same.                           *)
LEMMA DigitsDetermine ==
  ASSUME NEW n \in Nat, NEW b \in [1..n -> Nat], NEW f, Products(f, n, b),
         NEW x \in Nat, x < f[n], NEW d, Dropped(d, x, n, b),
         NEW y \in Nat, y < f[n], NEW e, Dropped(e, y, n, b), SameRest(d, e, n, b)
  PROVE  x = y
<1>1. /\ d \in [0..n -> Nat] /\ d[0] = x /\ \A k \in 1..n : d[k] = d[k - 1] \div b[n - k + 1]
      /\ e \in [0..n -> Nat] /\ e[0] = y /\ \A k \in 1..n : e[k] = e[k - 1] \div b[n - k + 1]
  BY DEF Dropped
<1>2. /\ \A i \in 1..n : b[i] \in Nat \ {0}
      /\ d[n] < f[0] /\ e[n] < f[0] /\ f[0] = 1
  <2>1. /\ \A i \in 1..n : b[i] \in Nat \ {0}
        /\ \A k \in 0..n : d[k] < f[n - k]
    BY DigitsBounded, Zenon
  <2>2. \A k \in 0..n : e[k] < f[n - k]
    BY DigitsBounded, Zenon
  <2>3. n \in 0..n /\ n - n = 0
    OBVIOUS
  <2> QED BY <2>1, <2>2, <2>3 DEF Products
<1>3. d[n] = e[n]
  <2>1. d[n] \in Nat /\ e[n] \in Nat
    BY <1>1
  <2> QED BY <1>2, <2>1
<1> DEFINE S == {i \in 0..n : d[n - i] = e[n - i]}
<1>4. 0 \in S
  BY <1>3
<1>5. ASSUME NEW i \in 1..n, i - 1 \in S PROVE i \in S
  <2> DEFINE k == n - i + 1
  <2>1. k \in 1..n /\ k - 1 = n - i /\ n - k + 1 = i /\ n - (i - 1) = k /\ k - 1 \in 0..n
    OBVIOUS
  <2> HIDE DEF k
  <2>2. d[k] = e[k]
    BY <1>5, <2>1
  <2>3. d[k] = d[k - 1] \div b[i] /\ e[k] = e[k - 1] \div b[i]
    BY <1>1, <2>1
  <2>4. d[k - 1] % b[i] = e[k - 1] % b[i]
    BY <2>1 DEF SameRest
  <2>5. d[k - 1] \in Nat /\ e[k - 1] \in Nat /\ b[i] \in Nat \ {0}
    BY <1>1, <1>2, <2>1
  <2>6. /\ d[k - 1] = (d[k - 1] \div b[i]) * b[i] + (d[k - 1] % b[i])
        /\ e[k - 1] = (e[k - 1] \div b[i]) * b[i] + (e[k - 1] % b[i])
    BY <2>5, DivMod
  <2>7. d[k - 1] \div b[i] = e[k - 1] \div b[i]
    BY <2>2, <2>3
  <2>8. d[k - 1] = e[k - 1]
    BY <2>4, <2>6, <2>7, Zenon
  <2>9. d[n - i] = e[n - i] /\ i \in 0..n
    BY <2>1, <2>8
  <2> QED BY <2>9
<1>6. \A i \in 0..n : i \in S
  <2> HIDE DEF S
  <2> QED BY <1>4, <1>5, UpToInduction
<1>7. n \in S
  BY <1>6
<1>8. d[0] = e[0]
  BY <1>7
<1> QED BY <1>1, <1>8

LEMMA SumNat ==
  ASSUME NEW p \in Nat, NEW q \in Nat, NEW r \in Nat
  PROVE  p * q + r \in Nat
OBVIOUS

Valued(h, n, b, c) == h[0] = 0 /\ \A i \in 1..n : h[i] = h[i - 1] * b[i] + c[i]

(* The digits of x are those of c.                                          *)
DigitsAre(x, n, b, c) == \A d : Dropped(d, x, n, b) => \A i \in 1..n : d[n - i] % b[i] = c[i]

(* Digits below their bases are those of a number below the product.        *)
LEMMA DigitsGiven ==
  ASSUME NEW n \in Nat, NEW b \in [1..n -> Nat], NEW f, Products(f, n, b),
         NEW c \in [1..n -> Nat], \A i \in 1..n : c[i] < b[i]
  PROVE  \E x \in Nat : x < f[n] /\ DigitsAre(x, n, b, c)
<1>1. f \in [0..n -> Nat] /\ f[0] = 1 /\ \A i \in 1..n : f[i] = f[i - 1] * b[i]
  BY DEF Products
<1>a. \A i \in 1..n : b[i] \in Nat /\ c[i] \in Nat
  OBVIOUS
<1>b. PICK h \in [0..n -> Nat] : Valued(h, n, b, c)
  <2> DEFINE step == [k \in 1..n |-> [q \in Nat |-> q * b[k] + c[k]]]
             z == 0
  <2>1. step \in [1..n -> [Nat -> Nat]] /\ z \in Nat
    <3>1. ASSUME NEW k \in 1..n, NEW q \in Nat PROVE q * b[k] + c[k] \in Nat
      BY <1>a, SumNat
    <3> QED BY <3>1
  <2>2. ASSUME NEW k \in 1..n, NEW q \in Nat PROVE step[k][q] = q * b[k] + c[k]
    OBVIOUS
  <2> HIDE DEF step, z
  <2>3. PICK h \in [0..n -> Nat] : Recurs(h, n, z, step)
    BY <2>1, RecursionSolved
  <2>4. \A k \in 1..n : h[k] = step[k][h[k - 1]] /\ h[k - 1] \in Nat
    BY <2>3 DEF Recurs
  <2>5. h[0] = 0
    BY <2>3 DEF Recurs, z
  <2>6. ASSUME NEW k \in 1..n PROVE h[k] = h[k - 1] * b[k] + c[k]
    <3>1. h[k] = step[k][h[k - 1]] /\ h[k - 1] \in Nat
      BY <2>4
    <3>2. step[k][h[k - 1]] = h[k - 1] * b[k] + c[k]
      BY <2>2, <3>1
    <3> QED BY <3>1, <3>2, Zenon
  <2> QED BY <2>5, <2>6 DEF Valued
<1>2. h[0] = 0 /\ \A i \in 1..n : h[i] = h[i - 1] * b[i] + c[i]
  BY <1>b DEF Valued
<1> DEFINE S == {i \in 0..n : h[i] < f[i]}
<1>3. 0 \in S
  BY <1>1, <1>2
<1>4. ASSUME NEW i \in 1..n, i - 1 \in S PROVE i \in S
  <2> DEFINE p == h[i - 1]
             g == f[i - 1]
             k == b[i]
  <2>1. p \in Nat /\ g \in Nat /\ k \in Nat /\ c[i] \in Nat /\ c[i] < k /\ p < g
    BY <1>1, <1>2, <1>4
  <2>2. h[i] = p * k + c[i] /\ f[i] = g * k
    BY <1>1, <1>2
  <2>a. i \in 0..n
    OBVIOUS
  <2> HIDE DEF p, g, k
  <2>3. p + 1 <= g
    BY <2>1
  <2>4. (p + 1) * k <= g * k
    BY <2>1, <2>3
  <2>5. (p + 1) * k = p * k + k /\ p * k \in Nat /\ g * k \in Nat
    BY <2>1
  <2>6. p * k + c[i] < g * k
    <3> DEFINE u == p * k
               v == g * k
    <3>1. u \in Nat /\ v \in Nat /\ u + k <= v
      BY <2>4, <2>5
    <3> HIDE DEF u, v
    <3>2. u + c[i] < v
      BY <2>1, <3>1
    <3> QED BY <3>2 DEF u, v
  <2> QED BY <2>a, <2>2, <2>6
<1>5. \A i \in 0..n : i \in S
  <2> HIDE DEF S
  <2> QED BY <1>3, <1>4, UpToInduction
<1>6. n \in S /\ h[n] \in Nat
  BY <1>2, <1>5
<1>7. ASSUME NEW d, Dropped(d, h[n], n, b) PROVE \A i \in 1..n : d[n - i] % b[i] = c[i]
  <2>1. d \in [0..n -> Nat] /\ d[0] = h[n] /\ \A k \in 1..n : d[k] = d[k - 1] \div b[n - k + 1]
    BY <1>7 DEF Dropped
  <2>2. ASSUME NEW i \in 1..n PROVE h[i] \div b[i] = h[i - 1] /\ h[i] % b[i] = c[i]
    <3>1. h[i - 1] \in Nat /\ c[i] \in Nat /\ b[i] \in Nat /\ c[i] < b[i]
      BY <1>a
    <3>2. h[i] = h[i - 1] * b[i] + c[i]
      BY <1>2
    <3>3. /\ (h[i - 1] * b[i] + c[i]) \div b[i] = h[i - 1]
          /\ (h[i - 1] * b[i] + c[i]) % b[i] = c[i]
      BY <3>1, DivModUnique
    <3> QED BY <3>2, <3>3, Zenon
  <2> DEFINE T == {k \in 0..n : d[k] = h[n - k]}
  <2>3. 0 \in T
    BY <2>1
  <2>4. ASSUME NEW k \in 1..n, k - 1 \in T PROVE k \in T
    <3>1. n - k + 1 \in 1..n /\ n - (k - 1) = n - k + 1 /\ (n - k + 1) - 1 = n - k
      OBVIOUS
    <3>2. d[k] = h[n - k + 1] \div b[n - k + 1]
      BY <2>1, <2>4, <3>1
    <3> QED BY <2>2, <3>1, <3>2
  <2>5. \A k \in 0..n : k \in T
    <3> HIDE DEF T
    <3> QED BY <2>3, <2>4, UpToInduction
  <2>6. ASSUME NEW i \in 1..n PROVE d[n - i] = h[i]
    <3>1. n - i \in 0..n /\ n - (n - i) = i
      OBVIOUS
    <3> QED BY <2>5, <3>1
  <2> QED BY <2>2, <2>6
<1>8. DigitsAre(h[n], n, b, c)
  BY <1>7 DEF DigitsAre
<1> QED BY <1>6, <1>8

-----------------------------------------------------------------------------
HoldsParts(q, s) ==
  \A x : (\E i \in 1..Len(q) : q[i] = x) <=> \E k \in 1..Len(s) : \E j \in 1..Len(s[k]) : s[k][j] = x

(* What a flattened sequence holds.                                         *)
LEMMA FlattenHolds ==
  ASSUME NEW T, NEW s \in Seq(Seq(T))
  PROVE  FlattenSeq(s) \in Seq(T) /\ HoldsParts(FlattenSeq(s), s)
<1>1. PICK f \in [0..Len(s) -> Seq(T)] : Flattens(f, s)
  BY FlattenParts
<1> DEFINE n == Len(s)
           Holds(q, x) == \E i \in 1..Len(q) : q[i] = x
           S == {k \in 0..n : \A x : Holds(f[k], x) <=> \E i \in 1..k : Holds(s[i], x)}
<1>2. n \in Nat /\ f[0] = <<>> /\ (\A i \in 1..n : f[i] = f[i - 1] \o s[i]) /\ FlattenSeq(s) = f[n]
  <2>1. n \in Nat
    OBVIOUS
  <2> QED BY <1>1, <2>1, Zenon DEF Flattens
<1>3. \A p, q \in Seq(T) : \A x : Holds(p \o q, x) <=> Holds(p, x) \/ Holds(q, x)
  <2> TAKE p, q \in Seq(T)
  <2>1. /\ Len(p \o q) = Len(p) + Len(q) /\ Len(p) \in Nat /\ Len(q) \in Nat
        /\ \A i \in 1..(Len(p) + Len(q)) :
             (p \o q)[i] = IF i <= Len(p) THEN p[i] ELSE q[i - Len(p)]
    BY ConcatProperties
  <2> DEFINE c == p \o q
  <2>2. /\ Len(c) = Len(p) + Len(q) /\ \A i \in 1..Len(p) : c[i] = p[i] /\ i \in 1..Len(c)
        /\ \A j \in 1..Len(q) : c[Len(p) + j] = q[j] /\ Len(p) + j \in 1..Len(c)
        /\ \A i \in 1..Len(c) : (i \in 1..Len(p) /\ c[i] = p[i])
             \/ (i - Len(p) \in 1..Len(q) /\ c[i] = q[i - Len(p)])
    <3>1. \A i \in 1..Len(p) : c[i] = p[i] /\ i \in 1..Len(c)
      BY <2>1
    <3>2. ASSUME NEW j \in 1..Len(q) PROVE c[Len(p) + j] = q[j] /\ Len(p) + j \in 1..Len(c)
      <4>1. Len(p) + j \in 1..(Len(p) + Len(q)) /\ ~(Len(p) + j <= Len(p)) /\ (Len(p) + j) - Len(p) = j
        BY <2>1
      <4> QED BY <2>1, <4>1
    <3>3. ASSUME NEW i \in 1..Len(c)
          PROVE  (i \in 1..Len(p) /\ c[i] = p[i]) \/ (i - Len(p) \in 1..Len(q) /\ c[i] = q[i - Len(p)])
      BY <2>1
    <3> QED BY <2>1, <3>1, <3>2, <3>3
  <2> HIDE DEF c
  <2>3. \A x : Holds(c, x) <=> Holds(p, x) \/ Holds(q, x)
    <3> TAKE x
    <3>1. Holds(p, x) => Holds(c, x)
      BY <2>2
    <3>2. Holds(q, x) => Holds(c, x)
      BY <2>2
    <3>3. Holds(c, x) => Holds(p, x) \/ Holds(q, x)
      BY <2>2
    <3> HIDE DEF Holds
    <3> QED BY <3>1, <3>2, <3>3
  <2> QED BY <2>3 DEF c
<1>4. 0 \in S
  BY <1>2
<1>5. ASSUME NEW k \in 1..n, k - 1 \in S PROVE k \in S
  <2>1. f[k] = f[k - 1] \o s[k] /\ f[k - 1] \in Seq(T) /\ s[k] \in Seq(T) /\ k \in 0..n
    <3>1. k - 1 \in 0..n /\ k \in 0..n /\ k \in 1..n
      BY <1>2
    <3>2. s[k] \in Seq(T)
      OBVIOUS
    <3>3. f[k] = f[k - 1] \o s[k]
      BY <1>2, <3>1, Zenon
    <3>4. f[k - 1] \in Seq(T)
      BY <3>1
    <3> HIDE DEF n
    <3> QED BY <3>1, <3>2, <3>3, <3>4
  <2> HIDE DEF Holds
  <2>2. \A x : Holds(f[k], x) <=> Holds(f[k - 1], x) \/ Holds(s[k], x)
    BY <1>3, <2>1
  <2>3. \A i : i \in 1..k <=> i \in 1..(k - 1) \/ i = k
    BY <1>2
  <2> QED BY <1>5, <2>1, <2>2, <2>3
<1>6. \A k \in 0..n : k \in S
  <2> HIDE DEF S, n
  <2> QED BY <1>2, <1>4, <1>5, UpToInduction
<1>7. n \in 0..n
  BY <1>2
<1>8. FlattenSeq(s) \in Seq(T)
  BY <1>2, <1>7
<1>9. \A x : Holds(f[n], x) <=> \E i \in 1..n : Holds(s[i], x)
  <2> HIDE DEF Holds, n
  <2> QED BY <1>6, <1>7
<1> QED BY <1>2, <1>8, <1>9 DEF HoldsParts

-----------------------------------------------------------------------------
(* The declarations of a process.                                           *)
LEMMA OrderFacts ==
  ASSUME NEW order \in Orders
  PROVE  /\ order \in Seq(Fixture)
         /\ \A f \in Fixture : \E i \in 1..Len(order) : order[i] = f
<1> DEFINE n == Cardinality(Fixture)
<1>1. n \in Nat /\ IsFiniteSet(Fixture)
  BY ParamAssumption, FS_CardinalityType
<1>2. order \in [1..n -> Fixture] /\ \A i, j \in 1..n : i # j => order[i] # order[j]
  BY DEF Orders, SetToSeqs
<1> HIDE DEF n
<1>3. order \in Seq(Fixture) /\ Len(order) = n
  BY <1>1, <1>2
<1>4. \A f \in Fixture : \E i \in 1..n : order[i] = f
  <2> SUFFICES ASSUME NEW f \in Fixture, \A i \in 1..n : order[i] # f PROVE FALSE
    OBVIOUS
  <2> DEFINE R == Fixture \ {f}
  <2>1. order \in Injection(1..n, R)
    <3>1. order \in [1..n -> R]
      BY <1>2
    <3> HIDE DEF R
    <3> QED BY <1>2, <3>1 DEF Injection, IsInjective
  <2>2. IsFiniteSet(R) /\ Cardinality(R) = n - 1
    BY <1>1, FS_RemoveElement DEF n
  <2>3. IsFiniteSet(1..n) /\ Cardinality(1..n) = n
    BY <1>1, FS_Interval
  <2>4. Cardinality(1..n) <= Cardinality(R)
    <3> HIDE DEF R
    <3> QED BY <2>1, <2>2, FS_Injection
  <2> QED BY <1>1, <2>2, <2>3, <2>4
<1> QED BY <1>3, <1>4

LEMMA DeclaredFacts ==
  ASSUME decl \in Declarations, NEW order \in Orders
  PROVE  /\ Declared(order) \in Seq(Declaration)
         /\ \A d : d \in ToSet(Declared(order)) <=> \E f \in Fixture : d \in ToSet(decl[f])
<1> DEFINE ds == [i \in DOMAIN order |-> decl[order[i]]]
<1>1. decl \in [Fixture -> Seq(Declaration)]
  BY ParamAssumption
<1>2. order \in Seq(Fixture) /\ \A f \in Fixture : \E i \in 1..Len(order) : order[i] = f
  BY OrderFacts
<1>3. Len(order) \in Nat /\ DOMAIN order = 1..Len(order) /\ \A i \in 1..Len(order) : order[i] \in Fixture
  BY <1>2
<1>4. ds \in Seq(Seq(Declaration)) /\ Len(ds) = Len(order)
      /\ \A i \in 1..Len(order) : ds[i] = decl[order[i]] /\ ds[i] \in Seq(Declaration)
  BY <1>1, <1>3
<1>5. Declared(order) = FlattenSeq(ds)
  BY DEF Declared
<1> HIDE DEF ds
<1>6. FlattenSeq(ds) \in Seq(Declaration) /\ HoldsParts(FlattenSeq(ds), ds)
  BY <1>4, FlattenHolds
<1> DEFINE D == Declared(order)
<1>7. D \in Seq(Declaration) /\ DOMAIN D = 1..Len(D)
      /\ \A x : (\E i \in 1..Len(D) : D[i] = x) <=> \E k \in 1..Len(ds) : \E j \in 1..Len(ds[k]) : ds[k][j] = x
  <2>1. D \in Seq(Declaration) /\ HoldsParts(D, ds)
    BY <1>5, <1>6
  <2>2. DOMAIN D = 1..Len(D)
    BY <2>1
  <2> HIDE DEF D
  <2>3. \A x : (\E i \in 1..Len(D) : D[i] = x) <=> \E k \in 1..Len(ds) : \E j \in 1..Len(ds[k]) : ds[k][j] = x
    BY <2>1, Zenon DEF HoldsParts
  <2> QED BY <2>1, <2>2, <2>3, Zenon
<1> HIDE DEF D
<1>8. \A d : d \in ToSet(D) <=> \E i \in 1..Len(D) : D[i] = d
  BY <1>7 DEF ToSet
<1>9. \A f \in Fixture : \A d : d \in ToSet(decl[f]) <=> \E j \in 1..Len(decl[f]) : decl[f][j] = d
  BY <1>1 DEF ToSet
<1>10. ASSUME NEW d PROVE d \in ToSet(D) <=> \E f \in Fixture : d \in ToSet(decl[f])
  <2>1. ASSUME d \in ToSet(D) PROVE \E f \in Fixture : d \in ToSet(decl[f])
    <3>0. \E i \in 1..Len(D) : D[i] = d
      BY <1>8, <2>1, Zenon
    <3>1. PICK k \in 1..Len(ds) : \E j \in 1..Len(ds[k]) : ds[k][j] = d
      BY <1>7, <3>0, Zenon
    <3>2. order[k] \in Fixture /\ ds[k] = decl[order[k]]
      BY <1>3, <1>4
    <3>3. d \in ToSet(decl[order[k]])
      BY <1>9, <3>1, <3>2, Zenon
    <3> QED BY <3>2, <3>3
  <2>2. ASSUME NEW f \in Fixture, d \in ToSet(decl[f]) PROVE d \in ToSet(D)
    <3>1. PICK k \in 1..Len(order) : order[k] = f
      BY <1>2
    <3>2. k \in 1..Len(ds) /\ ds[k] = decl[f]
      BY <1>4, <3>1
    <3>3. \E j \in 1..Len(decl[f]) : decl[f][j] = d
      BY <1>9, <2>2, Zenon
    <3>4. \E j \in 1..Len(ds[k]) : ds[k][j] = d
      BY <3>2, <3>3, Zenon
    <3>5. \E i \in 1..Len(D) : D[i] = d
      BY <1>7, <3>2, <3>4, Zenon
    <3> QED BY <1>8, <3>5, Zenon
  <2> QED BY <2>1, <2>2
<1> QED BY <1>7, <1>10 DEF D

(* Every axis has one name, at the place of its first declaration.          *)
LEMMA NamesFacts ==
  ASSUME NEW order, Declared(order) \in Seq(Declaration)
  PROVE  /\ Names(order) \in Seq(Axis)
         /\ \A i, j \in 1..Len(Names(order)) : Names(order)[i] = Names(order)[j] => i = j
         /\ \A a : (\E i \in 1..Len(Names(order)) : Names(order)[i] = a) <=>
                     \E d \in ToSet(Declared(order)) : d.axis = a
<1> DEFINE ds == Declared(order)
           n == Len(ds)
           D == Seq(Axis)
           e == <<>>
           Step(q, a) == IF Contains(q, a) THEN q ELSE Append(q, a)
           Def(g, i) == IF i = 0 THEN <<>> ELSE LET seen == g[i - 1]
             IN  IF Contains(seen, ds[i].axis) THEN seen ELSE Append(seen, ds[i].axis)
           F == CHOOSE g : g = [i \in 0..n |-> Def(g, i)]
           step == [k \in 1..n |-> [q \in D |-> Step(q, ds[k].axis)]]
<1>1. n \in Nat /\ DOMAIN ds = 1..n /\ e \in D /\ \A k \in 1..n : ds[k] \in Declaration
  OBVIOUS
<1>2. \A k \in 1..n : ds[k].axis \in Axis
  BY <1>1 DEF Declaration
<1> HIDE DEF ds
<1>3. step \in [1..n -> [D -> D]] /\ \A k \in 1..n, q \in D : step[k][q] = Step(q, ds[k].axis)
  <2>1. \A k \in 1..n, q \in D : Step(q, ds[k].axis) \in D
    BY <1>2
  <2> HIDE DEF D, n, Step
  <2> QED BY <2>1
<1>4. PICK f \in [0..n -> D] : Recurs(f, n, e, step)
  <2> HIDE DEF n, D, e, step
  <2> QED BY <1>1, <1>3, RecursionSolved
<1>5. f[0] = <<>> /\ \A i \in 1..n : f[i] = Step(f[i - 1], ds[i].axis) /\ f[i - 1] \in D /\ f[i] \in D
  <2>1. \A i \in 1..n : i - 1 \in 0..n /\ i \in 0..n
    BY <1>1
  <2>2. \A i \in 1..n : f[i] = step[i][f[i - 1]]
    BY <1>4, Zenon DEF Recurs
  <2>3. f[0] = e
    BY <1>4 DEF Recurs
  <2>4. \A i \in 1..n : f[i - 1] \in D /\ f[i] \in D
    <3> HIDE DEF D, n
    <3> QED BY <2>1
  <2> HIDE DEF D, n, Step, step
  <2> QED BY <1>3, <2>2, <2>3, <2>4
<1>6. Names(order) = f[n]
  <2>1. \A i \in 0..n : f[i] = Def(f, i)
    <3> TAKE i \in 0..n
    <3>1. CASE i = 0
      BY <1>5, <3>1
    <3>2. CASE i # 0
      <4>1. i \in 1..n
        BY <1>1, <3>2
      <4>2. f[i] = Step(f[i - 1], ds[i].axis)
        BY <1>5, <4>1
      <4> QED BY <3>2, <4>2
    <3> QED BY <3>1, <3>2
  <2>2. f = [i \in 0..n |-> Def(f, i)]
    <3> HIDE DEF Def, n
    <3> QED BY <2>1
  <2>3. F = [i \in 0..n |-> Def(F, i)]
    <3> HIDE DEF Def, n
    <3> QED BY <2>2
  <2>4. \A i \in 0..n : F[i] = Def(F, i)
    <3> HIDE DEF Def, n, F
    <3> QED BY <2>3
  <2>5. Names(order) = F[n]
    BY DEF Names, ds
  <2> HIDE DEF F
  <2> DEFINE S == {i \in 0..n : F[i] = f[i]}
  <2>6. 0 \in S
    BY <1>1, <1>5, <2>4
  <2>7. ASSUME NEW i \in 1..n, i - 1 \in S PROVE i \in S
    <3>1. i \in 0..n /\ i # 0
      BY <1>1
    <3>2. F[i] = Def(F, i)
      BY <2>4, <3>1
    <3>3. F[i - 1] = f[i - 1]
      BY <2>7
    <3>4. F[i] = Step(f[i - 1], ds[i].axis)
      BY <3>1, <3>2, <3>3
    <3>5. f[i] = Step(f[i - 1], ds[i].axis)
      BY <1>5
    <3> HIDE DEF Step
    <3> QED BY <3>1, <3>4, <3>5
  <2>8. \A i \in 0..n : i \in S
    <3> HIDE DEF S, n
    <3> QED BY <1>1, <2>6, <2>7, UpToInduction
  <2>9. n \in 0..n
    BY <1>1
  <2> QED BY <2>5, <2>8, <2>9
<1> HIDE DEF F, step
<1> DEFINE Good(k) ==
             /\ \A i, j \in 1..Len(f[k]) : f[k][i] = f[k][j] => i = j
             /\ \A a : Contains(f[k], a) <=> \E i \in 1..k : ds[i].axis = a
           G == {k \in 0..n : Good(k)}
<1>7. 0 \in G
  BY <1>1, <1>5 DEF Contains
<1>8. ASSUME NEW k \in 1..n, k - 1 \in G PROVE k \in G
  <2> DEFINE q == f[k - 1]
             a == ds[k].axis
  <2>1. q \in Seq(Axis) /\ f[k] = Step(q, a) /\ a \in Axis /\ k \in 0..n
    BY <1>1, <1>2, <1>5
  <2>2. /\ \A i, j \in 1..Len(q) : q[i] = q[j] => i = j
        /\ \A b : Contains(q, b) <=> \E i \in 1..(k - 1) : ds[i].axis = b
    BY <1>8
  <2>3. \A i : i \in 1..k <=> i \in 1..(k - 1) \/ i = k
    BY <1>1
  <2> HIDE DEF q, G
  <2>4. CASE Contains(q, a)
    <3>1. f[k] = q
      BY <2>1, <2>4
    <3>2. \A b : Contains(q, b) <=> \E i \in 1..k : ds[i].axis = b
      BY <2>2, <2>3, <2>4
    <3> QED BY <2>1, <2>2, <3>1, <3>2 DEF G
  <2>5. CASE ~Contains(q, a)
    <3> DEFINE r == Append(q, a)
    <3>1. f[k] = r
      BY <2>1, <2>5
    <3>2. /\ Len(q) \in Nat /\ Len(r) = Len(q) + 1
          /\ r[Len(q) + 1] = a /\ \A i \in 1..Len(q) : r[i] = q[i]
      BY <2>1
    <3>3. \A i : i \in 1..Len(r) <=> i \in 1..Len(q) \/ i = Len(q) + 1
      BY <3>2
    <3> HIDE DEF r, a
    <3>4. \A i \in 1..Len(q) : q[i] # a
      BY <2>5 DEF Contains
    <3>5. \A i, j \in 1..Len(r) : r[i] = r[j] => i = j
      BY <2>2, <3>2, <3>3, <3>4
    <3>6. \A b : Contains(r, b) <=> Contains(q, b) \/ b = a
      BY <3>2, <3>3 DEF Contains
    <3>7. \A b : Contains(r, b) <=> \E i \in 1..k : ds[i].axis = b
      BY <2>2, <2>3, <3>6 DEF a
    <3> QED BY <2>1, <3>1, <3>5, <3>7 DEF G
  <2> QED BY <2>4, <2>5
<1>9. \A k \in 0..n : k \in G
  <2> HIDE DEF G, n
  <2> QED BY <1>1, <1>7, <1>8, UpToInduction
<1>10. n \in 0..n
  BY <1>1
<1>11. Good(n) /\ f[n] \in Seq(Axis)
  BY <1>9, <1>10
<1>12. \A a : (\E i \in 1..n : ds[i].axis = a) <=> \E d \in ToSet(ds) : d.axis = a
  BY <1>1 DEF ToSet
<1> QED BY <1>6, <1>11, <1>12 DEF Contains, ds

(* The cases of an axis are those of its first declaration.                 *)
LEMMA CasesOfFacts ==
  ASSUME NEW order, Declared(order) \in Seq(Declaration), NEW a,
         \E d \in ToSet(Declared(order)) : d.axis = a
  PROVE  \E d \in ToSet(Declared(order)) : d.axis = a /\ CasesOf(order, a) = d.cases
<1> DEFINE ds == Declared(order)
           First(i) == ds[i].axis = a /\ \A j \in 1..(i - 1) : ds[j].axis # a
           T == {i \in DOMAIN ds : ds[i].axis = a}
<1>1. DOMAIN ds = 1..Len(ds) /\ Len(ds) \in Nat
  OBVIOUS
<1> HIDE DEF ds
<1>2. T \subseteq Nat /\ T # {}
  BY <1>1 DEF ds, ToSet
<1>3. PICK i \in T : \A j \in T : ~(j < i)
  <2> HIDE DEF T
  <2> QED BY <1>2, LeastNat
<1>4. \A j \in 1..(i - 1) : j \in DOMAIN ds /\ j < i
  BY <1>1, <1>3
<1>5. i \in DOMAIN ds /\ First(i)
  BY <1>3, <1>4
<1>6. (CHOOSE k \in DOMAIN ds : First(k)) \in DOMAIN ds /\ First(CHOOSE k \in DOMAIN ds : First(k))
  <2> HIDE DEF First
  <2> QED BY <1>5
<1> DEFINE c == CHOOSE k \in DOMAIN ds : First(k)
<1>7. CasesOf(order, a) = ds[c].cases
  BY DEF CasesOf, ds
<1>8. c \in DOMAIN ds /\ ds[c].axis = a
  BY <1>6
<1> HIDE DEF c
<1> QED BY <1>7, <1>8 DEF ds, ToSet

(* What a process that does not refuse makes of the declarations.           *)
Merged(order, names, cases) ==
  /\ names = Names(order) /\ names \in Seq(Axis)
  /\ \A i, j \in 1..Len(names) : names[i] = names[j] => i = j
  /\ {d.axis : d \in UNION {ToSet(decl[f]) : f \in Fixture}} = ToSet(names)
  /\ \A i \in 1..Len(names) :
       /\ cases[i] = CasesOf(order, names[i]) /\ cases[i] \in Seq(CaseId)
       /\ \A j, k \in 1..Len(cases[i]) : cases[i][j] = cases[i][k] => j = k
  /\ \A d \in UNION {ToSet(decl[f]) : f \in Fixture} :
       \A i \in 1..Len(names) : d.axis = names[i] => d.cases = cases[i]

LEMMA MergedFacts ==
  ASSUME decl \in Declarations, NEW order \in Orders, ~Inconsistent(order)
  PROVE  \E names, cases : Merged(order, names, cases)
<1> DEFINE all == UNION {ToSet(decl[f]) : f \in Fixture}
           names == Names(order)
           cases == [i \in 1..Len(names) |-> CasesOf(order, names[i])]
<1>1. Declared(order) \in Seq(Declaration) /\ all = ToSet(Declared(order))
  <2>1. \A d : d \in all <=> \E f \in Fixture : d \in ToSet(decl[f])
    OBVIOUS
  <2> HIDE DEF all
  <2> QED BY <2>1, DeclaredFacts
<1>2. /\ names \in Seq(Axis)
      /\ \A i, j \in 1..Len(names) : names[i] = names[j] => i = j
      /\ \A a : (\E i \in 1..Len(names) : names[i] = a) <=> \E d \in all : d.axis = a
  BY <1>1, NamesFacts
<1>3. \A d \in all : d.cases = CasesOf(order, d.axis)
  BY <1>1 DEF Inconsistent
<1>4. \A d \in all : /\ d.cases \in Seq(CaseId)
                     /\ \A i, j \in 1..Len(d.cases) : d.cases[i] = d.cases[j] => i = j
  <2> TAKE d \in all
  <2>1. PICK f \in Fixture : d \in ToSet(decl[f])
    OBVIOUS
  <2>2. d \in Declaration
    <3>1. decl[f] \in Seq(Declaration)
      BY ParamAssumption
    <3> QED BY <2>1, <3>1 DEF ToSet
  <2>3. d.cases \in Seq(CaseId)
    BY <2>2 DEF Declaration
  <2>4. \A i, j \in DOMAIN d.cases : d.cases[i] = d.cases[j] => i = j
    BY <2>1, ParamAssumption
  <2>5. DOMAIN d.cases = 1..Len(d.cases)
    BY <2>3
  <2> QED BY <2>3, <2>4, <2>5
<1> HIDE DEF all, names
<1>5. ASSUME NEW i \in 1..Len(names)
      PROVE  /\ cases[i] = CasesOf(order, names[i]) /\ cases[i] \in Seq(CaseId)
             /\ \A j, k \in 1..Len(cases[i]) : cases[i][j] = cases[i][k] => j = k
  <2>1. PICK d \in all : d.axis = names[i]
    BY <1>2
  <2>2. cases[i] = CasesOf(order, names[i])
    OBVIOUS
  <2>3. cases[i] = d.cases
    BY <1>3, <2>1, <2>2
  <2> QED BY <1>4, <2>2, <2>3
<1>6. {d.axis : d \in all} = ToSet(names)
  <2>1. DOMAIN names = 1..Len(names)
    BY <1>2
  <2>2. \A a : a \in ToSet(names) <=> \E i \in 1..Len(names) : names[i] = a
    BY <2>1 DEF ToSet
  <2> DEFINE axes == {d.axis : d \in all}
  <2>3. \A a : a \in axes <=> \E d \in all : d.axis = a
    OBVIOUS
  <2> HIDE DEF axes
  <2>4. \A a : a \in axes <=> a \in ToSet(names)
    BY <1>2, <2>2, <2>3, Zenon
  <2>5. axes = ToSet(names)
    BY <2>4, Zenon
  <2> QED BY <2>5 DEF axes
<1>7. \A d \in all : \A i \in 1..Len(names) : d.axis = names[i] => d.cases = cases[i]
  BY <1>3
<1> HIDE DEF cases
<1>8. Merged(order, names, cases)
  BY <1>2, <1>5, <1>6, <1>7 DEF Merged, all, names
<1> QED BY <1>8

(* Two declarations that disagree cannot both agree with the first.         *)
LEMMA DisagreementRefused ==
  ASSUME decl \in Declarations, NEW order \in Orders, NEW f \in Fixture, NEW g \in Fixture,
         NEW d \in ToSet(decl[f]), NEW e \in ToSet(decl[g]), d.axis = e.axis, d.cases # e.cases
  PROVE  Inconsistent(order)
<1>1. d \in ToSet(Declared(order)) /\ e \in ToSet(Declared(order))
  BY DeclaredFacts
<1> QED BY <1>1 DEF Inconsistent

LEMMA AgreementAccepted ==
  ASSUME decl \in Declarations, NEW order \in Orders,
         \A f, g \in Fixture : \A d \in ToSet(decl[f]), e \in ToSet(decl[g]) :
           d.axis = e.axis => d.cases = e.cases
  PROVE  ~Inconsistent(order)
<1> SUFFICES ASSUME NEW d \in ToSet(Declared(order)) PROVE d.cases = CasesOf(order, d.axis)
  BY DEF Inconsistent
<1>1. Declared(order) \in Seq(Declaration)
  BY DeclaredFacts
<1>2. PICK e \in ToSet(Declared(order)) : e.axis = d.axis /\ CasesOf(order, d.axis) = e.cases
  BY <1>1, CasesOfFacts
<1>3. PICK f \in Fixture : d \in ToSet(decl[f])
  BY DeclaredFacts
<1>4. PICK g \in Fixture : e \in ToSet(decl[g])
  BY DeclaredFacts
<1> QED BY <1>2, <1>3, <1>4

-----------------------------------------------------------------------------
(* The number of combinations is the product of the numbers of cases.       *)
LEMMA CaseCountFacts ==
  ASSUME NEW order, NEW n \in Nat, NEW b \in [1..n -> Nat], Bases(order) = b
  PROVE  \E f : Products(f, n, b) /\ CaseCount(order) = f[n]
<1> DEFINE D == Nat
           e == 1
           Def(g, i) == IF i = 0 THEN 1 ELSE g[i - 1] * b[i]
           F == CHOOSE g : g = [i \in 0..n |-> Def(g, i)]
           step == [k \in 1..n |-> [q \in D |-> q * b[k]]]
<1>1. Len(b) = n /\ \A i \in 1..n : b[i] \in Nat
  OBVIOUS
<1>2. step \in [1..n -> [D -> D]] /\ e \in D /\ \A k \in 1..n, q \in D : step[k][q] = q * b[k]
  <2>1. ASSUME NEW k \in 1..n, NEW q \in D PROVE q * b[k] \in D
    BY <1>1
  <2> HIDE DEF D
  <2>2. e \in D
    BY DEF D
  <2> QED BY <2>1, <2>2
<1>3. PICK f \in [0..n -> D] : Recurs(f, n, e, step)
  <2> HIDE DEF D, e, step
  <2> QED BY <1>2, RecursionSolved
<1>4. f[0] = 1 /\ \A i \in 1..n : f[i] = f[i - 1] * b[i]
  <2>1. \A i \in 1..n : f[i] = step[i][f[i - 1]] /\ f[i - 1] \in D
    <3>1. \A i \in 1..n : i - 1 \in 0..n
      OBVIOUS
    <3>2. \A i \in 1..n : f[i] = step[i][f[i - 1]]
      BY <1>3, Zenon DEF Recurs
    <3> HIDE DEF D, step
    <3> QED BY <3>1, <3>2
  <2>2. f[0] = e
    BY <1>3 DEF Recurs
  <2> HIDE DEF step, D
  <2>3. \A i \in 1..n : f[i] = f[i - 1] * b[i]
    BY <1>2, <2>1
  <2> QED BY <2>2, <2>3
<1>5. Products(f, n, b)
  BY <1>4 DEF Products
<1>6. CaseCount(order) = F[n]
  BY <1>1 DEF CaseCount
<1>7. F = [i \in 0..n |-> Def(F, i)]
  <2>1. f = [i \in 0..n |-> Def(f, i)]
    <3>1. \A i \in 0..n : f[i] = Def(f, i)
      <4> TAKE i \in 0..n
      <4>1. CASE i = 0
        BY <1>4, <4>1
      <4>2. CASE i # 0
        <5>1. i \in 1..n
          BY <4>2
        <5> QED BY <1>4, <4>2, <5>1, Zenon
      <4> QED BY <4>1, <4>2
    <3> HIDE DEF Def
    <3> QED BY <3>1
  <2> HIDE DEF Def
  <2> QED BY <2>1
<1>8. \A i \in 0..n : F[i] = Def(F, i)
  <2> HIDE DEF Def, F
  <2> QED BY <1>7
<1> HIDE DEF F
<1> DEFINE S == {i \in 0..n : F[i] = f[i]}
<1>9. 0 \in S
  BY <1>4, <1>8
<1>10. ASSUME NEW i \in 1..n, i - 1 \in S PROVE i \in S
  <2>1. i \in 0..n /\ i # 0
    OBVIOUS
  <2>2. F[i] = F[i - 1] * b[i]
    BY <1>8, <2>1, Zenon
  <2>3. F[i - 1] = f[i - 1]
    BY <1>10
  <2>4. f[i] = f[i - 1] * b[i]
    BY <1>4
  <2> QED BY <2>1, <2>2, <2>3, <2>4
<1>11. \A i \in 0..n : i \in S
  <2> HIDE DEF S
  <2> QED BY <1>9, <1>10, UpToInduction
<1>12. n \in 0..n
  OBVIOUS
<1> QED BY <1>5, <1>6, <1>11, <1>12

(* The index without its last digits, one after the other.                  *)
LEMMA DropFacts ==
  ASSUME NEW order, NEW n \in Nat, NEW b \in [1..n -> Nat], Bases(order) = b,
         \A i \in 1..n : b[i] # 0, NEW x \in Nat
  PROVE  Dropped(DropDigits(order, x), x, n, b)
<1> DEFINE D == Nat
           Def(g, k) == IF k = 0 THEN x ELSE g[k - 1] \div b[n - k + 1]
           F == CHOOSE g : g = [k \in 0..n |-> Def(g, k)]
           step == [k \in 1..n |-> [q \in D |-> q \div b[n - k + 1]]]
<1>1. Len(b) = n /\ \A k \in 1..n : n - k + 1 \in 1..n /\ b[n - k + 1] \in Nat \ {0}
  <2>1. \A k \in 1..n : n - k + 1 \in 1..n
    OBVIOUS
  <2> QED BY <2>1
<1>2. step \in [1..n -> [D -> D]] /\ \A k \in 1..n, q \in D : step[k][q] = q \div b[n - k + 1]
  <2>1. ASSUME NEW k \in 1..n, NEW q \in D PROVE q \div b[n - k + 1] \in D
    BY <1>1, DivMod
  <2> HIDE DEF D
  <2> QED BY <2>1
<1>3. PICK f \in [0..n -> D] : Recurs(f, n, x, step)
  <2>1. x \in D
    OBVIOUS
  <2> HIDE DEF D, step
  <2> QED BY <1>2, <2>1, RecursionSolved
<1>4. f[0] = x /\ \A k \in 1..n : f[k] = f[k - 1] \div b[n - k + 1]
  <2>1. \A k \in 1..n : f[k] = step[k][f[k - 1]] /\ f[k - 1] \in D
    <3>1. \A k \in 1..n : k - 1 \in 0..n
      OBVIOUS
    <3>2. \A k \in 1..n : f[k] = step[k][f[k - 1]]
      BY <1>3, Zenon DEF Recurs
    <3> HIDE DEF D, step
    <3> QED BY <3>1, <3>2
  <2>2. f[0] = x
    BY <1>3 DEF Recurs
  <2> HIDE DEF step, D
  <2>3. \A k \in 1..n : f[k] = f[k - 1] \div b[n - k + 1]
    BY <1>2, <2>1
  <2> QED BY <2>2, <2>3
<1>5. DropDigits(order, x) = F
  BY <1>1 DEF DropDigits
<1>6. F = [k \in 0..n |-> Def(F, k)]
  <2>1. f = [k \in 0..n |-> Def(f, k)]
    <3>1. \A k \in 0..n : f[k] = Def(f, k)
      <4> TAKE k \in 0..n
      <4>1. CASE k = 0
        BY <1>4, <4>1
      <4>2. CASE k # 0
        <5>1. k \in 1..n
          BY <4>2
        <5> QED BY <1>4, <4>2, <5>1, Zenon
      <4> QED BY <4>1, <4>2
    <3> HIDE DEF Def
    <3> QED BY <3>1
  <2> HIDE DEF Def
  <2> QED BY <2>1
<1>7. DOMAIN F = 0..n /\ \A k \in 0..n : F[k] = Def(F, k)
  <2> HIDE DEF Def, F
  <2> QED BY <1>6
<1>8. F = [k \in 0..n |-> F[k]]
  <2> HIDE DEF F
  <2> QED BY <1>6, <1>7
<1> HIDE DEF F
<1> DEFINE S == {k \in 0..n : F[k] = f[k]}
<1>9. 0 \in S
  BY <1>4, <1>7
<1>10. ASSUME NEW k \in 1..n, k - 1 \in S PROVE k \in S
  <2>1. k \in 0..n /\ k # 0
    OBVIOUS
  <2>2. F[k] = F[k - 1] \div b[n - k + 1]
    BY <1>7, <2>1, Zenon
  <2>3. F[k - 1] = f[k - 1]
    BY <1>10
  <2>4. f[k] = f[k - 1] \div b[n - k + 1]
    BY <1>4
  <2> QED BY <2>1, <2>2, <2>3, <2>4
<1>11. \A k \in 0..n : k \in S
  <2> HIDE DEF S
  <2> QED BY <1>9, <1>10, UpToInduction
<1>12. F = f
  <2>1. \A k \in 0..n : F[k] = f[k]
    BY <1>11
  <2> QED BY <1>8, <2>1
<1>13. Dropped(f, x, n, b)
  BY <1>4 DEF Dropped
<1> QED BY <1>5, <1>12, <1>13

(* Where there is a number below the product, no base is zero.              *)
LEMMA BasesNonzero ==
  ASSUME NEW n \in Nat, NEW b \in [1..n -> Nat], NEW f, Products(f, n, b), f[n] > 0
  PROVE  AllNonzero(b, n)
<1>1. f \in [0..n -> Nat] /\ f[0] = 1 /\ \A i \in 1..n : f[i] = f[i - 1] * b[i]
  BY DEF Products
<1> DEFINE S == {i \in 0..n : f[i] # 0 => \A j \in 1..i : b[j] # 0}
<1>2. 0 \in S
  OBVIOUS
<1>3. ASSUME NEW i \in 1..n, i - 1 \in S PROVE i \in S
  <2>1. f[i] = f[i - 1] * b[i] /\ f[i - 1] \in Nat /\ b[i] \in Nat /\ i \in 0..n
    BY <1>1
  <2>2. ASSUME f[i] # 0 PROVE f[i - 1] # 0 /\ b[i] # 0
    BY <2>1, <2>2
  <2>3. \A j \in 1..i : j \in 1..(i - 1) \/ j = i
    OBVIOUS
  <2> QED BY <1>3, <2>1, <2>2, <2>3
<1>4. \A i \in 0..n : i \in S
  <2> HIDE DEF S
  <2> QED BY <1>2, <1>3, UpToInduction
<1>5. n \in S
  BY <1>4
<1> QED BY <1>1, <1>5 DEF AllNonzero

-----------------------------------------------------------------------------
(* The expansion.                                                           *)
LEMMA BasesFacts ==
  ASSUME NEW order, NEW names, NEW cases, Merged(order, names, cases)
  PROVE  /\ Len(names) \in Nat /\ DOMAIN names = 1..Len(names)
         /\ Bases(order) \in [1..Len(names) -> Nat]
         /\ \A i \in 1..Len(names) : Bases(order)[i] = Len(cases[i]) /\ Len(cases[i]) \in Nat
<1>1. names = Names(order) /\ names \in Seq(Axis)
  BY DEF Merged
<1>2. \A i \in 1..Len(names) : cases[i] = CasesOf(order, names[i]) /\ cases[i] \in Seq(CaseId)
  BY DEF Merged
<1>3. \A i \in 1..Len(names) : Len(cases[i]) \in Nat
  BY <1>2
<1>4. Bases(order) = [i \in 1..Len(names) |-> Len(CasesOf(order, names[i]))]
  BY <1>1 DEF Bases
<1>5. Bases(order) = [i \in 1..Len(names) |-> Len(cases[i])]
  BY <1>2, <1>4
<1> QED BY <1>1, <1>3, <1>5

(* The digit of an index at axis i.                                         *)
DigitAt(order, names, b, x, i) == DropDigits(order, x)[Len(names) - i] % b[i]

(* What the index x spells: the case of axis i is that of its digit.        *)
Spelled(order, names, cases, b, x) ==
  /\ CaseAt(order, x) = [a \in ToSet(names) |-> CaseAt(order, x)[a]]
  /\ Dropped(DropDigits(order, x), x, Len(names), b)
  /\ \A i \in 1..Len(names) :
       /\ DigitAt(order, names, b, x, i) \in Nat
       /\ DigitAt(order, names, b, x, i) + 1 \in 1..Len(cases[i])
       /\ CaseAt(order, x)[names[i]] = cases[i][DigitAt(order, names, b, x, i) + 1]

LEMMA CaseAtFacts ==
  ASSUME NEW order, NEW names, NEW cases, Merged(order, names, cases),
         NEW b, b = Bases(order), AllNonzero(b, Len(names)), NEW x \in Nat
  PROVE  Spelled(order, names, cases, b, x)
<1> DEFINE n == Len(names)
           d == DropDigits(order, x)
           digit == [i \in DOMAIN names |-> d[n - i] % b[i]]
           Place(a) == CHOOSE k \in DOMAIN names : names[k] = a
           G == [a \in ToSet(names) |-> CasesOf(order, a)[digit[Place(a)] + 1]]
<1>1. /\ n \in Nat /\ DOMAIN names = 1..n /\ b \in [1..n -> Nat]
      /\ \A i \in 1..n : b[i] = Len(cases[i]) /\ Len(cases[i]) \in Nat
  BY BasesFacts
<1>2. Dropped(d, x, n, b)
  BY <1>1, DropFacts DEF AllNonzero
<1>3. CaseAt(order, x) = G
  BY DEF CaseAt, Merged
<1>4. ASSUME NEW i \in 1..n
      PROVE  digit[i] \in 0..(Len(cases[i]) - 1) /\ digit[i] = DigitAt(order, names, b, x, i)
  <2>1. d[n - i] \in Nat
    <3>1. d \in [0..n -> Nat] /\ n - i \in 0..n
      BY <1>1, <1>2 DEF Dropped
    <3> HIDE DEF d, n
    <3> QED BY <3>1
  <2>2. b[i] \in Nat \ {0} /\ b[i] = Len(cases[i])
    BY <1>1 DEF AllNonzero
  <2>3. digit[i] = d[n - i] % b[i]
    BY <1>1
  <2>4. d[n - i] % b[i] \in 0..(b[i] - 1)
    <3> HIDE DEF d, n
    <3> QED BY <2>1, <2>2, DivMod
  <2> HIDE DEF digit
  <2> QED BY <2>2, <2>3, <2>4 DEF DigitAt
<1>5. ASSUME NEW i \in 1..n
      PROVE  names[i] \in ToSet(names) /\ Place(names[i]) = i /\ CasesOf(order, names[i]) = cases[i]
  <2>1. i \in DOMAIN names
    BY <1>1
  <2>2. \A j \in DOMAIN names : names[j] = names[i] => j = i
    BY <1>1 DEF Merged
  <2>3. CasesOf(order, names[i]) = cases[i]
    BY DEF Merged
  <2> QED BY <2>1, <2>2, <2>3 DEF ToSet
<1> HIDE DEF digit, Place, d
<1>6. ASSUME NEW i \in 1..n PROVE G[names[i]] = cases[i][DigitAt(order, names, b, x, i) + 1]
  BY <1>4, <1>5
<1>7. G = [a \in ToSet(names) |-> G[a]]
  OBVIOUS
<1> HIDE DEF G
<1>8. /\ CaseAt(order, x) = [a \in ToSet(names) |-> CaseAt(order, x)[a]]
      /\ \A i \in 1..n : CaseAt(order, x)[names[i]] = cases[i][DigitAt(order, names, b, x, i) + 1]
  BY <1>3, <1>6, <1>7
<1>9. ASSUME NEW i \in 1..n
      PROVE  /\ DigitAt(order, names, b, x, i) \in Nat
             /\ DigitAt(order, names, b, x, i) + 1 \in 1..Len(cases[i])
  <2> DEFINE k == DigitAt(order, names, b, x, i)
  <2>1. k \in 0..(Len(cases[i]) - 1) /\ Len(cases[i]) \in Nat
    BY <1>1, <1>4
  <2> HIDE DEF k
  <2>2. k \in Nat /\ k + 1 \in 1..Len(cases[i])
    BY <2>1
  <2> QED BY <2>2 DEF k
<1> QED BY <1>2, <1>8, <1>9, Zenon DEF Spelled, d

LEMMA ExpansionSound ==
  ASSUME NEW order, NEW names, NEW cases, Merged(order, names, cases),
         AllNonzero(Bases(order), Len(names)), NEW x \in Nat
  PROVE  CaseAt(order, x) \in Combinations
<1> DEFINE all == UNION {ToSet(decl[f]) : f \in Fixture}
           b == Bases(order)
           n == Len(names)
           g == CaseAt(order, x)
           T == ToSet(names)
<1>1. /\ g = [a \in T |-> g[a]]
      /\ \A i \in 1..n : /\ DigitAt(order, names, b, x, i) + 1 \in 1..Len(cases[i])
                         /\ g[names[i]] = cases[i][DigitAt(order, names, b, x, i) + 1]
  <2>1. Spelled(order, names, cases, b, x)
    BY CaseAtFacts, Zenon
  <2> QED BY <2>1, Zenon DEF Spelled
<1>2. \A i \in 1..n : /\ cases[i] \in Seq(CaseId) /\ Len(cases[i]) \in Nat
                      /\ DOMAIN cases[i] = 1..Len(cases[i])
  <2>1. \A i \in 1..n : cases[i] \in Seq(CaseId)
    BY DEF Merged
  <2> QED BY <2>1
<1>3. {d.axis : d \in all} = T
  BY DEF Merged
<1>4. \A a \in T : \E i \in 1..n : names[i] = a
  <2>1. DOMAIN names = 1..n
    BY BasesFacts
  <2> QED BY <2>1 DEF ToSet
<1>5. \A d \in all, i \in 1..n : d.axis = names[i] => d.cases = cases[i]
  BY DEF Merged
<1>6. ASSUME NEW i \in 1..n PROVE g[names[i]] \in ToSet(cases[i]) /\ g[names[i]] \in CaseId
  <2> DEFINE k == DigitAt(order, names, b, x, i) + 1
  <2>1. k \in 1..Len(cases[i]) /\ g[names[i]] = cases[i][k]
    BY <1>1
  <2> HIDE DEF k, g
  <2> QED BY <1>2, <2>1 DEF ToSet
<1> HIDE DEF all, g, T, n
<1>7. \A a \in T : g[a] \in CaseId
  BY <1>4, <1>6
<1>8. g \in [T -> CaseId]
  BY <1>1, <1>7
<1>9. \A d \in all : g[d.axis] \in ToSet(d.cases)
  <2> TAKE d \in all
  <2>1. d.axis \in T
    BY <1>3
  <2> QED BY <1>4, <1>5, <1>6, <2>1
<1>10. g \in {h \in [{d.axis : d \in all} -> CaseId] : \A d \in all : h[d.axis] \in ToSet(d.cases)}
  BY <1>3, <1>8, <1>9
<1> QED BY <1>10 DEF Combinations, all, g

LEMMA ExpansionComplete ==
  ASSUME NEW order, NEW names, NEW cases, Merged(order, names, cases),
         NEW g \in Combinations
  PROVE  \E x \in 0..(CaseCount(order) - 1) : CaseAt(order, x) = g
<1> DEFINE all == UNION {ToSet(decl[f]) : f \in Fixture}
           b == Bases(order)
           n == Len(names)
           T == ToSet(names)
           Is(i, k) == k < Len(cases[i]) /\ cases[i][k + 1] = g[names[i]]
           c == [i \in 1..n |-> CHOOSE k \in Nat : Is(i, k)]
<1>1. /\ n \in Nat /\ DOMAIN names = 1..n /\ b \in [1..n -> Nat]
      /\ \A i \in 1..n : b[i] = Len(cases[i]) /\ Len(cases[i]) \in Nat
  BY BasesFacts
<1>2. {d.axis : d \in all} = T
  BY DEF Merged
<1>3. \A d \in all, i \in 1..n : d.axis = names[i] => d.cases = cases[i]
  BY DEF Merged
<1>4. g \in [T -> CaseId] /\ \A d \in all : g[d.axis] \in ToSet(d.cases)
  <2> HIDE DEF T
  <2> QED BY <1>2 DEF Combinations
<1>5. ASSUME NEW i \in 1..n PROVE \E k \in Nat : Is(i, k)
  <2>1. names[i] \in T
    BY <1>1 DEF ToSet
  <2>2. PICK d \in all : d.axis = names[i]
    <3> HIDE DEF all, T
    <3> QED BY <1>2, <2>1
  <2>3. g[names[i]] \in ToSet(cases[i])
    <3> HIDE DEF all
    <3> QED BY <1>3, <1>4, <2>2
  <2>4. cases[i] \in Seq(CaseId)
    BY DEF Merged
  <2>5. PICK j \in 1..Len(cases[i]) : cases[i][j] = g[names[i]]
    BY <2>3, <2>4 DEF ToSet
  <2>6. j - 1 \in Nat /\ j - 1 < Len(cases[i]) /\ (j - 1) + 1 = j
    BY <1>1
  <2> QED BY <2>5, <2>6
<1>6. \A i \in 1..n : c[i] \in Nat /\ Is(i, c[i])
  <2> HIDE DEF Is
  <2> QED BY <1>5
<1>7. c \in [1..n -> Nat]
  <2>1. c = [i \in 1..n |-> c[i]]
    OBVIOUS
  <2> HIDE DEF c
  <2> QED BY <1>6, <2>1
<1> HIDE DEF c, all
<1>8. PICK f : Products(f, n, b) /\ CaseCount(order) = f[n]
  BY <1>1, CaseCountFacts
<1>9. (\A i \in 1..n : c[i] < b[i]) /\ AllNonzero(b, n)
  BY <1>1, <1>6 DEF AllNonzero
<1>10. PICK x \in Nat : x < f[n] /\ DigitsAre(x, n, b, c)
  <2> HIDE DEF b, n, T
  <2> QED BY <1>1, <1>7, <1>8, <1>9, DigitsGiven, Zenon
<1> DEFINE G == CaseAt(order, x)
<1>11. /\ G = [a \in T |-> G[a]]
       /\ Dropped(DropDigits(order, x), x, n, b)
       /\ \A i \in 1..n : G[names[i]] = cases[i][DigitAt(order, names, b, x, i) + 1]
  <2>1. Spelled(order, names, cases, b, x)
    BY <1>9, CaseAtFacts, Zenon
  <2> QED BY <2>1, Zenon DEF Spelled
<1>12. \A i \in 1..n : DigitAt(order, names, b, x, i) = c[i]
  BY <1>10, <1>11, Zenon DEF DigitAt, DigitsAre
<1>13. \A i \in 1..n : G[names[i]] = g[names[i]]
  BY <1>6, <1>11, <1>12
<1>14. \A a \in T : \E i \in 1..n : names[i] = a
  BY <1>1 DEF ToSet
<1>15. \A a \in T : G[a] = g[a]
  BY <1>13, <1>14
<1>16. g = [a \in T |-> g[a]]
  <2> HIDE DEF T
  <2> QED BY <1>4
<1>17. G = g
  <2> HIDE DEF G, T
  <2> QED BY <1>11, <1>15, <1>16
<1>18. x \in 0..(CaseCount(order) - 1)
  <2>1. f[n] \in Nat
    BY <1>1, <1>8 DEF Products
  <2> QED BY <1>8, <1>10, <2>1
<1> QED BY <1>17, <1>18

LEMMA IndexNonzero ==
  ASSUME NEW order, NEW names, NEW cases, Merged(order, names, cases),
         NEW x \in 0..(CaseCount(order) - 1)
  PROVE  /\ x \in Nat
         /\ AllNonzero(Bases(order), Len(names))
         /\ \E f : Products(f, Len(names), Bases(order)) /\ CaseCount(order) = f[Len(names)]
                   /\ x < f[Len(names)]
<1> DEFINE b == Bases(order)
           n == Len(names)
<1>1. n \in Nat /\ b \in [1..n -> Nat]
  BY BasesFacts
<1>2. PICK f : Products(f, n, b) /\ CaseCount(order) = f[n]
  BY <1>1, CaseCountFacts
<1>3. f[n] \in Nat
  BY <1>1, <1>2 DEF Products
<1>4. x \in Nat /\ x < f[n] /\ f[n] > 0
  BY <1>2, <1>3
<1>5. AllNonzero(b, n)
  <2> HIDE DEF b, n
  <2> QED BY <1>1, <1>2, <1>4, BasesNonzero
<1> QED BY <1>2, <1>4, <1>5

LEMMA SameDigits ==
  ASSUME NEW order, NEW names, NEW cases, Merged(order, names, cases), NEW b, NEW x, NEW y,
         Spelled(order, names, cases, b, x), Spelled(order, names, cases, b, y),
         CaseAt(order, x) = CaseAt(order, y)
  PROVE  SameRest(DropDigits(order, x), DropDigits(order, y), Len(names), b)
<1> SUFFICES ASSUME NEW i \in 1..Len(names)
             PROVE  DigitAt(order, names, b, x, i) = DigitAt(order, names, b, y, i)
  BY DEF SameRest, DigitAt
<1> DEFINE j == DigitAt(order, names, b, x, i)
           k == DigitAt(order, names, b, y, i)
<1>1. j \in Nat /\ j + 1 \in 1..Len(cases[i]) /\ CaseAt(order, x)[names[i]] = cases[i][j + 1]
  BY Zenon DEF Spelled
<1>2. k \in Nat /\ k + 1 \in 1..Len(cases[i]) /\ CaseAt(order, y)[names[i]] = cases[i][k + 1]
  BY Zenon DEF Spelled
<1>3. \A p, q \in 1..Len(cases[i]) : cases[i][p] = cases[i][q] => p = q
  BY Zenon DEF Merged
<1> HIDE DEF j, k
<1>4. j + 1 = k + 1
  BY <1>1, <1>2, <1>3, Zenon
<1>5. j = k
  BY <1>1, <1>2, <1>4
<1> QED BY <1>5 DEF j, k

LEMMA ExpansionInjective ==
  ASSUME NEW order, NEW names, NEW cases, Merged(order, names, cases),
         NEW x \in 0..(CaseCount(order) - 1), NEW y \in 0..(CaseCount(order) - 1),
         CaseAt(order, x) = CaseAt(order, y)
  PROVE  x = y
<1> DEFINE b == Bases(order)
           n == Len(names)
           d == DropDigits(order, x)
           e == DropDigits(order, y)
<1>1. n \in Nat /\ b \in [1..n -> Nat] /\ \A i \in 1..n : Len(cases[i]) \in Nat
  BY BasesFacts
<1>2. x \in Nat /\ y \in Nat /\ AllNonzero(b, n)
  BY IndexNonzero
<1>3. PICK f : Products(f, n, b) /\ CaseCount(order) = f[n] /\ x < f[n]
  BY IndexNonzero
<1>4. y < f[n]
  <2>1. f[n] \in Nat
    BY <1>1, <1>3 DEF Products
  <2> QED BY <1>3, <2>1
<1>5. Spelled(order, names, cases, b, x) /\ Spelled(order, names, cases, b, y)
  BY <1>2, CaseAtFacts, Zenon
<1>7. SameRest(d, e, n, b)
  BY <1>5, SameDigits, Zenon
<1>8. Dropped(d, x, n, b) /\ Dropped(e, y, n, b)
  BY <1>5, Zenon DEF Spelled
<1> HIDE DEF b, n, d, e
<1> QED BY <1>1, <1>2, <1>3, <1>4, <1>7, <1>8, DigitsDetermine, Zenon

-----------------------------------------------------------------------------
(* What the declarations mean stands as long as they do.                    *)
LEMMA RowsStand ==
  ASSUME UNCHANGED <<decl, orderIn>>
  PROVE  Rows' = Rows /\ \A x : RowCase(x)' = RowCase(x)
<1>1. Rows' = Rows
  BY DEF Rows, CaseCount, Bases, Names, CasesOf, Declared
<1>2. ASSUME NEW x PROVE RowCase(x)' = RowCase(x)
  BY DEF RowCase, CaseAt, DropDigits, Bases, Names, CasesOf, Declared
<1> QED BY <1>1, <1>2

-----------------------------------------------------------------------------
(* The invariant: what the processes start from is fixed, and the rows are *)
(* there only once main has accepted the declarations.                      *)
CasesTypeOK ==
  /\ decl \in Declarations
  /\ orderIn \in [Process -> Orders]
  /\ phase \in {"collected", "expanded", "refused"}
  /\ DOMAIN ran \subseteq CaseJobs
  /\ turnedDown \subseteq CaseJobs

Accepted == phase = "expanded" => ~Inconsistent(orderIn[main])

LEMMA CasesInitHolds == CasesInit => CasesTypeOK /\ Accepted /\ NoJobIsRefused
BY DEF CasesInit, CasesTypeOK, Accepted, NoJobIsRefused

(* A step changes neither the declarations nor the jobs that are there.     *)
LEMMA CasesStepKeeps ==
  ASSUME CasesTypeOK, Accepted, [CasesNext]_casesVars
  PROVE  CasesTypeOK' /\ Accepted'
<1>1. UNCHANGED <<decl, orderIn>>
  BY DEF CasesNext, Expand, RunJob, Rest, casesVars
<1>2. Rows' = Rows
  BY <1>1, RowsStand
<1>3. Inconsistent(orderIn[main])' <=> Inconsistent(orderIn[main])
  BY <1>1 DEF Inconsistent, CasesOf, Declared
<1>4. CASE Expand
  <2>1. phase = "collected" /\ phase' \in {"refused", "expanded"} /\ UNCHANGED <<ran, turnedDown>>
        /\ (phase' = "expanded" => ~Inconsistent(orderIn[main]))
    BY <1>4 DEF Expand
  <2>2. DOMAIN ran = {} /\ turnedDown = {}
    BY <2>1 DEF CasesTypeOK, CaseJobs
  <2> QED BY <1>1, <1>3, <2>1, <2>2 DEF CasesTypeOK, Accepted
<1>5. ASSUME NEW p \in Runner, NEW j \in CaseJobs, RunJob(p, j[1], j[2])
      PROVE  CasesTypeOK' /\ Accepted'
  <2>1. UNCHANGED phase /\ CaseJobs' = CaseJobs
    BY <1>2, <1>5 DEF RunJob, CaseJobs
  <2>2. j = <<j[1], j[2]>>
    BY DEF CaseJobs
  <2>3. DOMAIN ran' \subseteq DOMAIN ran \cup {j} /\ turnedDown' \subseteq turnedDown \cup {j}
    BY <1>5, <2>2 DEF RunJob
  <2> QED BY <1>1, <1>3, <1>5, <2>1, <2>3 DEF CasesTypeOK, Accepted
<1>6. CASE Rest \/ UNCHANGED casesVars
  <2>1. UNCHANGED <<phase, ran, turnedDown>>
    BY <1>6 DEF Rest, casesVars
  <2>2. CaseJobs' = CaseJobs
    BY <1>2, <2>1 DEF CaseJobs
  <2> QED BY <1>1, <1>3, <2>1, <2>2 DEF CasesTypeOK, Accepted
<1> QED BY <1>4, <1>5, <1>6 DEF CasesNext

LEMMA ExpansionHolds == CasesTypeOK => ExpansionIsProduct
<1> SUFFICES ASSUME CasesTypeOK, NEW p \in Process
             PROVE LET order == orderIn[p]
                       disagree == \E f, g \in Fixture : \E d \in ToSet(decl[f]), e \in ToSet(decl[g]) :
                                     d.axis = e.axis /\ d.cases # e.cases
                       indices == 0..(CaseCount(order) - 1)
                   IN  IF disagree
                       THEN Inconsistent(order)
                       ELSE /\ ~Inconsistent(order)
                            /\ {CaseAt(order, ix) : ix \in indices} = Combinations
                            /\ \A i, j \in indices : CaseAt(order, i) = CaseAt(order, j) => i = j
  BY DEF ExpansionIsProduct
<1> DEFINE order == orderIn[p]
           disagree == \E f, g \in Fixture : \E d \in ToSet(decl[f]), e \in ToSet(decl[g]) :
                         d.axis = e.axis /\ d.cases # e.cases
           indices == 0..(CaseCount(order) - 1)
<1>1. order \in Orders /\ decl \in Declarations
  BY DEF CasesTypeOK
<1> HIDE DEF order
<1>2. CASE disagree
  <2>1. Inconsistent(order)
    BY <1>1, <1>2, DisagreementRefused
  <2> QED BY <1>2, <2>1 DEF order
<1>3. CASE ~disagree
  <2>1. ~Inconsistent(order)
    BY <1>1, <1>3, AgreementAccepted
  <2>2. PICK names, cases : Merged(order, names, cases)
    BY <1>1, <2>1, MergedFacts
  <2>3. ASSUME NEW ix \in indices PROVE CaseAt(order, ix) \in Combinations
    <3>1. ix \in Nat /\ AllNonzero(Bases(order), Len(names))
      BY <2>2, IndexNonzero
    <3> QED BY <2>2, <3>1, ExpansionSound
  <2>4. ASSUME NEW g \in Combinations PROVE \E ix \in indices : CaseAt(order, ix) = g
    BY <2>2, ExpansionComplete
  <2>5. ASSUME NEW i \in indices, NEW j \in indices, CaseAt(order, i) = CaseAt(order, j)
        PROVE  i = j
    BY <2>2, <2>5, ExpansionInjective
  <2> HIDE DEF indices
  <2>6. {CaseAt(order, ix) : ix \in indices} = Combinations
    BY <2>3, <2>4
  <2>7. \A i, j \in indices : CaseAt(order, i) = CaseAt(order, j) => i = j
    BY <2>5
  <2> QED BY <1>3, <2>1, <2>6, <2>7 DEF order, indices
<1> QED BY <1>2, <1>3 DEF order

(* Two expansions of the same declarations have the same number of cases.   *)
LEMMA SameCount ==
  ASSUME CasesTypeOK, ExpansionIsProduct, NEW p \in Process, NEW q \in Process,
         ~Inconsistent(orderIn[p]), CaseCount(orderIn[p]) \in Nat,
         CaseCount(orderIn[q]) \in Nat
  PROVE  ~Inconsistent(orderIn[q]) /\ CaseCount(orderIn[p]) = CaseCount(orderIn[q])
<1> DEFINE agree == ~\E f, g \in Fixture : \E d \in ToSet(decl[f]), e \in ToSet(decl[g]) :
                       d.axis = e.axis /\ d.cases # e.cases
<1>1. agree /\ ~Inconsistent(orderIn[q])
  BY DEF ExpansionIsProduct
<1>2. ASSUME NEW r \in Process, CaseCount(orderIn[r]) \in Nat
      PROVE  Cardinality(Combinations) = CaseCount(orderIn[r])
  <2> DEFINE n == CaseCount(orderIn[r])
             S == 0..(n - 1)
             F == [ix \in S |-> CaseAt(orderIn[r], ix)]
  <2>1. /\ {CaseAt(orderIn[r], ix) : ix \in S} = Combinations
        /\ \A i, j \in S : CaseAt(orderIn[r], i) = CaseAt(orderIn[r], j) => i = j
    BY <1>1 DEF ExpansionIsProduct
  <2>2. n \in Nat
    BY <1>2
  <2> HIDE DEF n, S
  <2>3. F \in Bijection(S, Combinations)
    <3>1. F \in [S -> Combinations]
      BY <2>1
    <3>2. \A i, j \in S : F[i] = F[j] => i = j
      BY <2>1
    <3>3. \A c \in Combinations : \E i \in S : F[i] = c
      BY <2>1
    <3> QED BY <3>1, <3>2, <3>3, Fun_IsInj, Fun_IsSurj, Fun_IsBij
  <2>4. IsFiniteSet(S) /\ Cardinality(S) = n
    <3>1. 0 \in Int /\ n - 1 \in Int /\ n - 1 - 0 + 1 = n /\ (0 > n - 1 => n = 0)
      BY <2>2
    <3>2. IsFiniteSet(0..(n - 1))
          /\ Cardinality(0..(n - 1)) = IF 0 > n - 1 THEN 0 ELSE n - 1 - 0 + 1
      BY <3>1, FS_Interval
    <3> QED BY <3>1, <3>2 DEF S
  <2>5. Cardinality(Combinations) = Cardinality(S)
    BY <2>3, <2>4, FS_Bijection DEF ExistsBijection
  <2> QED BY <2>4, <2>5 DEF n
<1> QED BY <1>1, <1>2

(* The number of cases of an expansion that is accepted.                    *)
LEMMA CountIsNat ==
  ASSUME CasesTypeOK, NEW p \in Process, ~Inconsistent(orderIn[p])
  PROVE  CaseCount(orderIn[p]) \in Nat
<1> DEFINE order == orderIn[p]
<1>1. order \in Orders /\ decl \in Declarations
  BY DEF CasesTypeOK
<1> HIDE DEF order
<1>2. PICK names, cases : Merged(order, names, cases)
  BY <1>1, MergedFacts DEF order
<1> DEFINE b == Bases(order)
           n == Len(names)
<1>3. n \in Nat /\ b \in [1..n -> Nat]
  BY <1>2, BasesFacts
<1>4. PICK f : Products(f, n, b) /\ CaseCount(order) = f[n]
  BY <1>3, CaseCountFacts
<1>5. CaseCount(order) \in Nat
  BY <1>3, <1>4 DEF Products
<1> QED BY <1>5 DEF order

(* Whoever takes a job finds a case at its index.                           *)
LEMMA NoneRefused ==
  ASSUME CasesTypeOK, Accepted, NoJobIsRefused, [CasesNext]_casesVars
  PROVE  NoJobIsRefused'
<1>1. ExpansionIsProduct
  BY ExpansionHolds
<1>2. ASSUME NEW p \in Runner, NEW j \in CaseJobs, RunJob(p, j[1], j[2])
      PROVE  UNCHANGED turnedDown
  <2>1. phase = "expanded" /\ j[1] \in Rows
    BY DEF CaseJobs
  <2>2. main \in Process /\ p \in Process /\ ~Inconsistent(orderIn[main])
    BY <2>1 DEF Accepted, Process, Runner
  <2>3. ~Inconsistent(orderIn[p])
    BY <1>1, <2>2 DEF ExpansionIsProduct
  <2>4. CaseCount(orderIn[p]) \in Nat /\ CaseCount(orderIn[main]) \in Nat
    BY <2>2, <2>3, CountIsNat
  <2>5. CaseCount(orderIn[p]) = CaseCount(orderIn[main])
    BY <1>1, <2>2, <2>3, <2>4, SameCount
  <2>6. ~(j[1] >= CaseCount(orderIn[p]))
    BY <2>1, <2>4, <2>5 DEF Rows
  <2> QED BY <1>2, <2>3, <2>6 DEF RunJob
<1> QED BY <1>2 DEF CasesNext, Expand, Rest, casesVars, NoJobIsRefused

(***************************************************************************)
(* The variables of the processes keep their types: only jobs that main    *)
(* could build are run (scenario_case_runs, cli.py).                       *)
(***************************************************************************)
THEOREM CasesTypeCorrect == CasesSpec => [](CasesTypeOK /\ Accepted)
BY CasesInitHolds, CasesStepKeeps, PTL DEF CasesSpec

(***************************************************************************)
(* In whatever order a process merges the axes of the fixtures, it refuses *)
(* exactly the declarations that disagree, and otherwise every index names *)
(* one combination and every combination has one index: for any number of  *)
(* fixtures, axes and cases (scenario_case_runs, fixture_graph.py).        *)
(***************************************************************************)
THEOREM ExpansionIsProductHolds == CasesSpec => []ExpansionIsProduct
<1> QED BY CasesTypeCorrect, ExpansionHolds, PTL

(***************************************************************************)
(* No process refuses a job that main built, whatever the hash seeds: all  *)
(* accept the same declarations and count the same cases.                  *)
(***************************************************************************)
THEOREM NoJobIsRefusedHolds == CasesSpec => []NoJobIsRefused
BY CasesInitHolds, CasesStepKeeps, NoneRefused, PTL DEF CasesSpec

-----------------------------------------------------------------------------
(* AgentTurn: the tree of tool calls.                                      *)
-----------------------------------------------------------------------------
Agent == Call \cup {Root}

Status == {"waiting", "running"} \cup Outcome

TurnTypeOK ==
  /\ adapter \in Adapters
  /\ call \in [Call -> Status]
  /\ caller \in [Call -> Agent]
  /\ inToolset \in SUBSET Call
  /\ batch \in [Call -> Seq(Call)]
  /\ unnamed \in SUBSET Call
  /\ texts \in Seq([of : Agent, erred : BOOLEAN])
  /\ nodes \in Seq([call : Call, under : Nat, outcome : Outcome \cup {"pending"}])
  /\ open \in Seq(Nat)
  /\ node \in [Call -> Nat]
  /\ emitted \in SUBSET Call
  /\ said \in SUBSET Agent
  /\ failing \in SUBSET Agent
  /\ turn \in [status : {"streaming", "ok", "error"}, tree : BOOLEAN]

(* A node is pending while its call runs and can be found by the call; then *)
(* it has the outcome of the call, and no call has two.                     *)
NodesMatchCalls ==
  /\ \A i \in DOMAIN nodes :
       LET c == nodes[i].call
       IN  \/ call[c] = "running" /\ node[c] = i /\ nodes[i].outcome = "pending"
           \/ call[c] \in Outcome /\ node[c] = 0 /\ nodes[i].outcome = call[c]
  /\ \A i, j \in DOMAIN nodes : nodes[i].call = nodes[j].call => i = j
  /\ \A c \in Call :
       /\ node[c] # 0 => node[c] \in DOMAIN nodes /\ nodes[node[c]].call = c
       /\ c \in emitted <=> call[c] \in Outcome
       /\ c \in emitted => \E i \in DOMAIN nodes : nodes[i].call = c
       /\ call[c] = "running" /\ c \notin unnamed => node[c] # 0

(* A node hangs under an earlier one, or under the root.                    *)
NodesUnderEarlier == \A i \in DOMAIN nodes : nodes[i].under < i

(* The stack holds the nodes of the named calls that run, in their order.   *)
StackIsOpenCalls ==
  /\ \A n : n \in ToSet(open) <=> \E c \in Call : node[c] # 0 /\ node[c] = n
  /\ \A i, j \in DOMAIN open : i < j => open[i] < open[j]

(* A call runs as long as the calls it made, and was announced before them. *)
CallersRun ==
  /\ \A c \in Call : Running(c) /\ caller[c] # Root =>
       /\ Running(caller[c])
       /\ node[c] # 0 /\ node[caller[c]] # 0 => node[caller[c]] < node[c]
  /\ \A c \in Call : call[c] # "waiting" /\ caller[c] # Root => call[caller[c]] # "waiting"

(* The calls announced together know each other and share their caller.     *)
BatchesHold ==
  /\ \A c \in Call : call[c] # "waiting" =>
       /\ c \in ToSet(batch[c])
       /\ \A d \in ToSet(batch[c]) :
            call[d] # "waiting" /\ batch[d] = batch[c] /\ caller[d] = caller[c]
  /\ \A c, d \in Call : Running(c) /\ Running(d) /\ caller[c] = caller[d] =>
       /\ batch[c] = batch[d]
       /\ unnamed = {} /\ d = Last(batch[c]) => node[c] <= node[d]

(* Of two open calls of different callers, the later one was announced when *)
(* the last call of the batch of the earlier one had begun to make calls.   *)
LastCallGoesOn ==
  Orderly =>
    \A c, d \in Call : Running(c) /\ Running(d) /\ node[c] < node[d] /\ caller[c] # caller[d] =>
      \E e \in Call : Running(e) /\ caller[e] = Last(batch[c]) /\ node[e] <= node[d]

UnnamedBegan == \A c \in unnamed : call[c] # "waiting" /\ adapter = "langchain"

TextsKept == \A i \in DOMAIN texts : texts[i].erred => texts[i].of \in said \cap failing

TurnInv ==
  /\ TurnTypeOK
  /\ NodesMatchCalls
  /\ NodesUnderEarlier
  /\ StackIsOpenCalls
  /\ CallersRun
  /\ BatchesHold
  /\ LastCallGoesOn
  /\ UnnamedBegan
  /\ TextsKept
  /\ OuterCallsAreSiblings
  /\ TreeMirrorsCalls
  /\ ErrorsReachStatus
-----------------------------------------------------------------------------
(* Without(s, out) keeps the elements that are not in out, in their order.  *)
LEMMA WithoutFacts ==
  ASSUME NEW D, NEW s \in Seq(D), NEW out
  PROVE  /\ Without(s, out) \in Seq(D)
         /\ ToSet(Without(s, out)) = ToSet(s) \ out
         /\ \A i, j \in DOMAIN Without(s, out) : i < j =>
              \E a, b \in DOMAIN s : a < b /\ Without(s, out)[i] = s[a] /\ Without(s, out)[j] = s[b]
         /\ ToSet(s) \cap out = {} => Without(s, out) = s
<1> DEFINE n == Len(s)
           Def(g, k) == IF k = 0 THEN <<>>
                        ELSE IF s[k] \in out THEN g[k - 1] ELSE Append(g[k - 1], s[k])
           f == CHOOSE g : g = [k \in 0..n |-> Def(g, k)]
           step == [k \in 1..n |-> [q \in Seq(D) |->
                      IF s[k] \in out THEN q ELSE Append(q, s[k])]]
<1>0. n \in Nat /\ DOMAIN s = 1..n /\ \A k \in 1..n : s[k] \in D
  OBVIOUS
<1>1. step \in [1..n -> [Seq(D) -> Seq(D)]]
  BY <1>0
<1>2. PICK g \in [0..n -> Seq(D)] : g[0] = <<>> /\ \A k \in 1..n : g[k] = step[k][g[k-1]]
  <2> DEFINE e == <<>>
             T == Seq(D)
  <2>1. e \in T /\ n \in Nat /\ step \in [1..n -> [T -> T]]
    BY <1>0, <1>1
  <2> HIDE DEF step, n, e, T
  <2>2. PICK g \in [0..n -> T] : Recurs(g, n, e, step)
    BY <2>1, RecursionSolved
  <2>3. g[0] = e /\ \A k \in 1..n : g[k] = step[k][g[k-1]]
    BY <2>2 DEF Recurs
  <2> QED BY <2>2, <2>3 DEF e, T
<1>3. \A k \in 0..n : g[k] = Def(g, k)
  <2> TAKE k \in 0..n
  <2>1. CASE k = 0
    BY <1>2, <2>1
  <2>2. CASE k # 0
    <3>1. k \in 1..n /\ g[k-1] \in Seq(D)
      BY <2>2, <1>0
    <3>2. step[k][g[k-1]] = IF s[k] \in out THEN g[k-1] ELSE Append(g[k-1], s[k])
      BY <3>1
    <3> QED BY <3>1, <3>2, <1>2, <2>2
  <2> QED BY <2>1, <2>2
<1>4. g = [k \in 0..n |-> Def(g, k)]
  <2> HIDE DEF Def, n
  <2> QED BY <1>2, <1>3
<1>5. f = [k \in 0..n |-> Def(f, k)]
  <2> HIDE DEF Def, n
  <2> QED BY <1>4
<1>6. Without(s, out) = f[n]
  BY DEF Without
<1>7. \A k \in 0..n : f[k] = Def(f, k)
  <2> HIDE DEF f, Def, n
  <2> QED BY <1>5
<1> HIDE DEF f, step
<1> DEFINE Good(k) ==
             /\ f[k] \in Seq(D)
             /\ \A e : (\E i \in 1..Len(f[k]) : f[k][i] = e) <=> (\E a \in 1..k : s[a] = e) /\ e \notin out
             /\ \A i, j \in 1..Len(f[k]) : i < j =>
                  \E a, b \in 1..k : a < b /\ f[k][i] = s[a] /\ f[k][j] = s[b]
             /\ (\A a \in 1..k : s[a] \notin out) => Len(f[k]) = k /\ \A a \in 1..k : f[k][a] = s[a]
           S == {k \in Nat : k <= n => Good(k)}
<1>8. 0 \in S
  <2>1. f[0] = <<>>
    BY <1>0, <1>7
  <2>2. Good(0)
    BY <2>1
  <2> HIDE DEF Good
  <2> QED BY <2>2
<1>9. ASSUME NEW m \in Nat, m \in S PROVE m + 1 \in S
  <2>1. SUFFICES ASSUME m + 1 <= n PROVE Good(m + 1)
    <3> HIDE DEF Good
    <3> QED OBVIOUS
  <2>2. Good(m)
    <3> HIDE DEF Good
    <3> QED BY <1>9, <2>1, <1>0
  <2>0. f[m + 1] = Def(f, m + 1) /\ m + 1 # 0 /\ (m + 1) - 1 = m
    <3> HIDE DEF Def
    <3> QED BY <2>1, <1>0, <1>7
  <2>3. s[m + 1] \in D
    BY <2>1, <1>0
  <2>4. CASE s[m + 1] \in out
    <3>1. f[m + 1] = f[m]
      BY <2>4, <2>0
    <3>2. \A a \in 1..(m + 1) : a \in 1..m \/ a = m + 1
      OBVIOUS
    <3>3. 1..m \subseteq 1..(m + 1) /\ m + 1 \in 1..(m + 1)
      OBVIOUS
    <3> DEFINE q == f[m]
    <3>4. /\ q \in Seq(D)
          /\ \A e : (\E i \in 1..Len(q) : q[i] = e) <=> (\E a \in 1..m : s[a] = e) /\ e \notin out
          /\ \A i, j \in 1..Len(q) : i < j =>
               \E a, b \in 1..m : a < b /\ q[i] = s[a] /\ q[j] = s[b]
      BY <2>2
    <3>5. \A e : (\E a \in 1..m : s[a] = e) /\ e \notin out
                   <=> (\E a \in 1..(m + 1) : s[a] = e) /\ e \notin out
      BY <3>2, <3>3, <2>4
    <3>6. ~ \A a \in 1..(m + 1) : s[a] \notin out
      BY <2>4, <3>3
    <3>7. f[m + 1] = q
      BY <3>1
    <3> HIDE DEF q
    <3>8. \A e : (\E i \in 1..Len(q) : q[i] = e) <=> (\E a \in 1..(m + 1) : s[a] = e) /\ e \notin out
      BY <3>4, <3>5
    <3>9. \A i, j \in 1..Len(q) : i < j =>
               \E a, b \in 1..(m + 1) : a < b /\ q[i] = s[a] /\ q[j] = s[b]
      BY <3>4, <3>3
    <3> QED BY <3>4, <3>6, <3>7, <3>8, <3>9
  <2>5. CASE s[m + 1] \notin out
    <3>1. f[m + 1] = Append(f[m], s[m + 1])
      BY <2>5, <2>0
    <3>2. f[m] \in Seq(D)
      BY <2>2
    <3>3. /\ f[m + 1] \in Seq(D)
          /\ Len(f[m + 1]) = Len(f[m]) + 1
          /\ f[m + 1][Len(f[m]) + 1] = s[m + 1]
          /\ \A i \in 1..Len(f[m]) : f[m + 1][i] = f[m][i]
      BY <3>1, <3>2, <2>3
    <3>4. \A i \in 1..Len(f[m + 1]) : i \in 1..Len(f[m]) \/ i = Len(f[m]) + 1
      BY <3>2, <3>3
    <3>5. \A a \in 1..(m + 1) : a \in 1..m \/ a = m + 1
      OBVIOUS
    <3>6. \A e : (\E i \in 1..Len(f[m + 1]) : f[m + 1][i] = e)
                   <=> (\E a \in 1..(m + 1) : s[a] = e) /\ e \notin out
      <4> TAKE e
      <4>1. (\E i \in 1..Len(f[m]) : f[m][i] = e) <=> (\E a \in 1..m : s[a] = e) /\ e \notin out
        BY <2>2
      <4>2. (\E i \in 1..Len(f[m + 1]) : f[m + 1][i] = e)
              <=> (\E i \in 1..Len(f[m]) : f[m][i] = e) \/ s[m + 1] = e
        <5>1. 1..Len(f[m]) \subseteq 1..Len(f[m + 1]) /\ Len(f[m]) + 1 \in 1..Len(f[m + 1])
          BY <3>2, <3>3
        <5> QED BY <3>3, <3>4, <5>1
      <4>3. (\E a \in 1..(m + 1) : s[a] = e) <=> (\E a \in 1..m : s[a] = e) \/ s[m + 1] = e
        BY <3>5
      <4> QED BY <4>1, <4>2, <4>3, <2>5
    <3>7. ASSUME NEW i \in 1..Len(f[m + 1]), NEW j \in 1..Len(f[m + 1]), i < j
          PROVE  \E a, b \in 1..(m + 1) : a < b /\ f[m + 1][i] = s[a] /\ f[m + 1][j] = s[b]
      <4>1. i \in 1..Len(f[m])
        BY <3>2, <3>3, <3>4, <3>7
      <4>2. CASE j \in 1..Len(f[m])
        <5>1. PICK a, b \in 1..m : a < b /\ f[m][i] = s[a] /\ f[m][j] = s[b]
          BY <2>2, <4>1, <4>2, <3>7
        <5>2. f[m + 1][i] = s[a] /\ f[m + 1][j] = s[b]
          BY <5>1, <3>3, <4>1, <4>2
        <5>3. a \in 1..(m + 1) /\ b \in 1..(m + 1)
          OBVIOUS
        <5> QED BY <5>1, <5>2, <5>3
      <4>3. CASE j = Len(f[m]) + 1
        <5>1. PICK a \in 1..m : f[m][i] = s[a]
          <6>1. \E k \in 1..Len(f[m]) : f[m][k] = f[m][i]
            BY <4>1
          <6> QED BY <2>2, <6>1
        <5>2. a < m + 1 /\ a \in 1..(m + 1) /\ m + 1 \in 1..(m + 1)
          OBVIOUS
        <5>3. f[m + 1][i] = s[a] /\ f[m + 1][j] = s[m + 1]
          BY <5>1, <3>3, <4>1, <4>3
        <5> WITNESS a \in 1..(m + 1), m + 1 \in 1..(m + 1)
        <5> QED BY <5>2, <5>3
      <4> QED BY <4>2, <4>3, <3>4
    <3>8. ASSUME \A a \in 1..(m + 1) : s[a] \notin out
          PROVE  Len(f[m + 1]) = m + 1 /\ \A a \in 1..(m + 1) : f[m + 1][a] = s[a]
      <4>1. Len(f[m]) = m /\ \A a \in 1..m : f[m][a] = s[a]
        BY <2>2, <3>8
      <4> QED BY <4>1, <3>3, <3>5
    <3> QED BY <3>3, <3>6, <3>7, <3>8
  <2> QED BY <2>4, <2>5
<1>10. n \in S
  <2> HIDE DEF S
  <2> QED BY <1>0, <1>8, <1>9, SetInduction
<1>11. Good(n)
  <2> HIDE DEF Good
  <2> QED BY <1>0, <1>10
<1> DEFINE w == f[n]
<1>12. w \in Seq(D) /\ DOMAIN w = 1..Len(w)
  BY <1>11
<1>16. /\ \A e : (\E i \in 1..Len(w) : w[i] = e) <=> (\E a \in 1..n : s[a] = e) /\ e \notin out
       /\ \A i, j \in 1..Len(w) : i < j => \E a, b \in 1..n : a < b /\ w[i] = s[a] /\ w[j] = s[b]
  BY <1>11
<1>13. ToSet(w) = ToSet(s) \ out
  <2> HIDE DEF w, n
  <2>1. \A e : e \in ToSet(w) <=> \E i \in 1..Len(w) : w[i] = e
    BY <1>12 DEF ToSet
  <2>2. \A e : e \in ToSet(s) <=> \E a \in 1..n : s[a] = e
    BY <1>0 DEF ToSet
  <2> QED BY <1>16, <2>1, <2>2
<1>14. ToSet(s) \cap out = {} => w = s
  <2> SUFFICES ASSUME ToSet(s) \cap out = {} PROVE w = s
    OBVIOUS
  <2>1. \A a \in 1..n : s[a] \notin out
    BY <1>0 DEF ToSet
  <2>2. Len(w) = n /\ \A a \in 1..n : w[a] = s[a]
    BY <2>1, <1>11
  <2> HIDE DEF w
  <2> QED BY <2>2, <1>0, <1>12
<1>15. \A i, j \in DOMAIN w : i < j => \E a, b \in DOMAIN s : a < b /\ w[i] = s[a] /\ w[j] = s[b]
  <2> HIDE DEF w, n
  <2> TAKE i, j \in DOMAIN w
  <2> HAVE i < j
  <2>1. PICK a, b \in 1..n : a < b /\ w[i] = s[a] /\ w[j] = s[b]
    BY <1>16, <1>12
  <2> QED BY <2>1, <1>0
<1> QED BY <1>6, <1>12, <1>13, <1>14, <1>15

-----------------------------------------------------------------------------
NodeType == [call : Call, under : Nat, outcome : Outcome \cup {"pending"}]

(* A sequence given by its elements, and one after another.                 *)
LEMMA TabulatedSeq ==
  ASSUME NEW D, NEW n \in Nat, NEW s \in [1..n -> D]
  PROVE  s \in Seq(D) /\ Len(s) = n
OBVIOUS

Joined(q, s, t) ==
  /\ Len(q) = Len(s) + Len(t)
  /\ \A i \in 1..Len(s) : q[i] = s[i]
  /\ \A i \in 1..Len(t) : q[Len(s) + i] = t[i]

LEMMA JoinedSeq ==
  ASSUME NEW D, NEW s \in Seq(D), NEW t \in Seq(D)
  PROVE  s \o t \in Seq(D) /\ Joined(s \o t, s, t)
BY DEF Joined

LEMMA ParentNodeType ==
  ASSUME NEW stack \in Seq(Nat), NEW c
  PROVE  ParentNode(c, stack) \in Nat
<1>1. stack # <<>> => stack[Len(stack)] \in Nat
  OBVIOUS
<1> QED BY <1>1 DEF ParentNode, Top, Last

LEMMA BatchFacts ==
  ASSUME NEW calls \in Batches
  PROVE  /\ calls \in Seq(Call) /\ calls # <<>>
         /\ \A i, j \in DOMAIN calls : calls[i] = calls[j] => i = j
<1>1. MaxBatch \in Nat /\ calls \in SeqOf(Call, MaxBatch) /\ calls # <<>> /\ IsInjective(calls)
  BY TurnAssumption DEF Batches
<1>2. PICK m \in 0..MaxBatch : calls \in [1..m -> Call]
  BY <1>1 DEF SeqOf
<1>3. calls \in Seq(Call)
  BY <1>1, <1>2
<1> QED BY <1>1, <1>3 DEF IsInjective

(* Leaving calls out of a batch repeats none.                               *)
LEMMA NamedFacts ==
  ASSUME NEW calls \in Batches, NEW lost
  PROVE  /\ Without(calls, lost) \in Seq(Call)
         /\ ToSet(Without(calls, lost)) = ToSet(calls) \ lost
         /\ \A i, j \in DOMAIN Without(calls, lost) :
              Without(calls, lost)[i] = Without(calls, lost)[j] => i = j
         /\ lost = {} => Without(calls, lost) = calls
<1> DEFINE w == Without(calls, lost)
<1>1. calls \in Seq(Call) /\ \A i, j \in DOMAIN calls : calls[i] = calls[j] => i = j
  BY BatchFacts
<1>2. /\ w \in Seq(Call)
      /\ ToSet(w) = ToSet(calls) \ lost
      /\ \A i, j \in DOMAIN w : i < j => \E a, b \in DOMAIN calls : a < b /\ w[i] = calls[a] /\ w[j] = calls[b]
      /\ ToSet(calls) \cap lost = {} => w = calls
  <2>1. calls \in Seq(Call)
    BY <1>1
  <2> QED BY <2>1, WithoutFacts, Zenon
<1>3. DOMAIN calls = 1..Len(calls) /\ DOMAIN w = 1..Len(w)
  BY <1>1, <1>2
<1> HIDE DEF w
<1>4. ASSUME NEW i \in DOMAIN w, NEW j \in DOMAIN w, i < j PROVE w[i] # w[j]
  <2>1. PICK a, b \in DOMAIN calls : a < b /\ w[i] = calls[a] /\ w[j] = calls[b]
    BY <1>2, <1>4
  <2>2. a # b
    BY <2>1, <1>3
  <2> QED BY <2>1, <2>2, <1>1
<1>5. \A i, j \in DOMAIN w : w[i] = w[j] => i = j
  <2> TAKE i, j \in DOMAIN w
  <2>1. i < j \/ j < i \/ i = j
    BY <1>3
  <2> QED BY <2>1, <1>4
<1> QED BY <1>2, <1>5 DEF w

(* The calls of an announcement, hung into the tree.                        *)
Hang(named, i) ==
  IF adapter = "langchain" \/ i = 1 THEN ParentNode(named[i], open)
  ELSE ParentNode(named[i], Append(open, Len(nodes) + i - 1))

Added(named) ==
  /\ nodes' \in Seq(NodeType)
  /\ Len(nodes') = Len(nodes) + Len(named)
  /\ \A i \in 1..Len(nodes) : nodes'[i] = nodes[i]
  /\ \A i \in 1..Len(named) : nodes'[Len(nodes) + i] =
       [call |-> named[i], under |-> Hang(named, i), outcome |-> "pending"]
  /\ open' \in Seq(Nat)
  /\ Len(open') = Len(open) + Len(named)
  /\ \A i \in 1..Len(open) : open'[i] = open[i]
  /\ \A i \in 1..Len(named) : open'[Len(open) + i] = Len(nodes) + i
  /\ node' \in [Call -> Nat]
  /\ \A c \in Call : c \notin ToSet(named) => node'[c] = node[c]
  /\ \A i \in 1..Len(named) : node'[named[i]] = Len(nodes) + i

(* What AddCalls does to the tree, the stack and the index.                 *)
LEMMA AddCallsFacts ==
  ASSUME TurnTypeOK, NEW named \in Seq(Call), AddCalls(named),
         \A i, j \in DOMAIN named : named[i] = named[j] => i = j
  PROVE  Added(named)
<1> DEFINE first == Len(nodes)
           under(i) == Hang(named, i)
           new == [i \in DOMAIN named |->
                     [call |-> named[i], under |-> under(i), outcome |-> "pending"]]
           tops == [i \in DOMAIN named |-> first + i]
<1>1. /\ nodes \in Seq(NodeType) /\ open \in Seq(Nat) /\ first \in Nat
      /\ DOMAIN named = 1..Len(named) /\ Len(named) \in Nat
      /\ \A i \in 1..Len(named) : named[i] \in Call
  BY DEF TurnTypeOK, NodeType
<1>2. \A i \in 1..Len(named) : under(i) \in Nat
  <2> TAKE i \in 1..Len(named)
  <2>1. first + i - 1 \in Nat
    BY <1>1
  <2>2. Append(open, first + i - 1) \in Seq(Nat)
    BY <1>1, <2>1
  <2> QED BY <2>2, <1>1, ParentNodeType DEF Hang
<1>3. new \in Seq(NodeType) /\ Len(new) = Len(named)
  <2> HIDE DEF under
  <2>1. new \in [1..Len(named) -> NodeType]
    BY <1>1, <1>2 DEF NodeType
  <2> HIDE DEF new
  <2> QED BY <2>1, <1>1, TabulatedSeq
<1>4. tops \in Seq(Nat) /\ Len(tops) = Len(named)
  <2> HIDE DEF first
  <2>1. tops \in [1..Len(named) -> Nat]
    BY <1>1
  <2> HIDE DEF tops
  <2> QED BY <2>1, <1>1, TabulatedSeq
<1>5. nodes' = nodes \o new /\ open' = open \o tops
  BY DEF AddCalls, Hang
<1>6. /\ \A i \in 1..Len(named) : new[i] = [call |-> named[i], under |-> under(i), outcome |-> "pending"]
      /\ \A i \in 1..Len(named) : tops[i] = first + i
  BY <1>1
<1>7. /\ nodes' \in Seq(NodeType) /\ Len(nodes') = first + Len(named)
      /\ \A i \in 1..first : nodes'[i] = nodes[i]
      /\ \A i \in 1..Len(named) : nodes'[first + i] = new[i]
  <2> HIDE DEF new, tops, under
  <2>1. nodes \o new \in Seq(NodeType) /\ Joined(nodes \o new, nodes, new)
    BY <1>1, <1>3, JoinedSeq, Zenon
  <2>2. Len(new) = Len(named)
    BY <1>3
  <2> DEFINE joined == nodes \o new
  <2>3. nodes' = joined
    BY <1>5
  <2> HIDE DEF joined
  <2> QED BY <2>1, <2>2, <2>3 DEF joined, Joined
<1>8. /\ open' \in Seq(Nat) /\ Len(open') = Len(open) + Len(named)
      /\ \A i \in 1..Len(open) : open'[i] = open[i]
      /\ \A i \in 1..Len(named) : open'[Len(open) + i] = tops[i]
  <2> HIDE DEF new, tops, under
  <2>1. open \o tops \in Seq(Nat) /\ Joined(open \o tops, open, tops)
    BY <1>1, <1>4, JoinedSeq, Zenon
  <2>2. Len(tops) = Len(named)
    BY <1>4
  <2> DEFINE joined == open \o tops
  <2>3. open' = joined
    BY <1>5
  <2> HIDE DEF joined
  <2> QED BY <2>1, <2>2, <2>3 DEF joined, Joined
<1>9. node' = [c \in Call |-> IF \E i \in DOMAIN named : named[i] = c
                              THEN first + (CHOOSE i \in DOMAIN named : named[i] = c) ELSE node[c]]
  BY DEF AddCalls
<1>10. \A i \in 1..Len(named) : node'[named[i]] = first + i
  <2> TAKE i \in 1..Len(named)
  <2>1. (CHOOSE j \in DOMAIN named : named[j] = named[i]) = i
    BY <1>1
  <2> QED BY <2>1, <1>1, <1>9
<1>11. \A c \in Call : c \notin ToSet(named) => node'[c] = node[c]
  BY <1>9 DEF ToSet
<1>12. node' \in [Call -> Nat]
  <2>1. \A c \in Call : node'[c] \in Nat
    <3> TAKE c \in Call
    <3>1. CASE c \in ToSet(named)
      <4>1. PICK i \in 1..Len(named) : c = named[i]
        BY <3>1, <1>1 DEF ToSet
      <4> QED BY <4>1, <1>1, <1>10
    <3>2. CASE c \notin ToSet(named)
      BY <3>2, <1>11 DEF TurnTypeOK
    <3> QED BY <3>1, <3>2
  <2>2. node' = [c \in Call |-> node'[c]]
    BY <1>9
  <2> QED BY <2>1, <2>2
<1>13. /\ \A i \in 1..Len(named) : nodes'[first + i] = [call |-> named[i], under |-> under(i), outcome |-> "pending"]
       /\ \A i \in 1..Len(named) : open'[Len(open) + i] = first + i
  <2> HIDE DEF new, tops, under, first
  <2> QED BY <1>6, <1>7, <1>8
<1> HIDE DEF new, tops
<1> QED BY <1>7, <1>8, <1>10, <1>11, <1>12, <1>13 DEF Added

-----------------------------------------------------------------------------
(* A call that waits has no node, one that has an entry in the index runs.  *)
LEMMA IndexFacts ==
  ASSUME TurnInv, NEW c \in Call
  PROVE  /\ call[c] = "waiting" => node[c] = 0 /\ c \notin unnamed /\ c \notin emitted
         /\ call[c] = "waiting" => \A i \in DOMAIN nodes : nodes[i].call # c
         /\ node[c] # 0 => Running(c) /\ node[c] \in 1..Len(nodes) /\ nodes[node[c]].call = c
         /\ Running(c) /\ node[c] = 0 => c \in unnamed /\ \A i \in DOMAIN nodes : nodes[i].call # c
<1>0. nodes \in Seq(NodeType)
  BY DEF TurnInv, TurnTypeOK, NodeType
<1>8. DOMAIN nodes = 1..Len(nodes) /\ \A i \in DOMAIN nodes : nodes[i] \in NodeType
  BY <1>0
<1>1. DOMAIN nodes = 1..Len(nodes) /\ \A i \in DOMAIN nodes : nodes[i].call \in Call
  BY <1>8 DEF NodeType
<1> USE DEF TurnInv
<1>2. node[c] # 0 => Running(c) /\ node[c] \in 1..Len(nodes) /\ nodes[node[c]].call = c
  BY <1>1 DEF NodesMatchCalls, Running
<1>3. \A i \in DOMAIN nodes : nodes[i].call = c => call[c] # "waiting"
  BY DEF NodesMatchCalls, Outcome
<1>4. call[c] = "waiting" => c \notin unnamed
  BY DEF UnnamedBegan
<1>5. call[c] = "waiting" => c \notin emitted
  BY DEF NodesMatchCalls, Outcome
<1>6. Running(c) /\ node[c] = 0 => \A i \in DOMAIN nodes : nodes[i].call # c
  BY <1>1 DEF NodesMatchCalls, Running, Outcome
<1>7. Running(c) /\ node[c] = 0 => c \in unnamed
  BY DEF NodesMatchCalls, Running
<1> QED BY <1>2, <1>3, <1>4, <1>5, <1>6, <1>7 DEF Running

(* The stack holds nodes, and those of all the named calls that run.        *)
LEMMA StackFacts ==
  ASSUME TurnInv
  PROVE  /\ \A i \in 1..Len(open) : \E c \in Call : Running(c) /\ open[i] = node[c] /\ node[c] # 0
         /\ \A c \in Call : node[c] # 0 => \E i \in 1..Len(open) : open[i] = node[c]
         /\ \A i \in 1..Len(open) : open[i] \in 1..Len(nodes)
<1>1. open \in Seq(Nat) /\ DOMAIN open = 1..Len(open)
  BY DEF TurnInv, TurnTypeOK
<1>2. \A n : n \in ToSet(open) <=> \E c \in Call : node[c] # 0 /\ node[c] = n
  BY DEF TurnInv, StackIsOpenCalls
<1>3. \A n : n \in ToSet(open) <=> \E i \in 1..Len(open) : open[i] = n
  BY <1>1 DEF ToSet
<1>4. ASSUME NEW i \in 1..Len(open)
      PROVE  \E c \in Call : Running(c) /\ open[i] = node[c] /\ node[c] # 0
  <2>1. PICK c \in Call : node[c] # 0 /\ node[c] = open[i]
    BY <1>2, <1>3
  <2> QED BY <2>1, IndexFacts
<1>5. \A c \in Call : node[c] # 0 => \E i \in 1..Len(open) : open[i] = node[c]
  BY <1>2, <1>3
<1>6. \A i \in 1..Len(open) : open[i] \in 1..Len(nodes)
  BY <1>4, IndexFacts
<1> QED BY <1>4, <1>5, <1>6

(* When the outer agent has no call under way, no call is: of those under   *)
(* way the one announced first can only be a call of the outer agent.       *)
LEMMA RootIdle ==
  ASSUME TurnInv, unnamed = {}, Idle(Root), NEW c \in Call
  PROVE  ~Running(c)
<1> SUFFICES ASSUME Running(c) PROVE FALSE
  OBVIOUS
<1> DEFINE T == {n \in Nat : \E d \in Call : Running(d) /\ node[d] = n}
<1>1. node \in [Call -> Nat] /\ caller \in [Call -> Call \cup {Root}]
  BY DEF TurnInv, TurnTypeOK, Agent
<1>2. T \subseteq Nat /\ T # {}
  BY <1>1
<1>3. PICK n \in T : \A m \in T : ~(m < n)
  <2> HIDE DEF T
  <2> QED BY <1>2, LeastNat
<1>4. PICK d \in Call : Running(d) /\ node[d] = n
  BY <1>3
<1>5. caller[d] # Root
  BY <1>4 DEF Idle
<1>6. caller[d] \in Call /\ Running(caller[d])
  BY <1>1, <1>4, <1>5 DEF TurnInv, CallersRun
<1>7. node[d] # 0 /\ node[caller[d]] # 0
  BY <1>4, <1>6, IndexFacts
<1>8. node[caller[d]] < node[d]
  BY <1>4, <1>5, <1>7 DEF TurnInv, CallersRun
<1>9. node[caller[d]] \in T
  BY <1>1, <1>6
<1> QED BY <1>3, <1>4, <1>8, <1>9

(* A call that can begin to make calls is the last one that was announced.  *)
LEMMA CallerIsLast ==
  ASSUME TurnInv, Orderly, unnamed = {}, NEW p \in Call, Running(p), Idle(p),
         Last(batch[p]) = p, NEW c \in Call, Running(c)
  PROVE  node[c] <= node[p]
<1>1. node \in [Call -> Nat]
  BY DEF TurnInv, TurnTypeOK
<1> SUFFICES ASSUME node[p] < node[c] PROVE FALSE
  BY <1>1
<1>2. CASE caller[c] = caller[p]
  <2>1. batch[c] = batch[p]
    BY <1>2 DEF TurnInv, BatchesHold
  <2>2. p = Last(batch[c])
    BY <2>1
  <2>3. node[c] <= node[p]
    BY <1>2, <2>2 DEF TurnInv, BatchesHold
  <2> QED BY <2>3, <1>1
<1>3. CASE caller[c] # caller[p]
  <2>1. PICK e \in Call : Running(e) /\ caller[e] = Last(batch[p])
    BY <1>3 DEF TurnInv, LastCallGoesOn
  <2> QED BY <2>1 DEF Idle
<1> QED BY <1>2, <1>3

(* The node under which its calls are hung.                                 *)
LEMMA TopOfStack ==
  ASSUME TurnInv, Orderly, unnamed = {}, NEW p \in Call, Running(p), Idle(p), Last(batch[p]) = p
  PROVE  Top(open) = node[p] /\ node[p] \in 1..Len(nodes) /\ nodes[node[p]].call = p
<1>1. node[p] # 0
  BY IndexFacts
<1>2. node[p] \in 1..Len(nodes) /\ nodes[node[p]].call = p
  BY <1>1, IndexFacts
<1>3. PICK i \in 1..Len(open) : open[i] = node[p]
  BY <1>1, StackFacts
<1>4. open \in Seq(Nat) /\ DOMAIN open = 1..Len(open) /\ node \in [Call -> Nat]
  BY DEF TurnInv, TurnTypeOK
<1>5. Len(open) \in 1..Len(open) /\ open[i] \in Nat /\ open[Len(open)] \in Nat
  BY <1>3, <1>4
<1>6. PICK c \in Call : Running(c) /\ open[Len(open)] = node[c]
  BY <1>5, StackFacts
<1>7. node[c] <= node[p]
  BY <1>6, CallerIsLast
<1>8. open[i] <= open[Len(open)]
  <2>1. CASE i = Len(open)
    BY <2>1, <1>3, <1>4
  <2>2. CASE i < Len(open)
    <3>1. open[i] < open[Len(open)]
      BY <2>2, <1>4, <1>5 DEF TurnInv, StackIsOpenCalls
    <3> QED BY <3>1, <1>5
  <2>3. i < Len(open) \/ i = Len(open)
    <3>1. Len(open) \in Nat
      BY <1>4
    <3> HIDE <1>3
    <3> QED BY <3>1
  <2> QED BY <2>1, <2>2, <2>3
<1>9. open[Len(open)] = node[p]
  BY <1>3, <1>4, <1>6, <1>7, <1>8
<1>10. Top(open) = open[Len(open)]
  BY <1>3, <1>4 DEF Top, Last
<1> QED BY <1>2, <1>9, <1>10

-----------------------------------------------------------------------------
(* What an announcement changes: the calls it names, and nothing of others. *)
Begun(p, calls, lost) ==
  /\ Streaming
  /\ p # Root => p \in Call /\ Running(p)
  /\ Idle(p)
  /\ adapter = "pydantic" => lost = {}
  /\ calls \in Seq(Call) /\ calls # <<>> /\ lost \subseteq ToSet(calls)
  /\ \A c \in ToSet(calls) : c \in Call /\ call[c] = "waiting" /\ node[c] = 0
  /\ \A c \in ToSet(calls) : call'[c] = "running" /\ caller'[c] = p /\ batch'[c] = calls
  /\ \A c \in Call \ ToSet(calls) :
       call'[c] = call[c] /\ caller'[c] = caller[c] /\ batch'[c] = batch[c] /\ node'[c] = node[c]
  /\ unnamed' = unnamed \cup lost
  /\ \A c \in lost : node'[c] = 0
  /\ \A c \in ToSet(calls) : c \notin lost =>
       \E i \in 1..Len(Without(calls, lost)) :
         Without(calls, lost)[i] = c /\ node'[c] = Len(nodes) + i

LEMMA AnnounceFacts ==
  ASSUME TurnInv, NEW p \in Agent, NEW calls \in Batches, NEW lost \in SUBSET ToSet(calls),
         Announce(p, calls, lost)
  PROVE  /\ Added(Without(calls, lost))
         /\ Without(calls, lost) \in Seq(Call)
         /\ ToSet(Without(calls, lost)) = ToSet(calls) \ lost
         /\ \A i \in 1..Len(Without(calls, lost)) : Without(calls, lost)[i] \in ToSet(calls) \ lost
         /\ lost = {} => Without(calls, lost) = calls
         /\ Begun(p, calls, lost)
         /\ call' \in [Call -> Status] /\ caller' \in [Call -> Agent] /\ batch' \in [Call -> Seq(Call)]
<1> DEFINE w == Without(calls, lost)
<1>1. /\ w \in Seq(Call) /\ ToSet(w) = ToSet(calls) \ lost
      /\ \A i, j \in DOMAIN w : w[i] = w[j] => i = j
      /\ lost = {} => w = calls
  BY NamedFacts
<1>2. TurnTypeOK /\ AddCalls(w)
  BY DEF TurnInv, Announce
<1>3. calls \in Seq(Call) /\ calls # <<>> /\ DOMAIN calls = 1..Len(calls)
  BY BatchFacts
<1> HIDE DEF w
<1>4. Added(w)
  BY <1>1, <1>2, AddCallsFacts
<1>5. \A c \in ToSet(calls) : c \in Call /\ call[c] = "waiting"
  BY <1>3 DEF Announce, ToSet
<1>6. \A c \in ToSet(calls) : node[c] = 0
  BY <1>5, IndexFacts
<1>7. /\ call' = [c \in Call |-> IF c \in ToSet(calls) THEN "running" ELSE call[c]]
      /\ caller' = [c \in Call |-> IF c \in ToSet(calls) THEN p ELSE caller[c]]
      /\ batch' = [c \in Call |-> IF c \in ToSet(calls) THEN calls ELSE batch[c]]
      /\ unnamed' = unnamed \cup lost
      /\ Streaming /\ Idle(p)
      /\ p = Root \/ Running(p)
      /\ adapter = "pydantic" => lost = {}
  BY DEF Announce
<1>8. \A i \in 1..Len(w) : w[i] \in ToSet(calls) \ lost
  BY <1>1 DEF ToSet
<1>9. \A c \in Call : c \notin ToSet(w) => node'[c] = node[c]
  BY <1>4 DEF Added
<1>10. \A c \in ToSet(w) : \E i \in 1..Len(w) : w[i] = c /\ node'[c] = Len(nodes) + i
  <2>1. \A c \in ToSet(w) : \E i \in 1..Len(w) : w[i] = c
    BY <1>1 DEF ToSet
  <2>2. TAKE c \in ToSet(w)
  <2>3. PICK i \in 1..Len(w) : w[i] = c
    BY <2>1
  <2>4. node'[w[i]] = Len(nodes) + i
    BY <1>4 DEF Added
  <2> QED BY <2>3, <2>4
<1>11. Begun(p, calls, lost)
  <2>1. p # Root => p \in Call /\ Running(p)
    BY <1>7 DEF Agent
  <2>2. \A c \in lost : node'[c] = 0
    BY <1>1, <1>5, <1>6, <1>9
  <2>3. \A c \in Call \ ToSet(calls) : node'[c] = node[c]
    BY <1>1, <1>9
  <2>4. \A c \in ToSet(calls) : c \notin lost => \E i \in 1..Len(w) : w[i] = c /\ node'[c] = Len(nodes) + i
    BY <1>1, <1>10
  <2>5. \A c \in ToSet(calls) : call'[c] = "running" /\ caller'[c] = p /\ batch'[c] = calls
    BY <1>5, <1>7
  <2>6. \A c \in Call \ ToSet(calls) : call'[c] = call[c] /\ caller'[c] = caller[c] /\ batch'[c] = batch[c]
    BY <1>7
  <2> QED BY <1>3, <1>5, <1>6, <1>7, <2>1, <2>2, <2>3, <2>4, <2>5, <2>6 DEF Begun, w
<1>12. call' \in [Call -> Status] /\ caller' \in [Call -> Agent] /\ batch' \in [Call -> Seq(Call)]
  BY <1>2, <1>3, <1>7 DEF TurnTypeOK, Status
<1> QED BY <1>1, <1>4, <1>8, <1>11, <1>12 DEF w

LEMMA AnnounceType ==
  ASSUME TurnInv, NEW p \in Agent, NEW calls \in Batches, NEW lost \in SUBSET ToSet(calls),
         Announce(p, calls, lost)
  PROVE  TurnTypeOK' /\ UnnamedBegan' /\ TextsKept' /\ ErrorsReachStatus'
<1>1. Added(Without(calls, lost)) /\ Begun(p, calls, lost)
  BY AnnounceFacts
<1>2. call' \in [Call -> Status] /\ caller' \in [Call -> Agent] /\ batch' \in [Call -> Seq(Call)]
  BY AnnounceFacts
<1>3. UNCHANGED <<adapter, inToolset, texts, emitted, said, failing, turn>>
  BY DEF Announce
<1>4. TurnTypeOK
  BY DEF TurnInv
<1>5. unnamed' \subseteq Call
  BY <1>1, <1>4 DEF Begun, TurnTypeOK
<1>6. TurnTypeOK'
  BY <1>1, <1>2, <1>3, <1>4, <1>5 DEF TurnTypeOK, Added, NodeType
<1>7. UnnamedBegan'
  <2> SUFFICES ASSUME NEW c \in unnamed' PROVE call'[c] # "waiting" /\ adapter' = "langchain"
    BY DEF UnnamedBegan
  <2>1. CASE c \in unnamed
    <3>1. call[c] # "waiting" /\ adapter = "langchain" /\ c \in Call
      BY <2>1, <1>4 DEF TurnInv, UnnamedBegan, TurnTypeOK
    <3> QED BY <3>1, <1>1, <1>3 DEF Begun
  <2>2. CASE c \in lost
    <3>1. adapter \in {"langchain", "pydantic"}
      BY <1>4, TurnAssumption DEF TurnTypeOK
    <3> QED BY <2>2, <3>1, <1>1, <1>3 DEF Begun
  <2> QED BY <2>1, <2>2, <1>1 DEF Begun
<1>8. TextsKept'
  BY <1>3 DEF TurnInv, TextsKept
<1>9. ErrorsReachStatus'
  <2>1. turn.status = "streaming"
    BY DEF Announce, Streaming
  <2>2. turn'.status # "ok"
    BY <2>1, <1>3
  <2> QED BY <2>2 DEF ErrorsReachStatus
<1> QED BY <1>6, <1>7, <1>8, <1>9

(* The nodes after an announcement: the old ones, then those of its calls.  *)
LEMMA AnnouncedNodes ==
  ASSUME TurnInv, NEW p \in Agent, NEW calls \in Batches, NEW lost \in SUBSET ToSet(calls),
         Announce(p, calls, lost), NEW i \in DOMAIN nodes'
  PROVE  \/ /\ i \in DOMAIN nodes /\ nodes'[i] = nodes[i]
            /\ nodes[i].call \in Call \ ToSet(calls) /\ i <= Len(nodes)
         \/ /\ nodes'[i].call \in ToSet(calls) \ lost /\ nodes'[i].outcome = "pending"
            /\ node'[nodes'[i].call] = i /\ i > Len(nodes)
            /\ nodes'[i].under = Hang(Without(calls, lost), i - Len(nodes))
            /\ nodes'[i].call = Without(calls, lost)[i - Len(nodes)]
            /\ i - Len(nodes) \in 1..Len(Without(calls, lost))
<1> DEFINE w == Without(calls, lost)
           first == Len(nodes)
<1>1. Added(w) /\ Begun(p, calls, lost) /\ w \in Seq(Call)
      /\ \A k \in 1..Len(w) : w[k] \in ToSet(calls) \ lost
  BY AnnounceFacts
<1>2. nodes \in Seq(NodeType) /\ first \in Nat
  BY DEF TurnInv, TurnTypeOK, NodeType
<1>3. nodes' \in Seq(NodeType) /\ Len(nodes') = first + Len(w)
  BY <1>1 DEF Added
<1> HIDE DEF w
<1>4. Len(w) \in Nat
  BY <1>1
<1>5. i \in Nat /\ 1 <= i /\ i <= first + Len(w)
  <2>1. i \in 1..Len(nodes')
    BY <1>3
  <2> HIDE DEF first
  <2> QED BY <2>1, <1>2, <1>3, <1>4
<1>6. CASE i <= first
  <2>1. i \in DOMAIN nodes /\ i \in 1..Len(nodes) /\ nodes[i] \in NodeType
    BY <1>2, <1>5, <1>6
  <2>2. nodes'[i] = nodes[i]
    BY <1>1, <2>1 DEF Added
  <2>3. nodes[i].call \in Call
    BY <2>1 DEF NodeType
  <2>4. call[nodes[i].call] # "waiting"
    BY <2>1, <2>3, IndexFacts
  <2>5. nodes[i].call \notin ToSet(calls)
    BY <1>1, <2>4 DEF Begun
  <2> QED BY <1>6, <2>1, <2>2, <2>3, <2>5
<1>7. CASE i > first
  <2> DEFINE k == i - first
  <2>1. k \in 1..Len(w) /\ first + k = i
    <3> HIDE DEF first
    <3> QED BY <1>2, <1>4, <1>5, <1>7
  <2> HIDE DEF k
  <2>2. nodes'[i] = [call |-> w[k], under |-> Hang(w, k), outcome |-> "pending"]
    BY <1>1, <2>1 DEF Added
  <2>3. node'[w[k]] = i
    BY <1>1, <2>1 DEF Added
  <2>4. w[k] \in ToSet(calls) \ lost
    BY <1>1, <2>1
  <2> QED BY <1>7, <2>1, <2>2, <2>3, <2>4 DEF k, w
<1> QED BY <1>2, <1>5, <1>6, <1>7

LEMMA AnnounceNodes ==
  ASSUME TurnInv, NEW p \in Agent, NEW calls \in Batches, NEW lost \in SUBSET ToSet(calls),
         Announce(p, calls, lost)
  PROVE  NodesMatchCalls'
<1>1. Added(Without(calls, lost)) /\ Begun(p, calls, lost)
  BY AnnounceFacts
<1>2. emitted' = emitted
  BY DEF Announce
<1>3. nodes \in Seq(NodeType) /\ NodesMatchCalls /\ emitted \subseteq Call
  BY DEF TurnInv, TurnTypeOK, NodeType
<1>4. nodes' \in Seq(NodeType)
  BY <1>1 DEF Added
<1>5. ASSUME NEW i \in DOMAIN nodes'
      PROVE  LET c == nodes'[i].call
             IN  \/ call'[c] = "running" /\ node'[c] = i /\ nodes'[i].outcome = "pending"
                 \/ call'[c] \in Outcome /\ node'[c] = 0 /\ nodes'[i].outcome = call'[c]
  <2>1. CASE i \in DOMAIN nodes /\ nodes'[i] = nodes[i] /\ nodes[i].call \in Call \ ToSet(calls)
    <3>1. call'[nodes[i].call] = call[nodes[i].call] /\ node'[nodes[i].call] = node[nodes[i].call]
      BY <2>1, <1>1 DEF Begun
    <3> QED BY <2>1, <3>1, <1>3 DEF NodesMatchCalls
  <2>2. CASE nodes'[i].call \in ToSet(calls) /\ nodes'[i].outcome = "pending"
             /\ node'[nodes'[i].call] = i
    BY <2>2, <1>1 DEF Begun
  <2> QED BY <2>1, <2>2, AnnouncedNodes
<1>6. ASSUME NEW i \in DOMAIN nodes', NEW j \in DOMAIN nodes', nodes'[i].call = nodes'[j].call
      PROVE  i = j
  <2>1. CASE i \in DOMAIN nodes /\ nodes'[i] = nodes[i] /\ nodes[i].call \in Call \ ToSet(calls)
    <3>1. j \in DOMAIN nodes /\ nodes'[j] = nodes[j]
      BY <2>1, <1>6, AnnouncedNodes
    <3> QED BY <2>1, <3>1, <1>3, <1>6 DEF NodesMatchCalls
  <2>2. CASE nodes'[i].call \in ToSet(calls) /\ node'[nodes'[i].call] = i
    <3>1. node'[nodes'[j].call] = j
      BY <2>2, <1>6, AnnouncedNodes
    <3> QED BY <2>2, <3>1, <1>6
  <2> QED BY <2>1, <2>2, AnnouncedNodes
<1>7. DOMAIN nodes \subseteq DOMAIN nodes' /\ \A i \in DOMAIN nodes : nodes'[i] = nodes[i]
  <2> DEFINE k == Len(Without(calls, lost))
  <2>1. k \in Nat /\ Len(nodes') = Len(nodes) + k /\ Len(nodes) \in Nat
    BY <1>1, <1>3, AnnounceFacts DEF Added
  <2> HIDE DEF k
  <2>2. DOMAIN nodes = 1..Len(nodes) /\ DOMAIN nodes' = 1..Len(nodes')
    BY <1>3, <1>4
  <2>3. \A i \in 1..Len(nodes) : nodes'[i] = nodes[i]
    BY <1>1 DEF Added
  <2> QED BY <2>1, <2>2, <2>3
<1>8. ASSUME NEW c \in Call
      PROVE  /\ node'[c] # 0 => node'[c] \in DOMAIN nodes' /\ nodes'[node'[c]].call = c
             /\ c \in emitted' <=> call'[c] \in Outcome
             /\ c \in emitted' => \E i \in DOMAIN nodes' : nodes'[i].call = c
             /\ call'[c] = "running" /\ c \notin unnamed' => node'[c] # 0
  <2>1. CASE c \notin ToSet(calls)
    <3>1. call'[c] = call[c] /\ node'[c] = node[c]
      BY <2>1, <1>1 DEF Begun
    <3>2. node[c] # 0 => node[c] \in DOMAIN nodes' /\ nodes'[node[c]].call = c
      BY <1>3, <1>7 DEF NodesMatchCalls
    <3>3. c \in emitted => \E i \in DOMAIN nodes' : nodes'[i].call = c
      BY <1>3, <1>7 DEF NodesMatchCalls
    <3>4. call[c] = "running" /\ c \notin unnamed' => node[c] # 0
      BY <1>1, <1>3 DEF NodesMatchCalls, Begun
    <3> QED BY <3>1, <3>2, <3>3, <3>4, <1>2, <1>3 DEF NodesMatchCalls
  <2>2. CASE c \in ToSet(calls)
    <3>1. call'[c] = "running" /\ c \notin emitted'
      BY <2>2, <1>1, <1>2, IndexFacts DEF Begun
    <3>2. c \in lost => node'[c] = 0 /\ c \in unnamed'
      BY <1>1 DEF Begun
    <3>3. c \notin lost => node'[c] # 0 /\ node'[c] \in DOMAIN nodes' /\ nodes'[node'[c]].call = c
      <4> SUFFICES ASSUME c \notin lost
                   PROVE  node'[c] # 0 /\ node'[c] \in DOMAIN nodes' /\ nodes'[node'[c]].call = c
        OBVIOUS
      <4> DEFINE w == Without(calls, lost)
      <4>1. PICK i \in 1..Len(w) : w[i] = c /\ node'[c] = Len(nodes) + i
        BY <2>2, <1>1 DEF Begun
      <4>2. w \in Seq(Call) /\ Len(nodes') = Len(nodes) + Len(w)
        BY <1>1, AnnounceFacts DEF Added
      <4>7. nodes'[Len(nodes) + i] = [call |-> w[i], under |-> Hang(w, i), outcome |-> "pending"]
        <5> HIDE DEF w
        <5>1. Added(w)
          BY <1>1 DEF w
        <5> QED BY <5>1 DEF Added
      <4>3. nodes'[Len(nodes) + i].call = w[i]
        BY <4>7
      <4>4. Len(nodes) \in Nat /\ Len(nodes') \in Nat /\ DOMAIN nodes' = 1..Len(nodes')
        BY <1>3, <1>4
      <4> HIDE DEF w
      <4>5. Len(w) \in Nat
        BY <4>2
      <4>6. Len(nodes) + i \in 1..Len(nodes') /\ Len(nodes) + i # 0
        BY <4>2, <4>4, <4>5
      <4> QED BY <4>1, <4>3, <4>4, <4>6
    <3> QED BY <3>1, <3>2, <3>3 DEF Outcome
  <2> QED BY <2>1, <2>2
<1> QED BY <1>5, <1>6, <1>8 DEF NodesMatchCalls

LEMMA AnnounceStack ==
  ASSUME TurnInv, NEW p \in Agent, NEW calls \in Batches, NEW lost \in SUBSET ToSet(calls),
         Announce(p, calls, lost)
  PROVE  StackIsOpenCalls'
<1> DEFINE w == Without(calls, lost)
<1>1. Added(w) /\ Begun(p, calls, lost) /\ w \in Seq(Call)
  BY AnnounceFacts
<1>2. \A i \in 1..Len(w) : w[i] \in ToSet(calls) \ lost
  BY AnnounceFacts
<1>3. open \in Seq(Nat) /\ nodes \in Seq(NodeType) /\ open' \in Seq(Nat) /\ node \in [Call -> Nat]
  BY <1>1 DEF TurnInv, TurnTypeOK, NodeType, Added
<1>4. StackIsOpenCalls
  BY DEF TurnInv
<1> HIDE DEF w
<1>5. /\ Len(open) \in Nat /\ Len(w) \in Nat /\ Len(nodes) \in Nat
      /\ DOMAIN open = 1..Len(open) /\ DOMAIN open' = 1..Len(open')
      /\ \A i \in 1..Len(open) : open[i] \in 1..Len(nodes)
  BY <1>1, <1>3, StackFacts
<1>6. /\ Len(open') = Len(open) + Len(w)
      /\ \A i \in 1..Len(open) : open'[i] = open[i]
      /\ \A i \in 1..Len(w) : open'[Len(open) + i] = Len(nodes) + i
  BY <1>1 DEF Added
<1>7. ASSUME NEW i \in DOMAIN open'
      PROVE  \/ i \in 1..Len(open) /\ open'[i] = open[i]
             \/ i > Len(open) /\ i - Len(open) \in 1..Len(w)
                  /\ open'[i] = Len(nodes) + (i - Len(open))
  <2>1. CASE i <= Len(open)
    BY <2>1, <1>5, <1>6
  <2>2. CASE i > Len(open)
    <3> DEFINE k == i - Len(open)
    <3>1. k \in 1..Len(w) /\ i = Len(open) + k
      BY <2>2, <1>5, <1>6
    <3> HIDE DEF k
    <3>2. open'[i] = Len(nodes) + k
      BY <3>1, <1>6
    <3> QED BY <2>2, <3>1, <3>2 DEF k
  <2> QED BY <2>1, <2>2, <1>5
<1>8. ASSUME NEW i \in DOMAIN open', NEW j \in DOMAIN open', i < j
      PROVE  open'[i] < open'[j]
  <2>1. CASE j \in 1..Len(open) /\ open'[j] = open[j]
    <3>1. i \in 1..Len(open) /\ open'[i] = open[i]
      BY <2>1, <1>5, <1>7, <1>8
    <3> QED BY <2>1, <3>1, <1>4, <1>5, <1>8 DEF StackIsOpenCalls
  <2>2. CASE j > Len(open) /\ open'[j] = Len(nodes) + (j - Len(open))
    <3>1. CASE i \in 1..Len(open) /\ open'[i] = open[i]
      BY <2>2, <3>1, <1>5
    <3>2. CASE i > Len(open) /\ open'[i] = Len(nodes) + (i - Len(open))
      BY <2>2, <3>2, <1>5, <1>8
    <3> QED BY <3>1, <3>2, <1>7
  <2> QED BY <2>1, <2>2, <1>7
<1>9. ASSUME NEW n
      PROVE  n \in ToSet(open') <=> \E c \in Call : node'[c] # 0 /\ node'[c] = n
  <2>1. ASSUME NEW i \in DOMAIN open', open'[i] = n
        PROVE  \E c \in Call : node'[c] # 0 /\ node'[c] = n
    <3>1. CASE i \in 1..Len(open) /\ open'[i] = open[i]
      <4>1. PICK c \in Call : Running(c) /\ open[i] = node[c] /\ node[c] # 0
        BY <3>1, StackFacts
      <4>2. c \notin ToSet(calls)
        BY <4>1, <1>1 DEF Begun
      <4>3. node'[c] = node[c]
        BY <4>2, <1>1 DEF Begun
      <4> QED BY <2>1, <3>1, <4>1, <4>3
    <3>2. CASE i > Len(open) /\ i - Len(open) \in 1..Len(w)
                  /\ open'[i] = Len(nodes) + (i - Len(open))
      <4> DEFINE k == i - Len(open)
      <4>1. k \in 1..Len(w) /\ open'[i] = Len(nodes) + k
        BY <3>2
      <4> HIDE DEF k
      <4>2. node'[w[k]] = Len(nodes) + k /\ w[k] \in Call
        BY <4>1, <1>1 DEF Added
      <4>3. Len(nodes) + k # 0
        BY <4>1, <1>5
      <4> QED BY <2>1, <4>1, <4>2, <4>3
    <3> QED BY <3>1, <3>2, <1>7
  <2>2. ASSUME NEW c \in Call, node'[c] # 0, node'[c] = n
        PROVE  \E i \in DOMAIN open' : open'[i] = n
    <3>1. CASE c \notin ToSet(calls)
      <4>1. node[c] = n /\ node[c] # 0
        BY <2>2, <3>1, <1>1 DEF Begun
      <4>2. PICK i \in 1..Len(open) : open[i] = n
        BY <4>1, StackFacts
      <4>3. i \in DOMAIN open' /\ open'[i] = n
        BY <4>2, <1>5, <1>6
      <4> QED BY <4>3
    <3>2. CASE c \in ToSet(calls)
      <4>1. c \notin lost
        BY <2>2, <1>1 DEF Begun
      <4>2. PICK k \in 1..Len(w) : node'[c] = Len(nodes) + k
        BY <3>2, <4>1, <1>1 DEF Begun, w
      <4>3. Len(open) + k \in DOMAIN open' /\ open'[Len(open) + k] = n
        BY <2>2, <4>2, <1>5, <1>6
      <4> QED BY <4>3
    <3> QED BY <3>1, <3>2
  <2> QED BY <2>1, <2>2 DEF ToSet
<1> QED BY <1>8, <1>9 DEF StackIsOpenCalls

LEMMA AnnounceCallers ==
  ASSUME TurnInv, NEW p \in Agent, NEW calls \in Batches, NEW lost \in SUBSET ToSet(calls),
         Announce(p, calls, lost)
  PROVE  CallersRun'
<1>1. Begun(p, calls, lost)
  BY AnnounceFacts
<1>2. CallersRun /\ node \in [Call -> Nat] /\ nodes \in Seq(NodeType) /\ caller \in [Call -> Agent]
  BY DEF TurnInv, TurnTypeOK, NodeType
<1>3. \A c \in Call : Running(c) => Running(c)' /\ c \notin ToSet(calls) /\ node'[c] = node[c]
  BY <1>1 DEF Begun, Running
<1>7. ASSUME NEW c \in Call, call'[c] # "waiting", caller'[c] # Root
      PROVE  call'[caller'[c]] # "waiting"
  <2>1. CASE c \in ToSet(calls)
    BY <2>1, <1>1, <1>7 DEF Begun, Running
  <2>2. CASE c \notin ToSet(calls)
    <3>1. call[c] # "waiting" /\ caller'[c] = caller[c] /\ caller[c] \in Call
      BY <2>2, <1>1, <1>2, <1>7 DEF Begun, Agent
    <3>2. call[caller[c]] # "waiting"
      BY <3>1, <1>2, <1>7 DEF CallersRun
    <3> QED BY <3>1, <3>2, <1>1 DEF Begun
  <2> QED BY <2>1, <2>2
<1>4. SUFFICES ASSUME NEW c \in Call, Running(c)', caller'[c] # Root
               PROVE  /\ Running(caller[c])'
                      /\ node'[c] # 0 /\ node'[caller'[c]] # 0 => node'[caller'[c]] < node'[c]
  BY <1>7 DEF CallersRun, Running
<1>5. CASE c \notin ToSet(calls)
  <2>1. Running(c) /\ caller'[c] = caller[c] /\ node'[c] = node[c]
    BY <1>1, <1>4, <1>5 DEF Begun, Running
  <2>2. caller[c] \in Call /\ Running(caller[c])
    BY <1>2, <1>4, <2>1 DEF CallersRun, Agent
  <2>3. node'[caller[c]] = node[caller[c]] /\ Running(caller[c])'
    <3>1. Running(caller[c])'
      BY <1>1, <2>1, <2>2 DEF Begun, Running
    <3> QED BY <1>3, <2>2, <3>1
  <2>4. node[c] # 0 /\ node[caller[c]] # 0 => node[caller[c]] < node[c]
    BY <1>2, <1>4, <2>1 DEF CallersRun
  <2> QED BY <2>1, <2>3, <2>4
<1>6. CASE c \in ToSet(calls)
  <2>1. caller'[c] = p /\ p \in Call /\ Running(p)
    BY <1>1, <1>4, <1>6 DEF Begun
  <2>2. node'[p] = node[p] /\ Running(p)' /\ call'[p] = "running"
    BY <1>3, <2>1 DEF Running
  <2>3. node[p] # 0 => node[p] <= Len(nodes)
    BY <1>2, <2>1, IndexFacts
  <2>4. node'[c] # 0 => node'[c] > Len(nodes)
    <3>1. node'[c] # 0 => c \notin lost
      BY <1>1 DEF Begun
    <3>2. c \notin lost => \E i \in 1..Len(Without(calls, lost)) : node'[c] = Len(nodes) + i
      BY <1>1, <1>6 DEF Begun
    <3>3. Len(nodes) \in Nat
      BY <1>2
    <3>4. \A i \in 1..Len(Without(calls, lost)) : Len(nodes) + i > Len(nodes)
      BY <3>3, AnnounceFacts
    <3> QED BY <3>1, <3>2, <3>4
  <2>5. node'[c] # 0 /\ node[p] # 0 => node[p] < node'[c]
    <3>1. node' \in [Call -> Nat]
      BY AnnounceFacts DEF Added
    <3>2. Len(nodes) \in Nat /\ node[p] \in Nat /\ node'[c] \in Nat
      BY <1>2, <2>1, <3>1
    <3> QED BY <2>3, <2>4, <3>2
  <2>6. Running(caller[c])'
    BY <2>1, <2>2 DEF Running
  <2> QED BY <2>1, <2>2, <2>5, <2>6
<1> QED BY <1>5, <1>6

LEMMA LastInBatch ==
  ASSUME TurnInv, NEW c \in Call, call[c] # "waiting"
  PROVE  /\ Last(batch[c]) \in ToSet(batch[c]) /\ Last(batch[c]) \in Call
         /\ batch[Last(batch[c])] = batch[c] /\ caller[Last(batch[c])] = caller[c]
         /\ call[Last(batch[c])] # "waiting"
<1>1. batch[c] \in Seq(Call) /\ c \in ToSet(batch[c])
  BY DEF TurnInv, TurnTypeOK, BatchesHold
<1>2. Len(batch[c]) \in DOMAIN batch[c]
  BY <1>1 DEF ToSet
<1>3. Last(batch[c]) \in ToSet(batch[c]) /\ Last(batch[c]) \in Call
  BY <1>1, <1>2 DEF ToSet, Last
<1> QED BY <1>3 DEF TurnInv, BatchesHold

LEMMA AnnounceBatches ==
  ASSUME TurnInv, NEW p \in Agent, NEW calls \in Batches, NEW lost \in SUBSET ToSet(calls),
         Announce(p, calls, lost)
  PROVE  BatchesHold'
<1>1. Begun(p, calls, lost)
  BY AnnounceFacts
<1>2. BatchesHold
  BY DEF TurnInv
<1>3. ASSUME NEW c \in Call, call'[c] # "waiting"
      PROVE  /\ c \in ToSet(batch'[c])
             /\ \A d \in ToSet(batch'[c]) :
                  call'[d] # "waiting" /\ batch'[d] = batch'[c] /\ caller'[d] = caller'[c]
  <2>1. CASE c \in ToSet(calls)
    BY <2>1, <1>1 DEF Begun
  <2>2. CASE c \notin ToSet(calls)
    <3>1. call[c] # "waiting" /\ batch'[c] = batch[c] /\ caller'[c] = caller[c]
      BY <2>2, <1>1, <1>3 DEF Begun
    <3>2. c \in ToSet(batch[c])
      BY <3>1, <1>2 DEF BatchesHold
    <3>3. ASSUME NEW d \in ToSet(batch[c])
          PROVE  call'[d] # "waiting" /\ batch'[d] = batch[c] /\ caller'[d] = caller[c]
      <4>1. call[d] # "waiting" /\ batch[d] = batch[c] /\ caller[d] = caller[c]
        BY <3>1, <1>2 DEF BatchesHold
      <4>2. d \in Call
        <5>1. batch[c] \in Seq(Call)
          BY DEF TurnInv, TurnTypeOK
        <5> QED BY <5>1 DEF ToSet
      <4>3. d \notin ToSet(calls)
        BY <4>1, <1>1 DEF Begun
      <4> QED BY <4>1, <4>2, <4>3, <1>1 DEF Begun
    <3> QED BY <3>1, <3>2, <3>3
  <2> QED BY <2>1, <2>2
<1>4. ASSUME NEW c \in Call, NEW d \in Call, Running(c)', Running(d)', caller'[c] = caller'[d]
      PROVE  /\ batch'[c] = batch'[d]
             /\ unnamed' = {} /\ d = Last(batch'[c]) => node'[c] <= node'[d]
  <2>1. CASE c \in ToSet(calls) /\ d \in ToSet(calls)
    <3>1. batch'[c] = calls /\ batch'[d] = calls
      BY <2>1, <1>1 DEF Begun
    <3>2. ASSUME unnamed' = {}, d = Last(calls) PROVE node'[c] <= node'[d]
      <4>1. lost = {} /\ Without(calls, lost) = calls
        BY <3>2, <1>1, AnnounceFacts DEF Begun
      <4>2. calls \in Seq(Call) /\ calls # <<>>
        BY <1>1 DEF Begun
      <4>8. Added(calls)
        <5>1. Added(Without(calls, lost))
          BY AnnounceFacts
        <5> QED BY <4>1, <5>1
      <4>3. \A i \in 1..Len(calls) : node'[calls[i]] = Len(nodes) + i
        BY <4>8 DEF Added
      <4>4. PICK i \in 1..Len(calls) : c = calls[i]
        BY <2>1, <4>2 DEF ToSet
      <4>5. Len(calls) \in 1..Len(calls) /\ d = calls[Len(calls)]
        BY <3>2, <4>2 DEF Last
      <4>6. node'[c] = Len(nodes) + i /\ node'[d] = Len(nodes) + Len(calls)
        BY <4>3, <4>4, <4>5
      <4>7. Len(nodes) \in Nat /\ Len(calls) \in Nat
        BY <4>2 DEF TurnInv, TurnTypeOK
      <4> QED BY <4>6, <4>7
    <3> QED BY <3>1, <3>2
  <2>2. CASE c \notin ToSet(calls) /\ d \notin ToSet(calls)
    <3>1. /\ Running(c) /\ Running(d) /\ caller[c] = caller[d]
          /\ batch'[c] = batch[c] /\ batch'[d] = batch[d] /\ node'[c] = node[c] /\ node'[d] = node[d]
      BY <2>2, <1>1, <1>4 DEF Begun, Running
    <3>2. unnamed' = {} => unnamed = {}
      BY <1>1 DEF Begun
    <3> QED BY <3>1, <3>2, <1>2 DEF BatchesHold
  <2>3. CASE c \in ToSet(calls) /\ d \notin ToSet(calls)
    BY <2>3, <1>1, <1>4 DEF Begun, Running, Idle
  <2>4. CASE c \notin ToSet(calls) /\ d \in ToSet(calls)
    BY <2>4, <1>1, <1>4 DEF Begun, Running, Idle
  <2> QED BY <2>1, <2>2, <2>3, <2>4
<1> QED BY <1>3, <1>4 DEF BatchesHold, Running

(* A turn that is orderly after an announcement was so before.              *)
LEMMA AnnounceOrderly ==
  ASSUME TurnInv, NEW p \in Agent, NEW calls \in Batches, NEW lost \in SUBSET ToSet(calls),
         Announce(p, calls, lost), Orderly'
  PROVE  /\ Orderly /\ unnamed = {} /\ unnamed' = {} /\ lost = {}
         /\ p # Root => Last(batch[p]) = p
         /\ adapter = "pydantic" => \A c \in ToSet(calls) :
              IF c \in inToolset THEN p = Root ELSE Len(calls) = 1
<1>1. Begun(p, calls, lost)
  BY AnnounceFacts
<1>2. adapter' = adapter /\ inToolset' = inToolset
  BY DEF Announce
<1>3. \A c \in Call : call'[c] # "waiting" =>
        /\ c \notin unnamed'
        /\ caller'[c] # Root => Last(batch'[caller'[c]]) = caller'[c]
        /\ adapter = "pydantic" => IF c \in inToolset THEN caller'[c] = Root ELSE Len(batch'[c]) = 1
  BY <1>2 DEF Orderly
<1>4. unnamed' = {}
  <2>1. \A c \in unnamed' : c \in Call /\ call'[c] # "waiting"
    BY AnnounceType DEF TurnTypeOK, UnnamedBegan
  <2> QED BY <2>1, <1>3
<1>5. unnamed = {} /\ lost = {}
  BY <1>1, <1>4 DEF Begun
<1>6. PICK d \in ToSet(calls) : TRUE
  BY <1>1 DEF Begun, ToSet
<1>7. d \in Call /\ call'[d] = "running" /\ caller'[d] = p /\ batch'[d] = calls
  BY <1>1 DEF Begun
<1>8. p # Root => p \in Call /\ batch'[p] = batch[p]
  BY <1>1 DEF Begun, Running
<1>9. p # Root => Last(batch[p]) = p
  BY <1>3, <1>7, <1>8
<1>10. adapter = "pydantic" => \A c \in ToSet(calls) :
         IF c \in inToolset THEN p = Root ELSE Len(calls) = 1
  BY <1>1, <1>3 DEF Begun
<1>11. Orderly
  <2> SUFFICES ASSUME NEW c \in Call, call[c] # "waiting"
               PROVE  /\ c \notin unnamed
                      /\ caller[c] # Root => Last(batch[caller[c]]) = caller[c]
                      /\ adapter = "pydantic" =>
                           IF c \in inToolset THEN caller[c] = Root ELSE Len(batch[c]) = 1
    BY DEF Orderly
  <2>1. c \notin ToSet(calls)
    BY <1>1 DEF Begun
  <2>2. call'[c] = call[c] /\ caller'[c] = caller[c] /\ batch'[c] = batch[c]
    BY <2>1, <1>1 DEF Begun
  <2>3. ASSUME caller[c] # Root PROVE Last(batch[caller[c]]) = caller[c]
    <3>1. Last(batch'[caller[c]]) = caller[c]
      BY <1>3, <2>2, <2>3
    <3>2. caller[c] \in Call
      BY <2>3 DEF TurnInv, TurnTypeOK, Agent
    <3>3. call[caller[c]] # "waiting"
      BY <2>3 DEF TurnInv, CallersRun
    <3> QED BY <3>1, <3>2, <3>3, <1>1 DEF Begun
  <2> QED BY <1>3, <1>5, <2>2, <2>3
<1> QED BY <1>4, <1>5, <1>9, <1>10, <1>11

(* The node of a call that is announced comes after those that are there.   *)
LEMMA AnnouncedLater ==
  ASSUME TurnInv, NEW p \in Agent, NEW calls \in Batches, NEW lost \in SUBSET ToSet(calls),
         Announce(p, calls, lost), lost = {}, NEW c \in ToSet(calls), NEW d \in Call
  PROVE  /\ c \in Call /\ node'[c] \in Nat /\ node'[c] > Len(nodes)
         /\ node[d] \in Nat /\ node[d] <= Len(nodes) /\ node[d] < node'[c]
<1>1. Begun(p, calls, lost) /\ node' \in [Call -> Nat] /\ Without(calls, lost) \in Seq(Call)
  BY AnnounceFacts DEF Added
<1>2. PICK i \in 1..Len(Without(calls, lost)) : node'[c] = Len(nodes) + i
  BY <1>1 DEF Begun
<1>3. c \in Call
  BY <1>1 DEF Begun
<1>4. nodes \in Seq(NodeType) /\ node \in [Call -> Nat]
  BY DEF TurnInv, TurnTypeOK, NodeType
<1>5. node[d] # 0 => node[d] \in 1..Len(nodes)
  BY IndexFacts
<1> DEFINE k == Len(nodes)
           m == Len(Without(calls, lost))
<1>6. k \in Nat /\ m \in Nat /\ node[d] \in Nat
  BY <1>1, <1>4
<1> HIDE DEF k, m
<1>7. node'[c] = k + i /\ i \in 1..m
  BY <1>2 DEF k, m
<1>8. node[d] # 0 => node[d] \in 1..k
  BY <1>5 DEF k
<1>9. node[d] <= k
  BY <1>6, <1>8
<1>10. k + i > k /\ k + i \in Nat
  BY <1>6, <1>7
<1>11. node[d] < k + i
  BY <1>6, <1>7, <1>9, <1>10
<1> QED BY <1>3, <1>6, <1>7, <1>9, <1>10, <1>11 DEF k

LEMMA AnnounceLast ==
  ASSUME TurnInv, NEW p \in Agent, NEW calls \in Batches, NEW lost \in SUBSET ToSet(calls),
         Announce(p, calls, lost)
  PROVE  LastCallGoesOn'
<1> SUFFICES ASSUME Orderly', NEW c \in Call, NEW d \in Call, Running(c)', Running(d)',
                    node'[c] < node'[d], caller'[c] # caller'[d]
             PROVE  \E e \in Call : Running(e)' /\ caller'[e] = Last(batch'[c]) /\ node'[e] <= node'[d]
  BY DEF LastCallGoesOn, Running
<1>1. Begun(p, calls, lost) /\ node' \in [Call -> Nat]
  BY AnnounceFacts DEF Added
<1>2. /\ Orderly /\ unnamed = {} /\ lost = {}
      /\ p # Root => Last(batch[p]) = p
  BY AnnounceOrderly
<1>3. \A x \in Call : x \notin ToSet(calls) =>
        /\ Running(x)' <=> Running(x)
        /\ caller'[x] = caller[x] /\ batch'[x] = batch[x] /\ node'[x] = node[x]
  BY <1>1 DEF Begun, Running
<1>4. node \in [Call -> Nat]
  BY DEF TurnInv, TurnTypeOK
<1>5. CASE c \notin ToSet(calls) /\ d \notin ToSet(calls)
  <2>1. Running(c) /\ Running(d) /\ node[c] < node[d] /\ caller[c] # caller[d]
    BY <1>3, <1>5
  <2>2. PICK e \in Call : Running(e) /\ caller[e] = Last(batch[c]) /\ node[e] <= node[d]
    BY <1>2, <2>1 DEF TurnInv, LastCallGoesOn
  <2>3. e \notin ToSet(calls)
    BY <2>2, <1>1 DEF Begun, Running
  <2> QED BY <1>3, <1>5, <2>2, <2>3
<1>6. CASE c \in ToSet(calls) /\ d \notin ToSet(calls)
  <2>1. node[d] < node'[c]
    BY <1>2, <1>6, AnnouncedLater
  <2> QED BY <1>1, <1>3, <1>6, <2>1
<1>7. CASE c \in ToSet(calls) /\ d \in ToSet(calls)
  BY <1>1, <1>7 DEF Begun
<1>8. CASE c \notin ToSet(calls) /\ d \in ToSet(calls)
  <2>1. Running(c) /\ caller'[d] = p /\ batch'[c] = batch[c]
    BY <1>1, <1>3, <1>8 DEF Begun
  <2>2. p # Root
    BY <1>1, <1>2, <2>1, RootIdle DEF Begun
  <2>3. p \in Call /\ Running(p) /\ Idle(p) /\ Last(batch[p]) = p
    BY <1>1, <1>2, <2>2 DEF Begun
  <2>4. node[c] <= node[p]
    BY <1>2, <2>1, <2>3, CallerIsLast
  <2>5. CASE caller[c] = caller[p]
    <3>1. batch[c] = batch[p]
      BY <2>1, <2>3, <2>5 DEF TurnInv, BatchesHold
    <3> QED BY <2>1, <2>3, <3>1, <1>1
  <2>6. CASE caller[c] # caller[p]
    <3>1. node[c] # node[p]
      <4>1. node[c] # 0 /\ node[p] # 0
        BY <1>2, <2>1, <2>3, IndexFacts
      <4>2. nodes[node[c]].call = c /\ nodes[node[p]].call = p
        BY <2>3, <4>1, IndexFacts
      <4> QED BY <4>2, <2>6
    <3>2. node[c] < node[p]
      BY <1>4, <2>3, <2>4, <3>1
    <3>3. PICK e \in Call : Running(e) /\ caller[e] = Last(batch[c]) /\ node[e] <= node[p]
      BY <1>2, <2>1, <2>3, <2>6, <3>2 DEF TurnInv, LastCallGoesOn
    <3>4. e \notin ToSet(calls)
      BY <3>3, <1>1 DEF Begun, Running
    <3>5. node[e] < node'[d]
      BY <1>2, <1>8, AnnouncedLater
    <3>6. node'[e] <= node'[d]
      BY <1>1, <1>3, <3>4, <3>5
    <3> QED BY <1>3, <2>1, <3>3, <3>4, <3>6
  <2> QED BY <2>5, <2>6
<1> QED BY <1>5, <1>6, <1>7, <1>8

LEMMA AnnounceOuter ==
  ASSUME TurnInv, NEW p \in Agent, NEW calls \in Batches, NEW lost \in SUBSET ToSet(calls),
         Announce(p, calls, lost)
  PROVE  OuterCallsAreSiblings'
<1> DEFINE w == Without(calls, lost)
<1>1. Begun(p, calls, lost) /\ w \in Seq(Call) /\ (lost = {} => w = calls)
  BY AnnounceFacts
<1>2. /\ adapter' = adapter /\ inToolset' = inToolset /\ adapter \in {"langchain", "pydantic"}
  BY TurnAssumption DEF Announce, TurnInv, TurnTypeOK
<1> SUFFICES ASSUME NEW i \in DOMAIN nodes', caller'[nodes'[i].call] = Root,
                    IF adapter = "pydantic"
                    THEN nodes'[i].call \in inToolset \/ nodes'[i].call = Head(batch'[nodes'[i].call])
                    ELSE unnamed' = {}
             PROVE  nodes'[i].under = 0
  BY <1>2 DEF OuterCallsAreSiblings
<1>3. adapter = "langchain" => unnamed = {}
  BY <1>1 DEF Begun
<1>4. CASE i \in DOMAIN nodes /\ nodes'[i] = nodes[i] /\ nodes[i].call \in Call \ ToSet(calls)
  <2>1. caller[nodes[i].call] = Root /\ batch'[nodes[i].call] = batch[nodes[i].call]
    BY <1>1, <1>4 DEF Begun
  <2> QED BY <1>2, <1>3, <1>4, <2>1 DEF TurnInv, OuterCallsAreSiblings
<1>5. CASE /\ nodes'[i].call \in ToSet(calls) /\ nodes'[i].under = Hang(w, i - Len(nodes))
           /\ nodes'[i].call = w[i - Len(nodes)] /\ i - Len(nodes) \in 1..Len(w)
  <2> DEFINE k == i - Len(nodes)
  <2>1. p = Root /\ batch'[nodes'[i].call] = calls
    BY <1>1, <1>5 DEF Begun
  <2>2. nodes'[i].under = Hang(w, k) /\ nodes'[i].call = w[k] /\ k \in 1..Len(w)
    BY <1>5
  <2> HIDE DEF w, k
  <2>3. unnamed = {}
    <3>1. adapter = "pydantic" => unnamed = {}
      BY DEF TurnInv, UnnamedBegan
    <3> QED BY <1>2, <1>3, <3>1
  <2>4. open = <<>>
    <3>1. open \in Seq(Nat)
      BY DEF TurnInv, TurnTypeOK
    <3>2. \A j \in 1..Len(open) : FALSE
      BY <1>1, <2>1, <2>3, StackFacts, RootIdle DEF Begun
    <3> QED BY <3>1, <3>2
  <2>5. ParentNode(w[k], open) = 0
    BY <2>4 DEF ParentNode, Top
  <2>6. CASE adapter = "langchain" \/ k = 1
    BY <2>2, <2>5, <2>6 DEF Hang
  <2>7. CASE adapter = "pydantic" /\ w[k] \in inToolset
    BY <2>2, <2>7 DEF Hang, ParentNode
  <2>8. CASE adapter = "pydantic" /\ w[k] = Head(calls)
    <3>1. w = calls
      BY <1>1, <2>8 DEF Begun
    <3>2. calls \in Seq(Call) /\ \A a, b \in DOMAIN calls : calls[a] = calls[b] => a = b
      BY BatchFacts
    <3>3. k \in DOMAIN calls /\ 1 \in DOMAIN calls /\ Head(calls) = calls[1]
      BY <2>2, <3>1, <3>2
    <3>4. k = 1
      BY <2>8, <3>1, <3>2, <3>3
    <3> QED BY <3>4, <2>6
  <2> QED BY <1>2, <2>1, <2>2, <2>6, <2>7, <2>8
<1> QED BY <1>4, <1>5, AnnouncedNodes

LEMMA TopIsNode ==
  ASSUME TurnInv, NEW c
  PROVE  Top(open) \in 0..Len(nodes) /\ ParentNode(c, open) \in 0..Len(nodes)
<1>1. open \in Seq(Nat) /\ nodes \in Seq(NodeType)
  BY DEF TurnInv, TurnTypeOK, NodeType
<1>2. Len(nodes) \in Nat
  BY <1>1
<1>3. open # <<>> => open[Len(open)] \in 1..Len(nodes)
  <2>1. open # <<>> => Len(open) \in 1..Len(open)
    BY <1>1
  <2> QED BY <2>1, StackFacts
<1> QED BY <1>2, <1>3 DEF ParentNode, Top, Last

LEMMA AnnounceUnder ==
  ASSUME TurnInv, NEW p \in Agent, NEW calls \in Batches, NEW lost \in SUBSET ToSet(calls),
         Announce(p, calls, lost)
  PROVE  NodesUnderEarlier'
<1> SUFFICES ASSUME NEW i \in DOMAIN nodes' PROVE nodes'[i].under < i
  BY DEF NodesUnderEarlier
<1>1. nodes \in Seq(NodeType) /\ open \in Seq(Nat)
  BY DEF TurnInv, TurnTypeOK, NodeType
<1>2. CASE i \in DOMAIN nodes /\ nodes'[i] = nodes[i]
  BY <1>2 DEF TurnInv, NodesUnderEarlier
<1>3. CASE /\ nodes'[i].under = Hang(Without(calls, lost), i - Len(nodes))
           /\ i - Len(nodes) \in 1..Len(Without(calls, lost)) /\ i > Len(nodes)
  <2> DEFINE w == Without(calls, lost)
             k == Len(nodes)
             j == i - k
  <2>1. k \in Nat /\ j \in Nat /\ j # 0 /\ i = k + j /\ i \in Nat
    <3>1. nodes' \in Seq(NodeType)
      BY AnnounceFacts DEF Added
    <3>2. k \in Nat /\ i \in Nat
      BY <1>1, <3>1
    <3> HIDE DEF k
    <3> QED BY <3>2, <1>3 DEF k
  <2>2. nodes'[i].under = Hang(w, j)
    BY <1>3
  <2>3. Top(open) \in 0..k /\ ParentNode(w[j], open) \in 0..k
    BY TopIsNode
  <2> DEFINE stack == Append(open, k + j - 1)
  <2>4. Top(stack) = k + j - 1
    <3>0. k + j - 1 \in Nat
      BY <2>1
    <3>1. stack # <<>> /\ stack[Len(stack)] = k + j - 1
      BY <1>1, <3>0
    <3> QED BY <3>1 DEF Top, Last
  <2>5. Hang(w, j) = ParentNode(w[j], open) \/ Hang(w, j) = 0 \/ Hang(w, j) = Top(stack)
    BY DEF Hang, ParentNode
  <2> HIDE DEF w, k, j, stack
  <2> QED BY <2>1, <2>2, <2>3, <2>4, <2>5
<1> QED BY <1>2, <1>3, AnnouncedNodes

LEMMA AnnounceTree ==
  ASSUME TurnInv, NEW p \in Agent, NEW calls \in Batches, NEW lost \in SUBSET ToSet(calls),
         Announce(p, calls, lost)
  PROVE  TreeMirrorsCalls'
<1>1. Begun(p, calls, lost) /\ Added(Without(calls, lost))
  BY AnnounceFacts
<1>2. adapter' = adapter /\ inToolset' = inToolset /\ adapter \in {"langchain", "pydantic"}
  BY TurnAssumption DEF Announce, TurnInv, TurnTypeOK
<1> SUFFICES ASSUME Orderly', NEW i \in DOMAIN nodes'
             PROVE  LET q == caller'[nodes'[i].call]
                    IN  IF q = Root THEN nodes'[i].under = 0
                        ELSE nodes'[i].under # 0 /\ nodes'[nodes'[i].under].call = q
  BY DEF TreeMirrorsCalls
<1>3. /\ Orderly /\ unnamed = {} /\ unnamed' = {} /\ lost = {}
      /\ p # Root => Last(batch[p]) = p
      /\ adapter = "pydantic" => \A c \in ToSet(calls) :
           IF c \in inToolset THEN p = Root ELSE Len(calls) = 1
  BY AnnounceOrderly
<1>4. caller'[nodes'[i].call] = Root => nodes'[i].under = 0
  <2> DEFINE c == nodes'[i].call
  <2>1. NodesMatchCalls' /\ BatchesHold' /\ TurnTypeOK'
    BY AnnounceNodes, AnnounceBatches, AnnounceType
  <2>2. c \in Call /\ call'[c] # "waiting"
    <3>1. i \in DOMAIN nodes'
      OBVIOUS
    <3> QED BY <2>1, <3>1, AnnouncedNodes, <1>1 DEF NodesMatchCalls, Outcome, Begun
  <2>3. c \in ToSet(batch'[c]) /\ batch'[c] \in Seq(Call)
    BY <2>1, <2>2 DEF BatchesHold, TurnTypeOK
  <2>4. Len(batch'[c]) = 1 => c = Head(batch'[c])
    BY <2>3 DEF ToSet
  <2>5. adapter = "pydantic" => c \in inToolset \/ c = Head(batch'[c])
    BY <1>2, <2>2, <2>4 DEF Orderly
  <2> QED BY <1>2, <1>3, <2>5, AnnounceOuter DEF OuterCallsAreSiblings
<1>5. nodes \in Seq(NodeType) /\ caller \in [Call -> Agent]
  BY DEF TurnInv, TurnTypeOK, NodeType
<1>6. ASSUME NEW k \in DOMAIN nodes PROVE nodes'[k] = nodes[k]
  <2>1. k \in 1..Len(nodes)
    BY <1>5
  <2> QED BY <2>1, <1>1 DEF Added
<1>7. CASE i \in DOMAIN nodes /\ nodes'[i] = nodes[i] /\ nodes[i].call \in Call \ ToSet(calls)
  <2>1. caller'[nodes'[i].call] = caller[nodes[i].call]
    BY <1>1, <1>7 DEF Begun
  <2> DEFINE u == nodes[i].under
             q == caller[nodes[i].call]
  <2>2. SUFFICES ASSUME q # Root PROVE u # 0 /\ nodes'[u].call = q
    BY <1>4, <1>7, <2>1
  <2>3. u # 0 /\ nodes[u].call = q
    BY <1>3, <1>7, <2>2 DEF TurnInv, TreeMirrorsCalls
  <2>4. u \in DOMAIN nodes
    <3>1. u < i /\ i \in 1..Len(nodes) /\ nodes[i] \in NodeType /\ Len(nodes) \in Nat
      BY <1>5, <1>7 DEF TurnInv, NodesUnderEarlier
    <3>2. u \in Nat
      BY <3>1 DEF NodeType
    <3> QED BY <1>5, <2>3, <3>1, <3>2
  <2> QED BY <2>3, <2>4, <1>5, <1>6
<1>8. CASE /\ nodes'[i].call \in ToSet(calls) \ lost
           /\ nodes'[i].under = Hang(Without(calls, lost), i - Len(nodes))
           /\ nodes'[i].call = Without(calls, lost)[i - Len(nodes)]
           /\ i - Len(nodes) \in 1..Len(Without(calls, lost))
  <2>1. caller'[nodes'[i].call] = p
    BY <1>1, <1>8 DEF Begun
  <2>2. SUFFICES ASSUME p # Root PROVE nodes'[i].under # 0 /\ nodes'[nodes'[i].under].call = p
    BY <1>4, <2>1
  <2>3. p \in Call /\ Running(p) /\ Idle(p) /\ Last(batch[p]) = p
    BY <1>1, <1>3, <2>2 DEF Begun
  <2>4. Top(open) = node[p] /\ node[p] \in 1..Len(nodes) /\ nodes[node[p]].call = p
    BY <1>3, <2>3, TopOfStack
  <2>5. adapter = "langchain" \/ i - Len(nodes) = 1
    <3>1. adapter = "pydantic" => Len(Without(calls, lost)) = 1
      BY <1>3, <1>8, <2>2, AnnounceFacts
    <3>2. \A k \in 1..1 : k = 1
      OBVIOUS
    <3> QED BY <1>2, <1>8, <3>1, <3>2
  <2>6. Hang(Without(calls, lost), i - Len(nodes)) = Top(open)
    BY <1>3, <1>8, <2>2, <2>5 DEF Hang, ParentNode
  <2>7. nodes'[node[p]] = nodes[node[p]]
    BY <1>1, <2>4 DEF Added
  <2>8. node[p] # 0
    <3>1. Len(nodes) \in Nat
      BY <1>5
    <3> QED BY <2>4, <3>1
  <2> QED BY <1>8, <2>4, <2>6, <2>7, <2>8
<1> QED BY <1>7, <1>8, AnnouncedNodes

-----------------------------------------------------------------------------
(* What the result of a call under way changes: the node of that call.      *)
Delivered(c, o) ==
  /\ nodes' \in Seq(NodeType) /\ open' \in Seq(Nat) /\ node' \in [Call -> Nat]
  /\ emitted' = emitted \cup {c}
  /\ \A d \in Call : node'[d] = IF d = c THEN 0 ELSE node[d]
  /\ \A i \in DOMAIN nodes :
       i \in DOMAIN nodes' /\ nodes'[i].call = nodes[i].call /\ nodes'[i].under = nodes[i].under
  /\ \A i \in DOMAIN nodes' :
       \/ i \in DOMAIN nodes /\ nodes[i].call # c /\ nodes'[i] = nodes[i]
       \/ i \in DOMAIN nodes /\ i = node[c] /\ nodes'[i].call = c /\ nodes'[i].outcome = o
       \/ /\ node[c] = 0 /\ i = Len(nodes) + 1
          /\ nodes'[i] = [call |-> c, outcome |-> o, under |-> ParentNode(c, open)]
  /\ \E i \in DOMAIN nodes' : nodes'[i].call = c
  /\ ToSet(open') = ToSet(open) \ NodesOf(c)
  /\ \A i, j \in DOMAIN open' : i < j => open'[i] < open'[j]

LEMMA NodesTyped ==
  ASSUME TurnInv
  PROVE  /\ nodes \in Seq(NodeType) /\ DOMAIN nodes = 1..Len(nodes) /\ Len(nodes) \in Nat
         /\ \A i \in DOMAIN nodes : nodes[i] \in NodeType
<1>1. nodes \in Seq(NodeType)
  BY DEF TurnInv, TurnTypeOK, NodeType
<1>2. DOMAIN nodes = 1..Len(nodes) /\ Len(nodes) \in Nat
  BY <1>1
<1> QED BY <1>1, <1>2

LEMMA DeliverFacts ==
  ASSUME TurnInv, NEW c \in Call, NEW o \in Outcome, Running(c), Deliver(c, o)
  PROVE  Delivered(c, o)
<1>1. /\ nodes \in Seq(NodeType) /\ open \in Seq(Nat) /\ node \in [Call -> Nat]
      /\ DOMAIN nodes = 1..Len(nodes) /\ Len(nodes) \in Nat
      /\ \A i \in DOMAIN nodes : nodes[i] \in NodeType
  BY NodesTyped DEF TurnInv, TurnTypeOK
<1>2. emitted' = emitted \cup {c}
  BY DEF Deliver
<1>3. \A i, j \in DOMAIN open : i < j => open[i] < open[j]
  BY DEF TurnInv, StackIsOpenCalls
<1>4. CASE node[c] = 0
  <2> DEFINE new == [call |-> c, outcome |-> o, under |-> ParentNode(c, open)]
  <2>1. nodes' = Append(nodes, new) /\ open' = open /\ node' = node
    BY <1>4 DEF Deliver
  <2>2. ParentNode(c, open) \in Nat
    BY <1>1, ParentNodeType
  <2>3. new \in NodeType /\ new.call = c
    BY <2>2 DEF NodeType
  <2>4. NodesOf(c) = {}
    BY <1>4, IndexFacts DEF NodesOf
  <2> HIDE DEF new
  <2>5. /\ nodes' \in Seq(NodeType) /\ Len(nodes') = Len(nodes) + 1
        /\ DOMAIN nodes' = 1..(Len(nodes) + 1)
        /\ nodes'[Len(nodes) + 1] = new
        /\ \A i \in 1..Len(nodes) : nodes'[i] = nodes[i]
    BY <1>1, <2>1, <2>3
  <2>6. \A i \in DOMAIN nodes : i \in DOMAIN nodes' /\ nodes'[i] = nodes[i] /\ nodes[i].call # c
    BY <1>1, <1>4, <2>5, IndexFacts
  <2>7. \A i \in DOMAIN nodes' : i \in DOMAIN nodes \/ i = Len(nodes) + 1
    BY <1>1, <2>5
  <2>8. Len(nodes) + 1 \in DOMAIN nodes'
    BY <1>1, <2>5
  <2>9. \A i \in DOMAIN nodes' :
          \/ i \in DOMAIN nodes /\ nodes[i].call # c /\ nodes'[i] = nodes[i]
          \/ i = Len(nodes) + 1 /\ nodes'[i] = new
    BY <2>5, <2>6, <2>7
  <2> QED BY <1>1, <1>2, <1>3, <1>4, <2>1, <2>3, <2>4, <2>5, <2>6, <2>8, <2>9 DEF Delivered, new
<1>5. CASE node[c] # 0
  <2> DEFINE n == node[c]
             w == Without(open, NodesOf(c))
  <2>1. n \in DOMAIN nodes /\ nodes[n].call = c
    BY <1>1, <1>5, IndexFacts
  <2>2. nodes' = [nodes EXCEPT ![n].outcome = o] /\ open' = w /\ node' = [node EXCEPT ![c] = 0]
    BY <1>5 DEF Deliver
  <2>3. /\ w \in Seq(Nat) /\ ToSet(w) = ToSet(open) \ NodesOf(c)
        /\ \A i, j \in DOMAIN w : i < j => \E a, b \in DOMAIN open : a < b /\ w[i] = open[a] /\ w[j] = open[b]
    <3>1. open \in Seq(Nat)
      BY <1>1
    <3> DEFINE out == NodesOf(c)
    <3> HIDE DEF out
    <3>2. /\ Without(open, out) \in Seq(Nat)
          /\ ToSet(Without(open, out)) = ToSet(open) \ out
          /\ \A i, j \in DOMAIN Without(open, out) : i < j =>
               \E a, b \in DOMAIN open :
                 a < b /\ Without(open, out)[i] = open[a] /\ Without(open, out)[j] = open[b]
          /\ ToSet(open) \cap out = {} => Without(open, out) = open
      BY <3>1, WithoutFacts, Zenon
    <3> QED BY <3>2 DEF out
  <2> HIDE DEF w
  <2>4. \A i, j \in DOMAIN open' : i < j => open'[i] < open'[j]
    <3>1. \A i, j \in DOMAIN w : i < j => w[i] < w[j]
      BY <1>3, <2>3
    <3> QED BY <2>2, <3>1
  <2>5. DOMAIN nodes' = DOMAIN nodes /\ \A i \in DOMAIN nodes : i # n => nodes'[i] = nodes[i]
    BY <1>1, <2>1, <2>2
  <2>6. nodes'[n] = [nodes[n] EXCEPT !.outcome = o]
    BY <1>1, <2>1, <2>2
  <2>7. nodes[n] \in NodeType
    BY <1>1, <2>1
  <2>8. /\ nodes'[n].call = c /\ nodes'[n].under = nodes[n].under
        /\ nodes'[n].outcome = o /\ nodes'[n] \in NodeType
    BY <2>1, <2>6, <2>7 DEF NodeType
  <2>9. nodes' \in Seq(NodeType)
    <3>1. \A i \in DOMAIN nodes : nodes'[i] \in NodeType
      BY <1>1, <2>5, <2>8
    <3>2. nodes' = [i \in DOMAIN nodes |-> nodes'[i]]
      BY <1>1, <2>2
    <3>3. nodes' \in [1..Len(nodes) -> NodeType]
      BY <1>1, <3>1, <3>2
    <3> QED BY <1>1, <3>3, TabulatedSeq
  <2>10. \A i \in DOMAIN nodes : i # n => nodes[i].call # c
    BY <2>1 DEF TurnInv, NodesMatchCalls
  <2>11. node' \in [Call -> Nat] /\ \A d \in Call : node'[d] = IF d = c THEN 0 ELSE node[d]
    BY <1>1, <2>2
  <2> QED BY <1>2, <2>1, <2>2, <2>3, <2>4, <2>5, <2>8, <2>9, <2>10, <2>11 DEF Delivered
<1> QED BY <1>4, <1>5

LEMMA ResultFacts ==
  ASSUME TurnInv, NEW c \in Call, NEW o \in Outcome, Result(c, o)
  PROVE  /\ Delivered(c, o) /\ Running(c) /\ Idle(c) /\ Streaming
         /\ call' \in [Call -> Status]
         /\ \A d \in Call : call'[d] = IF d = c THEN o ELSE call[d]
         /\ \A d \in Call : Running(d)' <=> Running(d) /\ d # c
         /\ \A d \in Call : call'[d] # "waiting" <=> call[d] # "waiting"
         /\ UNCHANGED <<adapter, caller, inToolset, batch, unnamed, texts, said, failing, turn>>
<1>1. Running(c) /\ Deliver(c, o) /\ call' = [call EXCEPT ![c] = o]
  BY DEF Result
<1>2. call \in [Call -> Status]
  BY DEF TurnInv, TurnTypeOK
<1>3. call' \in [Call -> Status] /\ \A d \in Call : call'[d] = IF d = c THEN o ELSE call[d]
  BY <1>1, <1>2 DEF Status
<1>4. o # "running" /\ o # "waiting" /\ call[c] = "running"
  BY <1>1 DEF Outcome, Running
<1>5. \A d \in Call : Running(d)' <=> Running(d) /\ d # c
  BY <1>3, <1>4 DEF Running
<1> QED BY <1>1, <1>3, <1>4, <1>5, DeliverFacts DEF Result

LEMMA ResultType ==
  ASSUME TurnInv, NEW c \in Call, NEW o \in Outcome, Result(c, o)
  PROVE  TurnTypeOK' /\ UnnamedBegan' /\ TextsKept' /\ ErrorsReachStatus'
<1>1. /\ Delivered(c, o) /\ Streaming /\ call' \in [Call -> Status]
      /\ \A d \in Call : call'[d] # "waiting" <=> call[d] # "waiting"
  BY ResultFacts
<1>2. UNCHANGED <<adapter, caller, inToolset, batch, unnamed, texts, said, failing, turn>>
  BY ResultFacts
<1>3. TurnTypeOK /\ UnnamedBegan /\ TextsKept
  BY DEF TurnInv
<1>4. TurnTypeOK'
  BY <1>1, <1>2, <1>3 DEF TurnTypeOK, Delivered, NodeType
<1>5. UnnamedBegan'
  BY <1>1, <1>2, <1>3 DEF UnnamedBegan, TurnTypeOK
<1>6. TextsKept'
  BY <1>2, <1>3 DEF TextsKept
<1>7. ErrorsReachStatus'
  BY <1>1, <1>2 DEF ErrorsReachStatus, Streaming
<1> QED BY <1>4, <1>5, <1>6, <1>7

LEMMA ResultNodes ==
  ASSUME TurnInv, NEW c \in Call, NEW o \in Outcome, Result(c, o)
  PROVE  NodesMatchCalls' /\ NodesUnderEarlier'
<1>1. /\ Delivered(c, o) /\ Running(c)
      /\ \A d \in Call : call'[d] = IF d = c THEN o ELSE call[d]
      /\ unnamed' = unnamed
  BY ResultFacts
<1>2. /\ nodes \in Seq(NodeType) /\ \A i \in DOMAIN nodes : nodes[i] \in NodeType
      /\ NodesMatchCalls /\ NodesUnderEarlier
  BY NodesTyped DEF TurnInv
<1>3. \A i \in DOMAIN nodes : nodes[i].call \in Call
  BY <1>2 DEF NodeType
<1>4. ASSUME NEW i \in DOMAIN nodes'
      PROVE  LET d == nodes'[i].call
             IN  \/ call'[d] = "running" /\ node'[d] = i /\ nodes'[i].outcome = "pending"
                 \/ call'[d] \in Outcome /\ node'[d] = 0 /\ nodes'[i].outcome = call'[d]
  <2>1. CASE i \in DOMAIN nodes /\ nodes[i].call # c /\ nodes'[i] = nodes[i]
    <3>1. call'[nodes[i].call] = call[nodes[i].call] /\ node'[nodes[i].call] = node[nodes[i].call]
      BY <2>1, <1>1, <1>3 DEF Delivered
    <3> QED BY <2>1, <3>1, <1>2 DEF NodesMatchCalls
  <2>2. CASE nodes'[i].call = c /\ nodes'[i].outcome = o
    BY <2>2, <1>1 DEF Delivered
  <2>3. (i \in DOMAIN nodes /\ nodes[i].call # c /\ nodes'[i] = nodes[i])
        \/ (nodes'[i].call = c /\ nodes'[i].outcome = o)
    BY <1>1 DEF Delivered
  <2> QED BY <2>1, <2>2, <2>3
<1>5. ASSUME NEW i \in DOMAIN nodes', NEW j \in DOMAIN nodes', nodes'[i].call = nodes'[j].call
      PROVE  i = j
  <2> DEFINE Old(k) == k \in DOMAIN nodes /\ nodes'[k].call = nodes[k].call
             Made(k) == node[c] = 0 /\ k = Len(nodes) + 1 /\ nodes'[k].call = c
  <2>1. \A k \in DOMAIN nodes' : Old(k) \/ Made(k)
    BY <1>1 DEF Delivered
  <2>2. CASE Old(i) /\ Old(j)
    BY <2>2, <1>2, <1>5 DEF NodesMatchCalls
  <2>3. CASE Made(i) /\ Made(j)
    BY <2>3
  <2>4. CASE Old(i) /\ Made(j)
    BY <2>4, <1>1, <1>5, IndexFacts
  <2>5. CASE Made(i) /\ Old(j)
    BY <2>5, <1>1, <1>5, IndexFacts
  <2> HIDE DEF Old, Made
  <2> QED BY <2>1, <2>2, <2>3, <2>4, <2>5
<1>6. ASSUME NEW d \in Call
      PROVE  /\ node'[d] # 0 => node'[d] \in DOMAIN nodes' /\ nodes'[node'[d]].call = d
             /\ d \in emitted' <=> call'[d] \in Outcome
             /\ d \in emitted' => \E i \in DOMAIN nodes' : nodes'[i].call = d
             /\ call'[d] = "running" /\ d \notin unnamed' => node'[d] # 0
  <2>1. CASE d = c
    <3>1. node'[d] = 0 /\ d \in emitted' /\ call'[d] = o /\ o # "running"
      BY <2>1, <1>1 DEF Delivered, Outcome
    <3>2. \E i \in DOMAIN nodes' : nodes'[i].call = d
      BY <2>1, <1>1 DEF Delivered
    <3> QED BY <3>1, <3>2
  <2>2. CASE d # c
    <3>1. node'[d] = node[d] /\ call'[d] = call[d] /\ (d \in emitted' <=> d \in emitted)
      BY <2>2, <1>1 DEF Delivered
    <3>2. \A i \in DOMAIN nodes : i \in DOMAIN nodes' /\ nodes'[i].call = nodes[i].call
      BY <1>1 DEF Delivered
    <3> QED BY <3>1, <3>2, <1>1, <1>2 DEF NodesMatchCalls
  <2> QED BY <2>1, <2>2
<1>7. ASSUME NEW i \in DOMAIN nodes' PROVE nodes'[i].under < i
  <2>1. CASE i \in DOMAIN nodes
    BY <2>1, <1>1, <1>2 DEF Delivered, NodesUnderEarlier
  <2>2. CASE i = Len(nodes) + 1 /\ nodes'[i].under = ParentNode(c, open)
    <3>1. ParentNode(c, open) \in 0..Len(nodes)
      BY TopIsNode
    <3>2. Len(nodes) \in Nat
      BY <1>2
    <3> QED BY <2>2, <3>1, <3>2
  <2>3. i \in DOMAIN nodes
        \/ (i = Len(nodes) + 1 /\ nodes'[i].under = ParentNode(c, open))
    BY <1>1 DEF Delivered
  <2> QED BY <2>1, <2>2, <2>3
<1> QED BY <1>4, <1>5, <1>6, <1>7 DEF NodesMatchCalls, NodesUnderEarlier

LEMMA ResultStack ==
  ASSUME TurnInv, NEW c \in Call, NEW o \in Outcome, Result(c, o)
  PROVE  StackIsOpenCalls'
<1>1. Delivered(c, o)
  BY ResultFacts
<1>2. nodes \in Seq(NodeType) /\ DOMAIN nodes = 1..Len(nodes)
  BY DEF TurnInv, TurnTypeOK, NodeType
<1>3. ASSUME NEW n
      PROVE  n \in ToSet(open') <=> \E d \in Call : node'[d] # 0 /\ node'[d] = n
  <2>1. n \in ToSet(open') <=> n \in ToSet(open) /\ n \notin NodesOf(c)
    BY <1>1 DEF Delivered
  <2>2. n \in ToSet(open) <=> \E d \in Call : node[d] # 0 /\ node[d] = n
    BY DEF TurnInv, StackIsOpenCalls
  <2>3. \A d \in Call : node[d] # 0 => (node[d] \in NodesOf(c) <=> d = c)
    BY <1>2, IndexFacts DEF NodesOf
  <2>4. \A d \in Call : node'[d] = IF d = c THEN 0 ELSE node[d]
    BY <1>1 DEF Delivered
  <2> QED BY <2>1, <2>2, <2>3, <2>4
<1>4. \A i, j \in DOMAIN open' : i < j => open'[i] < open'[j]
  BY <1>1 DEF Delivered
<1> QED BY <1>3, <1>4 DEF StackIsOpenCalls

LEMMA ResultCallers ==
  ASSUME TurnInv, NEW c \in Call, NEW o \in Outcome, Result(c, o)
  PROVE  CallersRun' /\ BatchesHold'
<1>1. /\ Idle(c)
      /\ \A d \in Call : Running(d)' <=> Running(d) /\ d # c
      /\ \A d \in Call : call'[d] # "waiting" <=> call[d] # "waiting"
      /\ caller' = caller /\ batch' = batch /\ unnamed' = unnamed
  BY ResultFacts
<1>2. \A d \in Call : d # c => node'[d] = node[d]
  BY ResultFacts DEF Delivered
<1>3. caller \in [Call -> Agent] /\ batch \in [Call -> Seq(Call)] /\ CallersRun /\ BatchesHold
  BY DEF TurnInv, TurnTypeOK
<1>4. ASSUME NEW d \in Call, Running(d)', caller[d] # Root
      PROVE  /\ Running(caller[d])'
             /\ node'[d] # 0 /\ node'[caller[d]] # 0 => node'[caller[d]] < node'[d]
  <2>1. Running(d) /\ d # c /\ caller[d] \in Call
    BY <1>1, <1>3, <1>4 DEF Agent
  <2>2. Running(caller[d]) /\ (node[d] # 0 /\ node[caller[d]] # 0 => node[caller[d]] < node[d])
    BY <1>3, <1>4, <2>1 DEF CallersRun
  <2>3. caller[d] # c
    BY <1>1, <2>1 DEF Idle
  <2>4. call'[caller[d]] = "running"
    BY <1>1, <2>1, <2>2, <2>3 DEF Running
  <2> QED BY <1>1, <1>2, <2>1, <2>2, <2>3, <2>4 DEF Running
<1>5. \A d \in Call : call'[d] # "waiting" /\ caller[d] # Root => call'[caller[d]] # "waiting"
  BY <1>1, <1>3 DEF CallersRun, Agent
<1>6. CallersRun'
  BY <1>1, <1>4, <1>5 DEF CallersRun, Running
<1>7. ASSUME NEW d \in Call, call'[d] # "waiting"
      PROVE  /\ d \in ToSet(batch[d])
             /\ \A x \in ToSet(batch[d]) :
                  call'[x] # "waiting" /\ batch[x] = batch[d] /\ caller[x] = caller[d]
  <2>1. \A x \in ToSet(batch[d]) : x \in Call
    BY <1>3 DEF ToSet
  <2> QED BY <1>1, <1>3, <1>7, <2>1 DEF BatchesHold
<1>8. ASSUME NEW d \in Call, NEW x \in Call, Running(d)', Running(x)', caller[d] = caller[x]
      PROVE  /\ batch[d] = batch[x]
             /\ unnamed = {} /\ x = Last(batch[d]) => node'[d] <= node'[x]
  BY <1>1, <1>2, <1>3, <1>8 DEF BatchesHold
<1>9. BatchesHold'
  BY <1>1, <1>7, <1>8 DEF BatchesHold, Running
<1> QED BY <1>6, <1>9

LEMMA ResultLast ==
  ASSUME TurnInv, NEW c \in Call, NEW o \in Outcome, Result(c, o)
  PROVE  /\ Orderly' => Orderly /\ c \notin unnamed
         /\ LastCallGoesOn'
<1>1. /\ Idle(c) /\ Running(c)
      /\ \A d \in Call : Running(d)' <=> Running(d) /\ d # c
      /\ \A d \in Call : call'[d] # "waiting" <=> call[d] # "waiting"
      /\ caller' = caller /\ batch' = batch /\ unnamed' = unnamed /\ adapter' = adapter
      /\ inToolset' = inToolset
  BY ResultFacts
<1>2. \A d \in Call : d # c => node'[d] = node[d]
  BY ResultFacts DEF Delivered
<1>3. node \in [Call -> Nat]
  BY DEF TurnInv, TurnTypeOK
<1>4. Orderly' => Orderly
  BY <1>1 DEF Orderly
<1>5. Orderly => \A d \in Call : Running(d) => d \notin unnamed /\ node[d] # 0
  <2>1. Orderly => \A d \in Call : Running(d) => d \notin unnamed
    BY DEF Orderly, Running
  <2> QED BY <2>1, IndexFacts
<1>6. ASSUME Orderly, NEW x \in Call, NEW y \in Call, Running(x)', Running(y)',
             node'[x] < node'[y], caller[x] # caller[y]
      PROVE  \E e \in Call : Running(e)' /\ caller[e] = Last(batch[x]) /\ node'[e] <= node'[y]
  <2>1. /\ Running(x) /\ Running(y) /\ x # c /\ y # c
        /\ node'[x] = node[x] /\ node'[y] = node[y]
    BY <1>1, <1>2, <1>6
  <2>2. PICK e \in Call : Running(e) /\ caller[e] = Last(batch[x]) /\ node[e] <= node[y]
    BY <1>6, <2>1 DEF TurnInv, LastCallGoesOn
  <2>3. CASE e # c
    BY <1>1, <1>2, <2>1, <2>2, <2>3
  <2>4. CASE e = c
    <3>1. CASE caller[c] = caller[y]
      BY <1>1, <1>2, <1>3, <1>6, <2>1, <2>2, <2>4, <3>1
    <3>2. CASE caller[c] # caller[y]
      <4>1. node[c] # node[y]
        <5>1. nodes[node[c]].call = c /\ nodes[node[y]].call = y
          BY <1>1, <1>5, <1>6, <2>1, IndexFacts
        <5> QED BY <5>1, <2>1
      <4>2. node[c] < node[y]
        BY <1>3, <2>1, <2>2, <2>4, <4>1
      <4>3. PICK f \in Call : Running(f) /\ caller[f] = Last(batch[c]) /\ node[f] <= node[y]
        BY <1>1, <1>6, <2>1, <3>2, <4>2 DEF TurnInv, LastCallGoesOn
      <4> DEFINE m == Last(batch[c])
      <4>4. m \in Call /\ caller[m] = caller[c]
        <5>1. call[c] # "waiting"
          BY <1>1 DEF Running
        <5> QED BY <5>1, LastInBatch
      <4>5. caller[f] # Root /\ caller[f] = m
        BY <4>3, <4>4, TurnAssumption
      <4> HIDE DEF m
      <4>6. Running(m)
        BY <4>3, <4>5 DEF TurnInv, CallersRun
      <4>7. node[m] # 0 /\ node[f] # 0
        BY <1>5, <1>6, <4>3, <4>4, <4>6
      <4>8. node[m] < node[f]
        BY <4>3, <4>5, <4>7 DEF TurnInv, CallersRun
      <4>9. m # c
        BY <1>1, <4>3, <4>5 DEF Idle
      <4>10. node'[m] <= node'[y]
        BY <1>2, <1>3, <2>1, <4>3, <4>4, <4>8, <4>9
      <4> QED BY <1>1, <2>2, <2>4, <4>4, <4>6, <4>9, <4>10
    <3> QED BY <3>1, <3>2
  <2> QED BY <2>3, <2>4
<1>7. LastCallGoesOn'
  BY <1>1, <1>4, <1>6 DEF LastCallGoesOn, Running
<1> QED BY <1>1, <1>4, <1>5, <1>7

LEMMA ResultTree ==
  ASSUME TurnInv, NEW c \in Call, NEW o \in Outcome, Result(c, o)
  PROVE  OuterCallsAreSiblings' /\ TreeMirrorsCalls'
<1>1. /\ Delivered(c, o) /\ Running(c)
      /\ caller' = caller /\ batch' = batch /\ unnamed' = unnamed /\ adapter' = adapter
      /\ inToolset' = inToolset
  BY ResultFacts
<1>2. nodes \in Seq(NodeType) /\ DOMAIN nodes = 1..Len(nodes)
      /\ \A i \in DOMAIN nodes : nodes[i] \in NodeType
  BY NodesTyped
<1>3. ASSUME NEW i \in DOMAIN nodes', caller[nodes'[i].call] = Root,
             IF adapter = "pydantic"
             THEN nodes'[i].call \in inToolset \/ nodes'[i].call = Head(batch[nodes'[i].call])
             ELSE unnamed = {}
      PROVE  nodes'[i].under = 0
  <2>1. CASE i \in DOMAIN nodes
    <3>1. nodes'[i].call = nodes[i].call /\ nodes'[i].under = nodes[i].under
      BY <2>1, <1>1 DEF Delivered
    <3> QED BY <2>1, <3>1, <1>3 DEF TurnInv, OuterCallsAreSiblings
  <2>2. CASE /\ node[c] = 0
             /\ nodes'[i] = [call |-> c, outcome |-> o, under |-> ParentNode(c, open)]
    <3>1. c \in unnamed
      BY <1>1, <2>2, IndexFacts
    <3>2. adapter = "langchain"
      BY <3>1 DEF TurnInv, UnnamedBegan
    <3> QED BY <1>3, <3>1, <3>2
  <2> QED BY <1>1, <2>1, <2>2 DEF Delivered
<1>4. ASSUME NEW i \in DOMAIN nodes', Orderly, c \notin unnamed
      PROVE  LET q == caller[nodes'[i].call]
             IN  IF q = Root THEN nodes'[i].under = 0
                 ELSE nodes'[i].under # 0 /\ nodes'[nodes'[i].under].call = q
  <2>1. node[c] # 0
    BY <1>1, <1>4, IndexFacts
  <2>2. i \in DOMAIN nodes
    BY <1>1, <2>1 DEF Delivered
  <2>3. nodes'[i].call = nodes[i].call /\ nodes'[i].under = nodes[i].under
    BY <1>1, <2>2 DEF Delivered
  <2> DEFINE u == nodes[i].under
             q == caller[nodes[i].call]
  <2>4. IF q = Root THEN u = 0 ELSE u # 0 /\ nodes[u].call = q
    BY <1>4, <2>2 DEF TurnInv, TreeMirrorsCalls
  <2>5. u # 0 => u \in DOMAIN nodes
    <3>1. u < i /\ i \in 1..Len(nodes) /\ nodes[i] \in NodeType /\ Len(nodes) \in Nat
      BY <1>2, <2>2 DEF TurnInv, NodesUnderEarlier
    <3>2. u \in Nat
      BY <3>1 DEF NodeType
    <3> QED BY <1>2, <3>1, <3>2
  <2>6. u # 0 => nodes'[u].call = nodes[u].call
    BY <1>1, <2>5 DEF Delivered
  <2> QED BY <2>3, <2>4, <2>6
<1>5. OuterCallsAreSiblings'
  BY <1>1, <1>3 DEF OuterCallsAreSiblings
<1>6. TreeMirrorsCalls'
  BY <1>1, <1>4, ResultLast DEF TreeMirrorsCalls
<1> QED BY <1>5, <1>6

-----------------------------------------------------------------------------
(* The parts of the invariant that are not about texts and the status.      *)
LEMMA ShapeKept ==
  ASSUME TurnInv, UNCHANGED <<adapter, call, caller, inToolset, batch, unnamed, nodes, open, node, emitted>>
  PROVE  /\ NodesMatchCalls' /\ NodesUnderEarlier' /\ StackIsOpenCalls' /\ CallersRun'
         /\ BatchesHold' /\ LastCallGoesOn' /\ UnnamedBegan'
         /\ OuterCallsAreSiblings' /\ TreeMirrorsCalls'
<1>1. NodesMatchCalls' /\ NodesUnderEarlier' /\ StackIsOpenCalls'
  BY DEF TurnInv, NodesMatchCalls, NodesUnderEarlier, StackIsOpenCalls
<1>2. CallersRun' /\ BatchesHold' /\ UnnamedBegan'
  BY DEF TurnInv, CallersRun, BatchesHold, UnnamedBegan, Running
<1>3. Orderly' <=> Orderly
  BY DEF Orderly
<1>4. LastCallGoesOn'
  BY <1>3 DEF TurnInv, LastCallGoesOn, Running
<1>5. OuterCallsAreSiblings'
  BY DEF TurnInv, OuterCallsAreSiblings
<1>6. TreeMirrorsCalls'
  BY <1>3 DEF TurnInv, TreeMirrorsCalls
<1> QED BY <1>1, <1>2, <1>4, <1>5, <1>6

LEMMA TextKeeps ==
  ASSUME TurnInv, NEW p \in Agent, NEW erred \in BOOLEAN, Text(p, erred)
  PROVE  TurnInv'
<1>1. UNCHANGED <<adapter, call, caller, inToolset, batch, unnamed, nodes, open, node, emitted, turn>>
  BY DEF Text
<1>2. /\ texts' = Append(texts, [of |-> p, erred |-> erred])
      /\ said' = said \cup {p}
      /\ failing' = IF erred THEN failing \cup {p} ELSE failing
  BY DEF Text
<1>3. TurnTypeOK /\ TextsKept
  BY DEF TurnInv
<1>4. texts \in Seq([of : Agent, erred : BOOLEAN])
  BY <1>3 DEF TurnTypeOK
<1>5. [of |-> p, erred |-> erred] \in [of : Agent, erred : BOOLEAN]
  OBVIOUS
<1>6. /\ texts' \in Seq([of : Agent, erred : BOOLEAN])
      /\ \A i \in DOMAIN texts' : \/ i \in DOMAIN texts /\ texts'[i] = texts[i]
                                  \/ texts'[i] = [of |-> p, erred |-> erred]
  BY <1>2, <1>4, <1>5
<1>7. TurnTypeOK'
  BY <1>1, <1>2, <1>3, <1>6 DEF TurnTypeOK
<1>8. TextsKept'
  <2> SUFFICES ASSUME NEW i \in DOMAIN texts', texts'[i].erred
               PROVE  texts'[i].of \in said' \cap failing'
    BY DEF TextsKept
  <2>1. CASE i \in DOMAIN texts /\ texts'[i] = texts[i]
    BY <2>1, <1>2, <1>3 DEF TextsKept
  <2>2. CASE texts'[i] = [of |-> p, erred |-> erred]
    BY <2>2, <1>2
  <2> QED BY <2>1, <2>2, <1>6
<1>9. ErrorsReachStatus'
  BY <1>1 DEF Text, Streaming, ErrorsReachStatus
<1> QED BY <1>1, <1>7, <1>8, <1>9, ShapeKept DEF TurnInv

(* An error of a call is on its node, that of a text in its agent's turn.   *)
LEMMA ErrorsAreSeen ==
  ASSUME TurnInv, ~TreeErrs
  PROVE  (\A c \in Call : call[c] # "error") /\ (\A i \in DOMAIN texts : ~texts[i].erred)
<1>1. ASSUME NEW c \in Call, call[c] = "error" PROVE FALSE
  <2>1. c \in emitted
    BY <1>1 DEF TurnInv, NodesMatchCalls, Outcome
  <2>2. PICK i \in DOMAIN nodes : nodes[i].call = c
    BY <2>1 DEF TurnInv, NodesMatchCalls
  <2>3. nodes[i].outcome = "error"
    BY <1>1, <2>2 DEF TurnInv, NodesMatchCalls
  <2> QED BY <2>3 DEF TreeErrs
<1>2. ASSUME NEW i \in DOMAIN texts, texts[i].erred PROVE FALSE
  BY <1>2 DEF TurnInv, TextsKept, TreeErrs
<1> QED BY <1>1, <1>2

LEMMA EndKeeps ==
  ASSUME TurnInv, EndOfStream \/ StreamRaises
  PROVE  TurnInv'
<1>1. UNCHANGED <<adapter, call, caller, inToolset, batch, unnamed, texts, nodes, open, node,
                  emitted, said, failing>>
  BY DEF EndOfStream, StreamRaises, framework, normaliser
<1>2. turn' \in [status : {"streaming", "ok", "error"}, tree : BOOLEAN]
  <2>1. CASE EndOfStream
    <3>1. turn' = [status |-> IF TreeErrs THEN "error" ELSE "ok", tree |-> TRUE]
      BY <2>1 DEF EndOfStream
    <3> QED BY <3>1
  <2>2. CASE StreamRaises
    <3> DEFINE kept == adapter = "langchain"
    <3>1. turn' = [status |-> "error", tree |-> kept] /\ kept \in BOOLEAN
      BY <2>2 DEF StreamRaises
    <3> HIDE DEF kept
    <3> QED BY <3>1
  <2> QED BY <2>1, <2>2
<1>3. TurnTypeOK'
  BY <1>1, <1>2 DEF TurnInv, TurnTypeOK
<1>4. TextsKept'
  BY <1>1 DEF TurnInv, TextsKept
<1>5. turn'.status = "ok" => ~TreeErrs
  BY DEF EndOfStream, StreamRaises
<1>6. ErrorsReachStatus'
  BY <1>1, <1>5, ErrorsAreSeen DEF ErrorsReachStatus
<1> QED BY <1>1, <1>3, <1>4, <1>6, ShapeKept DEF TurnInv

LEMMA TurnStutter ==
  ASSUME TurnInv, UNCHANGED turnVars
  PROVE  TurnInv'
<1>1. UNCHANGED <<adapter, call, caller, inToolset, batch, unnamed, texts, nodes, open, node,
                  emitted, said, failing, turn>>
  BY DEF turnVars, framework, normaliser
<1>2. TurnTypeOK' /\ TextsKept' /\ ErrorsReachStatus'
  BY <1>1 DEF TurnInv, TurnTypeOK, TextsKept, ErrorsReachStatus
<1> QED BY <1>1, <1>2, ShapeKept DEF TurnInv

(* A result that comes again is known.                                      *)
LEMMA AgainKeeps ==
  ASSUME TurnInv, NEW c \in Call, ResultAgain(c)
  PROVE  TurnInv'
<1>1. c \in emitted
  BY DEF TurnInv, NodesMatchCalls, ResultAgain
<1>2. UNCHANGED turnVars
  BY <1>1 DEF ResultAgain, turnVars, normaliser
<1> QED BY <1>2, TurnStutter

LEMMA TurnInitInv == TurnInit => TurnInv
<1> SUFFICES ASSUME TurnInit PROVE TurnInv
  OBVIOUS
<1>1. /\ nodes = <<>> /\ open = <<>> /\ texts = <<>> /\ unnamed = {} /\ emitted = {}
      /\ said = {} /\ failing = {} /\ adapter \in Adapters /\ inToolset \in SUBSET Call
      /\ turn = [status |-> "streaming", tree |-> FALSE]
      /\ call \in [Call -> Status] /\ caller \in [Call -> Agent]
      /\ batch \in [Call -> Seq(Call)] /\ node \in [Call -> Nat]
      /\ \A c \in Call : call[c] = "waiting" /\ caller[c] = Root /\ node[c] = 0
  BY DEF TurnInit, Status, Agent
<1>2. TurnTypeOK
  BY <1>1 DEF TurnTypeOK
<1>3. ToSet(open) = {} /\ DOMAIN nodes = {} /\ DOMAIN open = {} /\ DOMAIN texts = {}
  BY <1>1 DEF ToSet
<1>4. NodesMatchCalls /\ NodesUnderEarlier /\ StackIsOpenCalls
  BY <1>1, <1>3 DEF NodesMatchCalls, NodesUnderEarlier, StackIsOpenCalls, Outcome
<1>5. CallersRun /\ BatchesHold /\ LastCallGoesOn /\ UnnamedBegan /\ TextsKept
  BY <1>1, <1>3 DEF CallersRun, BatchesHold, LastCallGoesOn, UnnamedBegan, TextsKept, Running
<1>6. OuterCallsAreSiblings /\ TreeMirrorsCalls /\ ErrorsReachStatus
  BY <1>1, <1>3 DEF OuterCallsAreSiblings, TreeMirrorsCalls, ErrorsReachStatus
<1> QED BY <1>2, <1>4, <1>5, <1>6 DEF TurnInv

LEMMA TurnInvInductive == TurnInv /\ [TurnNext]_turnVars => TurnInv'
<1> SUFFICES ASSUME TurnInv, [TurnNext]_turnVars PROVE TurnInv'
  OBVIOUS
<1>1. ASSUME NEW p \in Agent, NEW calls \in Batches, NEW lost \in SUBSET ToSet(calls),
             Announce(p, calls, lost)
      PROVE  TurnInv'
  BY <1>1, AnnounceType, AnnounceNodes, AnnounceUnder, AnnounceStack, AnnounceCallers,
     AnnounceBatches, AnnounceLast, AnnounceOuter, AnnounceTree DEF TurnInv
<1>2. ASSUME NEW c \in Call, NEW o \in Outcome, Result(c, o)
      PROVE  TurnInv'
  BY <1>2, ResultType, ResultNodes, ResultStack, ResultCallers, ResultLast, ResultTree DEF TurnInv
<1>3. ASSUME NEW c \in Call, ResultAgain(c)
      PROVE  TurnInv'
  BY <1>3, AgainKeeps
<1>4. ASSUME NEW p \in Agent, NEW erred \in BOOLEAN, Text(p, erred)
      PROVE  TurnInv'
  BY <1>4, TextKeeps
<1>5. CASE EndOfStream \/ StreamRaises
  BY <1>5, EndKeeps
<1>6. CASE UNCHANGED turnVars
  BY <1>6, TurnStutter
<1> QED BY <1>1, <1>2, <1>3, <1>4, <1>5, <1>6 DEF TurnNext, Agent

LEMMA TurnInvariance == TurnSpec => []TurnInv
BY TurnInitInv, TurnInvInductive, PTL DEF TurnSpec

(* The recording of a turn keeps its types.                                 *)
THEOREM TurnTypeCorrect == TurnSpec => []TurnTypeOK
<1>1. TurnInv => TurnTypeOK
  BY DEF TurnInv
<1> QED BY <1>1, TurnInvariance, PTL

(* A call that ended has exactly one node, with the call's own outcome, and *)
(* nodes are pending exactly while their calls run, however results are     *)
(* streamed again and whatever is announced without an id.                  *)
THEOREM OneNodePerCallHolds == TurnSpec => []OneNodePerCall
<1>1. TurnInv => OneNodePerCall
  <2> SUFFICES ASSUME TurnInv, NEW c \in Call
               PROVE  /\ call[c] \in Outcome => \E i \in DOMAIN nodes : NodesOf(c) = {i} /\ nodes[i].outcome = call[c]
                      /\ \A i \in NodesOf(c) : nodes[i].outcome = "pending" <=> Running(c)
    BY DEF OneNodePerCall
  <2>1. NodesMatchCalls
    BY DEF TurnInv
  <2>2. ASSUME call[c] \in Outcome
        PROVE  \E i \in DOMAIN nodes : NodesOf(c) = {i} /\ nodes[i].outcome = call[c]
    <3>1. PICK i \in DOMAIN nodes : nodes[i].call = c
      BY <2>1, <2>2 DEF NodesMatchCalls
    <3>2. NodesOf(c) = {i}
      BY <2>1, <3>1 DEF NodesMatchCalls, NodesOf
    <3>3. nodes[i].outcome = call[c]
      BY <2>1, <2>2, <3>1 DEF NodesMatchCalls, Outcome
    <3> QED BY <3>2, <3>3
  <2>3. ASSUME NEW i \in NodesOf(c) PROVE nodes[i].outcome = "pending" <=> Running(c)
    BY <2>1 DEF NodesMatchCalls, NodesOf, Outcome, Running
  <2> QED BY <2>2, <2>3
<1> QED BY <1>1, TurnInvariance, PTL

(* Every node hangs under the node of the call that made it, if of calls    *)
(* announced together only the last makes calls, no id is missing and, with *)
(* Pydantic AI, no inner tool is named like one of the agent's own toolset  *)
(* and all other calls are announced one at a time.                         *)
THEOREM TreeMirrorsCallsHolds == TurnSpec => []TreeMirrorsCalls
<1>1. TurnInv => TreeMirrorsCalls
  BY DEF TurnInv
<1> QED BY <1>1, TurnInvariance, PTL

(* The calls of the outer agent hang off the root of the turn: with         *)
(* LangGraph as long as every call has its id, with Pydantic AI if the tool *)
(* is in the agent's own toolset or the call is the first announced.        *)
THEOREM OuterCallsAreSiblingsHolds == TurnSpec => []OuterCallsAreSiblings
<1>1. TurnInv => OuterCallsAreSiblings
  BY DEF TurnInv
<1> QED BY <1>1, TurnInvariance, PTL

(* A turn is ok only if no call and no text of any agent was an error.      *)
THEOREM ErrorsReachStatusHolds == TurnSpec => []ErrorsReachStatus
<1>1. TurnInv => ErrorsReachStatus
  BY DEF TurnInv
<1> QED BY <1>1, TurnInvariance, PTL

-----------------------------------------------------------------------------
(* ResultViews: what the processes write and what a page shows.            *)
-----------------------------------------------------------------------------
(* What the processes write.                                                *)
Stages == {"idle", "creating", "seeding", "running", "saving", "repeat", "trial blobs",
           "trial", "errors", "assertions", "closing", "finishing", "over"}

RowType == [status : Verdict \cup {"absent", "skipped"}, passed : Nat, failed : Nat, fuzz : BOOLEAN]

WritersTypeOK ==
  /\ stamp \in [Run -> Nat]
  /\ at \in [Run -> Stages]
  /\ fuzzed \in [Run -> SUBSET Generative]
  /\ tried \in [Run -> SUBSET Generative]
  /\ current \in [Run -> Job \cup {NoJob}]
  /\ experiments \in SUBSET Experiment
  /\ runs \in [Run -> [status : Verdict \cup {"absent"}, finished : BOOLEAN]]
  /\ scenarios \in [Run \X Case -> RowType]
  /\ repeats \in [Run \X Job -> Outcomes \cup {"absent"}]
  /\ trials \in SUBSET (Run \X Job)
  /\ assertions \in SUBSET (Run \X Job)
  /\ errors \in SUBSET (Run \X Job)
  /\ blobs \in SUBSET (Run \X Job \X {"repeat", "trial"})

Closed(w) == at[w] \in {"closing", "finishing", "over"}

(* The row of a run: there once it is created, final once it is over.       *)
RowFollows(w) ==
  /\ at[w] \in {"idle", "creating"} => runs[w] = NoRun
  /\ at[w] \notin {"idle", "creating", "over"} => runs[w] = [status |-> "passed", finished |-> FALSE]
  /\ at[w] = "over" => runs[w] # NoRun

(* Blob files come before the rows that name them.                          *)
BlobsFirst(w) ==
  /\ \A j \in Saved(w) : <<w, j, "repeat">> \in blobs
  /\ \A j \in Job : <<w, j>> \in trials => <<w, j, "trial">> \in blobs
  /\ at[w] = "repeat" => <<w, current[w], "repeat">> \in blobs
  /\ at[w] = "trial" => <<w, current[w], "trial">> \in blobs

(* A saved repeat is complete, but for the one being written.               *)
SavedWhole(w) ==
  /\ at[w] \in {"idle", "creating", "seeding", "running"} => Saved(w) = {}
  /\ at[w] = "repeat" => current[w] \in Job \ Saved(w)
  /\ at[w] \in {"trial blobs", "trial", "errors", "assertions"} => current[w] \in Saved(w)
  /\ at[w] \in {"trial blobs", "trial"} => current[w][1] \in tried[w]
  /\ \A j \in Saved(w) :
       /\ \/ <<w, j>> \in assertions
          \/ j = current[w] /\ at[w] \in {"trial blobs", "trial", "errors", "assertions"}
       /\ j[1] \in tried[w] =>
            \/ <<w, j>> \in trials
            \/ j = current[w] /\ at[w] \in {"trial blobs", "trial"}
  /\ \A j \in Job : <<w, j>> \in trials => j \in Saved(w) /\ j[1] \in tried[w]

(* A final row is what its repeats make it, and these change no more.       *)
FinalRowsStand(w) ==
  \A c \in Case :
    scenarios[<<w, c>>].status \in Verdict => Closed(w) /\ scenarios[<<w, c>>] = FinalRow(w, c)

WriterInv(w) == RowFollows(w) /\ BlobsFirst(w) /\ SavedWhole(w) /\ FinalRowsStand(w)

WritersInv == WritersTypeOK /\ \A w \in Run : WriterInv(w)

-----------------------------------------------------------------------------
(* What the reader holds.                                                   *)
RowsShown == [run : Run, case : Case, row : RowType]
RepeatsShown == [run : Run, job : Job, status : Outcomes, assertions : BOOLEAN]

ShownType ==
  [runs : SUBSET Run, rows : SUBSET RowsShown, repeats : SUBSET RepeatsShown,
   trials : SUBSET Job, errors : SUBSET (Run \X Job),
   missing : SUBSET (Run \X Job \X {"repeat", "trial"}),
   known : SUBSET Run, page : Nat, answer : {"none", "200", "404", "422"}]

(* The SELECTs of each page.                                                *)
PageSteps ==
  {<<"none", "asking">>}
    \cup {"scenarios"} \X {"scenarios", "rows", "repeats", "totals", "answered"}
    \cup {"compare"} \X {"compare", "headers", "cells", "last repeats", "answered"}
    \cup {"trace"} \X {"trace", "files", "errors", "trials", "answered"}
    \cup {"trial"} \X {"trial", "files", "answered"}
    \cup {"runs"} \X {"runs", "count", "answered"}

ReaderTypeOK ==
  /\ asked.page = "scenarios" => asked.of \in Run
  /\ asked.page = "compare" => asked.of \in SUBSET Experiment
  /\ asked.page \in {"trace", "trial"} => asked.of \in Run \X Job
  /\ asked.page = "runs" => asked.of \in Filters
  /\ <<asked.page, doing>> \in PageSteps
  /\ doing = "asking" => shown = Blank
  /\ shown \in ShownType
  /\ doing = "answered" <=> shown.answer # "none"

(* A row shown as final is as it is in the table, and stays so.             *)
ShownRowsStand ==
  \A r \in shown.rows :
    /\ asked.page = "scenarios" => r.run = asked.of
    /\ Final(r) => r.row = scenarios[<<r.run, r.case>>]

(* The page of a run before the totals are read.                            *)
BeforeTotals ==
  asked.page = "scenarios" /\ doing = "totals" =>
    \A r \in shown.rows : Final(r) =>
      LET mine == {q \in shown.repeats : q.job[1] = r.case}
          ok == {q \in mine : q.status = "passed"}
      IN  /\ Cardinality(ok) = r.row.passed
          /\ Cardinality(mine \ ok) = r.row.failed
          /\ \A q \in mine : q.assertions
          /\ r.row.fuzz => \A q \in mine :
               <<asked.of, q.job>> \in trials <=> r.case \in tried[asked.of]

(* What the row that was read names is there.                               *)
BeforeFiles ==
  doing = "files" =>
    /\ asked.page = "trace" => asked.of[2] \in Saved(asked.of[1])
    /\ asked.page = "trial" => asked.of \in trials

Listed(f) == {w \in Run : Matches(w, f)}
Rank(f, w) == Cardinality({v \in Listed(f) : Precedes(v, w)})

(* A known run not seen yet is on a later page.                             *)
LaterPages(from) ==
  /\ shown.known \subseteq Listed(asked.of)
  /\ \A w \in shown.known \ shown.runs : from * PageSize <= Rank(asked.of, w)

BetweenPages ==
  asked.page = "runs" /\ asked.of.status # "passed" =>
    /\ doing = "runs" /\ shown.page # 0 => LaterPages(shown.page)
    /\ doing = "count" => LaterPages(shown.page + 1)

ReaderInv ==
  /\ ReaderTypeOK
  /\ ShownRowsStand
  /\ BeforeTotals
  /\ BeforeFiles
  /\ BetweenPages
  /\ FinalRowsShownWhole
  /\ CellsShowTheirRepeat
  /\ PagesFindTheirBlobs
  /\ PagingMissesNone

-----------------------------------------------------------------------------
(* A non-empty set of natural numbers with a bound has a greatest element.  *)
LEMMA GreatestNat ==
  ASSUME NEW S \in SUBSET Nat, S # {}, NEW b \in Nat, \A y \in S : y <= b
  PROVE  \E x \in S : \A y \in S : y <= x
<1> DEFINE T == {d \in Nat : b - d \in S}
<1>1. T \subseteq Nat /\ T # {}
  <2>1. PICK y \in S : TRUE
    OBVIOUS
  <2>2. y \in Nat /\ y <= b /\ b - y \in Nat /\ b - (b - y) = y
    BY <2>1
  <2>3. b - y \in T
    BY <2>1, <2>2
  <2> QED BY <2>3
<1>2. PICK d \in T : \A e \in T : ~(e < d)
  <2> HIDE DEF T
  <2> QED BY <1>1, LeastNat
<1>3. ASSUME NEW y \in S PROVE y <= b - d
  <2>1. y \in Nat /\ y <= b /\ b - y \in Nat /\ b - (b - y) = y
    OBVIOUS
  <2>2. b - y \in T
    BY <2>1
  <2>3. ~(b - y < d) /\ d \in Nat
    BY <1>2, <2>2
  <2> HIDE DEF T
  <2> QED BY <2>1, <2>3
<1> QED BY <1>2, <1>3

LEMMA MaxNat ==
  ASSUME NEW S \in SUBSET Nat, S # {}, IsFiniteSet(S)
  PROVE  Max(S) \in S /\ \A y \in S : y <= Max(S)
<1>1. PICK n \in Nat : ExistsSurjection(1..n, S)
  BY FS_NatSurjection
<1>2. PICK f \in Surjection(1..n, S) : TRUE
  BY <1>1 DEF ExistsSurjection
<1>3. f \in [1..n -> S] /\ \A y \in S : \E i \in 1..n : f[i] = y
  BY <1>2 DEF Surjection
<1> DEFINE K == {m \in Nat : m <= n => \E b \in Nat : \A i \in 1..m : f[i] <= b}
<1>4. 0 \in K
  OBVIOUS
<1>5. ASSUME NEW m \in Nat, m \in K PROVE m + 1 \in K
  <2> SUFFICES ASSUME m + 1 <= n PROVE \E b \in Nat : \A i \in 1..(m + 1) : f[i] <= b
    OBVIOUS
  <2>1. PICK b \in Nat : \A i \in 1..m : f[i] <= b
    BY <1>5
  <2>2. m + 1 \in 1..n
    OBVIOUS
  <2>3. f[m + 1] \in Nat
    BY <1>3, <2>2
  <2>4. \A i \in 1..(m + 1) : (i \in 1..m \/ i = m + 1) /\ i \in 1..n
    OBVIOUS
  <2>5. \A i \in 1..(m + 1) : f[i] \in Nat
    BY <1>3, <2>4
  <2>6. \A i \in 1..(m + 1) : f[i] <= b + f[m + 1]
    BY <2>1, <2>3, <2>4, <2>5
  <2>7. b + f[m + 1] \in Nat
    BY <2>3
  <2> DEFINE d == b + f[m + 1]
  <2>8. d \in Nat /\ \A i \in 1..(m + 1) : f[i] <= d
    BY <2>6, <2>7
  <2> HIDE DEF d
  <2> QED BY <2>8
<1>6. n \in K
  <2> HIDE DEF K
  <2> QED BY <1>4, <1>5, SetInduction
<1>7. PICK b \in Nat : \A i \in 1..n : f[i] <= b
  BY <1>6
<1>8. \A y \in S : y <= b
  BY <1>3, <1>7
<1>9. \E x \in S : \A y \in S : y <= x
  BY <1>8, GreatestNat
<1>10. \E x \in S : \A y \in S : x >= y
  BY <1>9
<1>11. Max(S) \in S /\ \A y \in S : Max(S) >= y
  BY <1>10 DEF Max
<1> QED BY <1>11

(* The jobs of a run and those of one of its rows.                          *)
LEMMA JobFacts ==
  /\ \A j \in Job : /\ j[1] \in Case /\ j \in JobsOf(j[1]) /\ j = <<j[1], j[2]>>
                    /\ j[2] \in Nat /\ j[2] <= RepeatsOf[j[1]]
  /\ \A c \in Case : /\ JobsOf(c) \subseteq Job /\ RepeatsOf[c] \in Nat
                     /\ \A j \in JobsOf(c) : j[1] = c
                     /\ \A j \in Job : j[1] = c <=> j \in JobsOf(c)
  /\ Case \subseteq Nat \ {0} /\ NoJob \notin Job
<1>1. Cases \in Nat /\ Case \subseteq Nat \ {0} /\ RepeatsOf \in [Case -> Nat \ {0}]
  BY ViewsAssumption DEF Case
<1>2. ASSUME NEW c \in Case, NEW j \in JobsOf(c)
      PROVE  /\ j \in Job /\ j[1] = c /\ j = <<j[1], j[2]>>
             /\ j[2] \in Nat /\ j[2] <= RepeatsOf[c]
  <2>1. PICK k \in 1..RepeatsOf[c] : j = <<c, k>>
    BY DEF JobsOf
  <2>2. RepeatsOf[c] \in Nat
    BY <1>1
  <2>3. j \in Job
    BY DEF Job
  <2> QED BY <2>1, <2>2, <2>3
<1>3. \A j \in Job : \E c \in Case : j \in JobsOf(c)
  BY DEF Job
<1>4. NoJob \notin Job
  <2>1. NoJob[1] = 0
    BY DEF NoJob
  <2>2. \A j \in Job : j[1] # 0
    BY <1>1, <1>2, <1>3
  <2> QED BY <2>1, <2>2
<1> QED BY <1>1, <1>2, <1>3, <1>4

LEMMA JobsFinite ==
  ASSUME NEW c \in Case
  PROVE  IsFiniteSet(JobsOf(c))
<1>1. RepeatsOf[c] \in Nat
  BY JobFacts
<1>2. IsFiniteSet({c} \X (1..RepeatsOf[c]))
  <2>1. IsFiniteSet({c})
    BY FS_Singleton
  <2>2. 1 \in Int /\ RepeatsOf[c] \in Int
    BY <1>1
  <2>3. IsFiniteSet(1..RepeatsOf[c])
    BY ONLY <2>2, FS_Interval
  <2> QED BY <2>1, <2>3, FS_Product
<1>3. JobsOf(c) = {c} \X (1..RepeatsOf[c])
  BY DEF JobsOf
<1> QED BY <1>2, <1>3

LEMMA WorstFacts ==
  ASSUME NEW S
  PROVE  /\ Worst(S) \in Verdict
         /\ \A s \in S \cap Verdict : Worst({s, Worst(S)}) = Worst(S)
BY DEF Worst, Verdict

(* What a final row counts.                                                 *)
LEMMA FinalRowFacts ==
  ASSUME WritersTypeOK, NEW w \in Run, NEW c \in Case
  PROVE  LET held == JobsOf(c) \cap Saved(w)
             passed == {j \in held : repeats[<<w, j>>] = "passed"}
         IN  /\ IsFiniteSet(held) /\ IsFiniteSet(passed) /\ IsFiniteSet(held \ passed)
             /\ FinalRow(w, c) \in RowType /\ FinalRow(w, c).status \in Verdict
<1> DEFINE held == JobsOf(c) \cap Saved(w)
           passed == {j \in held : repeats[<<w, j>>] = "passed"}
           sts == {repeats[<<w, j>>] : j \in held}
           fz == c \in fuzzed[w] /\ held # {}
<1>1. IsFiniteSet(held)
  BY JobsFinite, FS_Intersection
<1>2. passed \in SUBSET held /\ held \ passed \in SUBSET held
  OBVIOUS
<1> HIDE DEF held, passed
<1>3. IsFiniteSet(passed) /\ IsFiniteSet(held \ passed)
  BY <1>1, <1>2, FS_Subset
<1>4. Cardinality(passed) \in Nat /\ Cardinality(held \ passed) \in Nat
  BY <1>3, FS_CardinalityType
<1>5. Worst(sts) \in Verdict /\ fz \in BOOLEAN
  BY WorstFacts
<1>6. FinalRow(w, c) = [status |-> Worst(sts), passed |-> Cardinality(passed),
                        failed |-> Cardinality(held \ passed), fuzz |-> fz]
  BY DEF FinalRow, held, passed
<1> HIDE DEF sts, fz
<1>7. FinalRow(w, c) \in RowType /\ FinalRow(w, c).status \in Verdict
  BY <1>4, <1>5, <1>6 DEF RowType
<1> QED BY <1>1, <1>3, <1>7 DEF held, passed

-----------------------------------------------------------------------------
LEMMA WritersType ==
  ASSUME WritersInv, NEW w \in Run, Writes(w)
  PROVE  WritersTypeOK'
<1>0. WritersTypeOK /\ SavedWhole(w)
  BY DEF WritersInv, WriterInv
<1>1. CASE StartRun(w)
  <2> DEFINE S == {stamp[v] : v \in Run}
  <2>1. stamp \in [Run -> Nat] /\ IsFiniteSet(Run)
    BY <1>0, ViewsAssumption DEF WritersTypeOK
  <2>2. S \in SUBSET Nat /\ S # {}
    BY <2>1
  <2>3. IsFiniteSet(S)
    <3>1. stamp \in Surjection(Run, S)
      BY <2>1 DEF Surjection
    <3> HIDE DEF S
    <3> QED BY <2>1, <3>1, FS_Surjection
  <2>4. Max(S) \in Nat
    <3> HIDE DEF S
    <3> QED BY <2>2, <2>3, MaxNat
  <2>5. stamp' = [stamp EXCEPT ![w] = 1 + Max(S)]
    BY <1>1 DEF StartRun
  <2>6. stamp' \in [Run -> Nat]
    <3> HIDE DEF S
    <3> QED BY <2>1, <2>4, <2>5
  <2> QED BY <1>0, <1>1, <2>6 DEF WritersTypeOK, StartRun, Goes, Stages, tables
<1>2. CASE CreateRun(w)
  <2>1. ExpOf[w] \in Experiment
    BY ViewsAssumption
  <2> QED BY <1>0, <1>2, <2>1
        DEF WritersTypeOK, CreateRun, EnsureExperiment, Goes, Stages, Verdict
<1>3. CASE SeedRow(w)
  <2>1. [NoRow EXCEPT !.status = "skipped"] \in RowType
    BY DEF NoRow, RowType
  <2>2. PICK c \in Case : /\ SaveScenario(w, c, [NoRow EXCEPT !.status = "skipped"])
                          /\ Goes(w, IF c = Cases THEN "running" ELSE "seeding")
    BY <1>3 DEF SeedRow
  <2>3. at' \in [Run -> Stages]
    BY <1>0, <2>2 DEF Goes, WritersTypeOK, Stages
  <2>4. scenarios' \in [Run \X Case -> RowType]
    BY <1>0, <2>1, <2>2 DEF SaveScenario, WritersTypeOK
  <2> QED BY <1>0, <1>3, <2>3, <2>4 DEF WritersTypeOK, SeedRow
<1>4. CASE RunJobs(w)
  <2>1. PICK F \in SUBSET Generative : fuzzed' = [fuzzed EXCEPT ![w] = F]
    BY <1>4 DEF RunJobs
  <2>2. at' \in [Run -> Stages]
    BY <1>0, <1>4 DEF RunJobs, Goes, WritersTypeOK, Stages
  <2>3. PICK T \in SUBSET Generative : tried' = [tried EXCEPT ![w] = T]
    BY <1>4 DEF RunJobs
  <2> QED BY <1>0, <1>4, <2>1, <2>2, <2>3 DEF WritersTypeOK, RunJobs, tables
<1>5. CASE WriteBlobs(w)
  <2>1. PICK j \in Job : /\ current' = [current EXCEPT ![w] = j]
                         /\ blobs' = blobs \cup {<<w, j, "repeat">>}
    BY <1>5 DEF WriteBlobs
  <2>2. at' \in [Run -> Stages]
    BY <1>0, <1>5 DEF WriteBlobs, Goes, WritersTypeOK, Stages
  <2>3. blobs' \in SUBSET (Run \X Job \X {"repeat", "trial"})
    BY <1>0, <2>1 DEF WritersTypeOK
  <2> QED BY <1>0, <1>5, <2>1, <2>2, <2>3 DEF WritersTypeOK, WriteBlobs
<1>6. CASE SaveRepeat(w)
  <2>1. current[w] \in Job
    BY <1>0, <1>6 DEF SavedWhole, SaveRepeat
  <2>2. at' \in [Run -> Stages]
    BY <1>0, <1>6 DEF SaveRepeat, Goes, WritersTypeOK, Stages
  <2> QED BY <1>0, <1>6, <2>1, <2>2 DEF WritersTypeOK, SaveRepeat
<1>7. CASE WriteTrialBlobs(w) \/ SaveTrial(w) \/ SaveAuxiliary(w) \/ SaveAssertions(w)
  <2>1. current[w] \in Job
    BY <1>0, <1>7 DEF SavedWhole, Saved, WriteTrialBlobs, SaveTrial, SaveAuxiliary, SaveAssertions
  <2>2. at' \in [Run -> Stages]
    BY <1>0, <1>7 DEF WriteTrialBlobs, SaveTrial, SaveAuxiliary, SaveAssertions,
                      Goes, WritersTypeOK, Stages
  <2>3. /\ <<w, current[w]>> \in Run \X Job
        /\ <<w, current[w], "trial">> \in Run \X Job \X {"repeat", "trial"}
    BY <2>1
  <2>4. /\ trials' \in SUBSET (Run \X Job) /\ assertions' \in SUBSET (Run \X Job)
        /\ errors' \in SUBSET (Run \X Job)
        /\ blobs' \in SUBSET (Run \X Job \X {"repeat", "trial"})
    BY <1>0, <1>7, <2>3 DEF WritersTypeOK, WriteTrialBlobs, SaveTrial, SaveAuxiliary, SaveAssertions
  <2>5. UNCHANGED <<stamp, fuzzed, tried, current, experiments, runs, scenarios, repeats>>
    BY <1>7 DEF WriteTrialBlobs, SaveTrial, SaveAuxiliary, SaveAssertions
  <2> QED BY <1>0, <2>2, <2>4, <2>5 DEF WritersTypeOK
<1>8. CASE Aggregate(w)
  <2>1. PICK c \in Case : /\ SaveScenario(w, c, FinalRow(w, c))
                          /\ Goes(w, IF c = Cases THEN "finishing" ELSE "closing")
    BY <1>8 DEF Aggregate
  <2>2. FinalRow(w, c) \in RowType
    BY <1>0, FinalRowFacts
  <2>3. at' \in [Run -> Stages]
    BY <1>0, <2>1 DEF Goes, WritersTypeOK, Stages
  <2>4. scenarios' \in [Run \X Case -> RowType]
    BY <1>0, <2>1, <2>2 DEF SaveScenario, WritersTypeOK
  <2> QED BY <1>0, <1>8, <2>3, <2>4 DEF WritersTypeOK, Aggregate
<1>9. CASE FinishRun(w)
  <2> DEFINE st == Worst({scenarios[<<w, c>>].status : c \in Case})
  <2>1. st \in Verdict
    BY WorstFacts
  <2>2. runs' = [runs EXCEPT ![w] = [status |-> st, finished |-> TRUE]]
    BY <1>9 DEF FinishRun
  <2>3. at' \in [Run -> Stages]
    BY <1>0, <1>9 DEF FinishRun, Goes, WritersTypeOK, Stages
  <2> HIDE DEF st
  <2>4. runs' \in [Run -> [status : Verdict \cup {"absent"}, finished : BOOLEAN]]
    BY <1>0, <2>1, <2>2 DEF WritersTypeOK
  <2>5. UNCHANGED <<stamp, fuzzed, tried, current, experiments, scenarios, repeats, trials,
                    assertions, errors, blobs>>
    BY <1>9 DEF FinishRun
  <2> QED BY <1>0, <2>3, <2>4, <2>5 DEF WritersTypeOK
<1> QED BY <1>1, <1>2, <1>3, <1>4, <1>5, <1>6, <1>7, <1>8, <1>9 DEF Writes

(* What no step of another process changes of run v.                        *)
Kept(v) ==
  /\ at'[v] = at[v] /\ current'[v] = current[v] /\ fuzzed'[v] = fuzzed[v]
  /\ tried'[v] = tried[v] /\ runs'[v] = runs[v]
  /\ \A c \in Case : scenarios'[<<v, c>>] = scenarios[<<v, c>>]
  /\ \A j \in Job : /\ repeats'[<<v, j>>] = repeats[<<v, j>>]
                    /\ <<v, j>> \in trials' <=> <<v, j>> \in trials
                    /\ <<v, j>> \in assertions' <=> <<v, j>> \in assertions
  /\ blobs \subseteq blobs'

(* The final row of run v depends on its repeats and its probes.            *)
LEMMA FinalRowKept ==
  ASSUME NEW v, NEW c \in Case, \A j \in Job : repeats'[<<v, j>>] = repeats[<<v, j>>],
         fuzzed'[v] = fuzzed[v]
  PROVE  FinalRow(v, c)' = FinalRow(v, c)
<1> DEFINE held == JobsOf(c) \cap Saved(v)
           passed == {j \in held : repeats[<<v, j>>] = "passed"}
           sts == {repeats[<<v, j>>] : j \in held}
<1>1. Saved(v)' = Saved(v) /\ held \subseteq Job
  BY DEF Saved
<1>2. held' = held
  BY <1>1
<1>3. \A j \in held : repeats'[<<v, j>>] = repeats[<<v, j>>]
  BY <1>1
<1>4. passed' = passed /\ sts' = sts
  BY <1>2, <1>3
<1>5. FinalRow(v, c) = [status |-> Worst(sts), passed |-> Cardinality(passed),
                        failed |-> Cardinality(held \ passed), fuzz |-> c \in fuzzed[v] /\ held # {}]
  BY DEF FinalRow
<1>6. FinalRow(v, c)' = [status |-> Worst(sts'), passed |-> Cardinality(passed'),
                         failed |-> Cardinality(held' \ passed'),
                         fuzz |-> c \in fuzzed'[v] /\ held' # {}]
  BY DEF FinalRow, Worst
<1> HIDE DEF held, passed, sts
<1> QED BY <1>2, <1>4, <1>5, <1>6

LEMMA OthersKept ==
  ASSUME NEW v \in Run, WriterInv(v), Kept(v)
  PROVE  WriterInv(v)'
<1>1. Saved(v)' = Saved(v) /\ Saved(v) \subseteq Job
  BY DEF Kept, Saved
<1>2. RowFollows(v)'
  BY DEF WriterInv, RowFollows, Kept
<1>3. BlobsFirst(v)'
  BY <1>1 DEF WriterInv, BlobsFirst, Kept
<1>4. SavedWhole(v)'
  BY <1>1 DEF WriterInv, SavedWhole, Kept
<1>5. FinalRowsStand(v)'
  <2> SUFFICES ASSUME NEW c \in Case, scenarios'[<<v, c>>].status \in Verdict
               PROVE  Closed(v)' /\ scenarios'[<<v, c>>] = FinalRow(v, c)'
    BY DEF FinalRowsStand
  <2>1. FinalRow(v, c)' = FinalRow(v, c)
    BY FinalRowKept DEF Kept
  <2> QED BY <2>1 DEF WriterInv, FinalRowsStand, Kept, Closed
<1> QED BY <1>2, <1>3, <1>4, <1>5 DEF WriterInv

(* A process writes about its own run.                                      *)
LEMMA OthersUntouched ==
  ASSUME WritersTypeOK, NEW w \in Run, Writes(w), NEW v \in Run, v # w
  PROVE  Kept(v)
<1> USE DEF Kept, Goes
<1>1. CASE StartRun(w) \/ CreateRun(w) \/ RunJobs(w) \/ FinishRun(w)
  BY <1>1 DEF WritersTypeOK, StartRun, CreateRun, RunJobs, FinishRun, tables
<1>2. CASE SeedRow(w) \/ Aggregate(w)
  <2>1. PICK c \in Case : \E row, next : SaveScenario(w, c, row) /\ Goes(w, next)
    BY <1>2 DEF SeedRow, Aggregate
  <2>4. PICK row, next : SaveScenario(w, c, row) /\ Goes(w, next)
    BY <2>1
  <2>2. \A d \in Case : scenarios'[<<v, d>>] = scenarios[<<v, d>>]
    BY <2>4 DEF SaveScenario, WritersTypeOK
  <2>3. UNCHANGED <<fuzzed, tried, current, runs, repeats, trials, assertions, blobs>>
    BY <1>2 DEF SeedRow, Aggregate
  <2> QED BY <2>4, <2>2, <2>3 DEF WritersTypeOK
<1>3. CASE WriteBlobs(w)
  BY <1>3 DEF WritersTypeOK, WriteBlobs
<1>4. CASE SaveRepeat(w)
  BY <1>4 DEF WritersTypeOK, SaveRepeat
<1>5. CASE WriteTrialBlobs(w)
  BY <1>5 DEF WritersTypeOK, WriteTrialBlobs
<1>6. CASE SaveTrial(w)
  BY <1>6 DEF WritersTypeOK, SaveTrial
<1>7. CASE SaveAuxiliary(w)
  BY <1>7 DEF WritersTypeOK, SaveAuxiliary
<1>8. CASE SaveAssertions(w)
  BY <1>8 DEF WritersTypeOK, SaveAssertions
<1> QED BY <1>1, <1>2, <1>3, <1>4, <1>5, <1>6, <1>7, <1>8 DEF Writes

(* While its repeats are written a run has no final row.                    *)
LEMMA NoRowIsFinal ==
  ASSUME WritersInv, NEW w \in Run, ~Closed(w), scenarios' = scenarios
  PROVE  FinalRowsStand(w)'
BY DEF WritersInv, WriterInv, FinalRowsStand

(* The steps before the first repeat is written.                            *)
LEMMA BeforeRepeats ==
  ASSUME WritersInv, NEW w \in Run, StartRun(w) \/ CreateRun(w) \/ SeedRow(w) \/ RunJobs(w)
  PROVE  WriterInv(w)'
<1>0. WritersTypeOK /\ WriterInv(w) /\ ~Closed(w)
  BY DEF WritersInv, Closed, StartRun, CreateRun, SeedRow, RunJobs
<1>1. Saved(w) = {} /\ at[w] \in {"idle", "creating", "seeding", "running"}
  BY <1>0 DEF WriterInv, SavedWhole, StartRun, CreateRun, SeedRow, RunJobs
<1>2. UNCHANGED <<repeats, trials, assertions, blobs>>
  BY DEF StartRun, CreateRun, SeedRow, RunJobs, tables
<1>3. Saved(w)' = {}
  BY <1>1, <1>2 DEF Saved
<1>4. at'[w] \in {"creating", "seeding", "running", "saving"}
  BY <1>0 DEF WritersTypeOK, StartRun, CreateRun, SeedRow, RunJobs, Goes
<1>5. \A j \in Job : <<w, j>> \notin trials
  BY <1>0, <1>1 DEF WriterInv, SavedWhole
<1>6. RowFollows(w)'
  <2>1. CASE StartRun(w)
    BY <2>1, <1>0 DEF WriterInv, RowFollows, WritersTypeOK, StartRun, Goes, tables
  <2>2. CASE CreateRun(w)
    BY <2>2, <1>0 DEF WriterInv, RowFollows, WritersTypeOK, CreateRun, Goes
  <2>3. CASE SeedRow(w) \/ RunJobs(w)
    <3>1. at'[w] \in {"seeding", "running", "saving"} /\ runs' = runs /\ at[w] \in {"seeding", "running"}
      BY <2>3, <1>0 DEF WritersTypeOK, SeedRow, RunJobs, Goes, tables
    <3> QED BY <3>1, <1>0 DEF WriterInv, RowFollows
  <2> QED BY <2>1, <2>2, <2>3
<1>7. BlobsFirst(w)'
  BY <1>2, <1>3, <1>4, <1>5 DEF BlobsFirst
<1>8. SavedWhole(w)'
  BY <1>2, <1>3, <1>4, <1>5 DEF SavedWhole
<1>9. FinalRowsStand(w)'
  <2>1. CASE SeedRow(w)
    <3>1. PICK c \in Case : SaveScenario(w, c, [NoRow EXCEPT !.status = "skipped"])
      BY <2>1 DEF SeedRow
    <3>2. \A d \in Case : d # c => scenarios'[<<w, d>>] = scenarios[<<w, d>>]
      BY <3>1, <1>0 DEF SaveScenario, WritersTypeOK
    <3>3. scenarios'[<<w, c>>].status = "skipped"
      BY <3>1, <1>0 DEF SaveScenario, WritersTypeOK, NoRow
    <3>4. "skipped" \notin Verdict
      BY DEF Verdict
    <3> QED BY <3>2, <3>3, <3>4, <1>0 DEF WriterInv, FinalRowsStand
  <2>2. CASE ~SeedRow(w)
    <3>1. scenarios' = scenarios
      BY <2>2 DEF StartRun, CreateRun, RunJobs, tables
    <3> QED BY <3>1, <1>0, NoRowIsFinal
  <2> QED BY <2>1, <2>2
<1> QED BY <1>6, <1>7, <1>8, <1>9 DEF WriterInv

(* The steps that write a repeat.                                           *)
LEMMA WhileSaving ==
  ASSUME WritersInv, NEW w \in Run,
         WriteBlobs(w) \/ SaveRepeat(w) \/ WriteTrialBlobs(w) \/ SaveTrial(w)
           \/ SaveAuxiliary(w) \/ SaveAssertions(w)
  PROVE  WriterInv(w)'
<1>0. WritersTypeOK /\ WriterInv(w) /\ ~Closed(w)
  BY DEF WritersInv, Closed, WriteBlobs, SaveRepeat, WriteTrialBlobs, SaveTrial, SaveAuxiliary,
         SaveAssertions
<1>1. /\ at[w] \in {"saving", "repeat", "trial blobs", "trial", "errors", "assertions"}
      /\ at'[w] \in {"saving", "repeat", "trial blobs", "trial", "errors", "assertions"}
      /\ runs' = runs /\ scenarios' = scenarios /\ tried' = tried /\ blobs \subseteq blobs'
  BY <1>0 DEF WriteBlobs, SaveRepeat, WriteTrialBlobs, SaveTrial, SaveAuxiliary, SaveAssertions,
              Goes, WritersTypeOK
<1>2. RowFollows(w)' /\ FinalRowsStand(w)'
  BY <1>0, <1>1, NoRowIsFinal DEF WriterInv, RowFollows
<1>3. Saved(w) \subseteq Job /\ BlobsFirst(w) /\ SavedWhole(w)
  BY <1>0 DEF Saved, WriterInv
<1>4. CASE WriteBlobs(w)
  <2>1. PICK j \in Job \ Saved(w) : /\ current' = [current EXCEPT ![w] = j]
                                    /\ blobs' = blobs \cup {<<w, j, "repeat">>}
    BY <1>4 DEF WriteBlobs
  <2>2. /\ at[w] = "saving" /\ at'[w] = "repeat" /\ current'[w] = j
        /\ UNCHANGED <<repeats, trials, assertions, tried>> /\ Saved(w)' = Saved(w)
    BY <1>4, <2>1, <1>0 DEF WriteBlobs, Goes, WritersTypeOK, Saved
  <2>3. BlobsFirst(w)'
    BY <1>3, <2>1, <2>2 DEF BlobsFirst
  <2>4. SavedWhole(w)'
    BY <1>3, <2>1, <2>2 DEF SavedWhole
  <2> QED BY <1>2, <2>3, <2>4 DEF WriterInv
<1>5. CASE SaveRepeat(w)
  <2> DEFINE j == current[w]
  <2>1. PICK o \in Outcomes : repeats' = [repeats EXCEPT ![<<w, j>>] = o]
    BY <1>5 DEF SaveRepeat
  <2>2. /\ at[w] = "repeat" /\ at'[w] = IF j[1] \in tried[w] THEN "trial blobs" ELSE "errors"
        /\ UNCHANGED <<current, trials, assertions, tried, blobs>>
    BY <1>5, <1>0 DEF SaveRepeat, Goes, WritersTypeOK
  <2>3. j \in Job \ Saved(w)
    BY <1>3, <2>2 DEF SavedWhole
  <2>4. o # "absent"
    BY ViewsAssumption DEF Verdict
  <2>5. Saved(w)' = Saved(w) \cup {j}
    <3> HIDE DEF j
    <3>1. repeats'[<<w, j>>] = o /\ \A i \in Job : i # j => repeats'[<<w, i>>] = repeats[<<w, i>>]
      BY <1>0, <2>1, <2>3 DEF WritersTypeOK
    <3> QED BY <3>1, <2>3, <2>4 DEF Saved
  <2>6. BlobsFirst(w)'
    BY <1>3, <2>2, <2>5 DEF BlobsFirst
  <2>7. SavedWhole(w)'
    <3> HIDE DEF j
    <3>1. current'[w] = j
      BY <2>2 DEF j
    <3>2. \A i \in Saved(w) : <<w, i>> \in assertions /\ (i[1] \in tried[w] => <<w, i>> \in trials)
      BY <1>3, <2>2 DEF SavedWhole
    <3>3. \A i \in Job : <<w, i>> \in trials => i \in Saved(w) /\ i[1] \in tried[w]
      BY <1>3 DEF SavedWhole
    <3> QED BY <2>2, <2>5, <3>1, <3>2, <3>3 DEF SavedWhole
  <2> QED BY <1>2, <2>6, <2>7 DEF WriterInv
<1>6. CASE WriteTrialBlobs(w) \/ SaveTrial(w) \/ SaveAuxiliary(w) \/ SaveAssertions(w)
  <2>0. repeats' = repeats /\ Saved(w)' = Saved(w) /\ current' = current
    BY <1>6 DEF WriteTrialBlobs, SaveTrial, SaveAuxiliary, SaveAssertions, Saved
  <2>1. at[w] \in {"trial blobs", "trial", "errors", "assertions"}
    BY <1>6 DEF WriteTrialBlobs, SaveTrial, SaveAuxiliary, SaveAssertions
  <2>2. current[w] \in Saved(w) /\ current[w] \in Job
    BY <1>3, <2>1 DEF SavedWhole
  <2>3. CASE WriteTrialBlobs(w)
    <3>1. /\ at[w] = "trial blobs" /\ at'[w] = "trial"
          /\ blobs' = blobs \cup {<<w, current[w], "trial">>}
          /\ trials' = trials /\ assertions' = assertions
      BY <2>3, <1>0 DEF WriteTrialBlobs, Goes, WritersTypeOK
    <3>2. BlobsFirst(w)' /\ SavedWhole(w)'
      BY <1>1, <1>3, <2>0, <2>2, <3>1 DEF BlobsFirst, SavedWhole
    <3> QED BY <1>2, <3>2 DEF WriterInv
  <2>4. CASE SaveTrial(w)
    <3>1. /\ at[w] = "trial" /\ at'[w] = "errors" /\ blobs' = blobs
          /\ trials' = trials \cup {<<w, current[w]>>} /\ assertions' = assertions
      BY <2>4, <1>0 DEF SaveTrial, Goes, WritersTypeOK
    <3>2. \A j \in Job : <<w, j>> \in trials' <=> <<w, j>> \in trials \/ j = current[w]
      BY <3>1
    <3>3. BlobsFirst(w)'
      BY <1>1, <1>3, <2>0, <2>2, <3>1, <3>2 DEF BlobsFirst
    <3>4. SavedWhole(w)'
      BY <1>1, <1>3, <2>0, <2>2, <3>1, <3>2 DEF SavedWhole
    <3> QED BY <1>2, <3>3, <3>4 DEF WriterInv
  <2>5. CASE SaveAuxiliary(w)
    <3>1. /\ at[w] = "errors" /\ at'[w] = "assertions" /\ blobs' = blobs
          /\ trials' = trials /\ assertions' = assertions
      BY <2>5, <1>0 DEF SaveAuxiliary, Goes, WritersTypeOK
    <3>2. BlobsFirst(w)' /\ SavedWhole(w)'
      BY <1>1, <1>3, <2>0, <2>2, <3>1 DEF BlobsFirst, SavedWhole
    <3> QED BY <1>2, <3>2 DEF WriterInv
  <2>6. CASE SaveAssertions(w)
    <3>1. /\ at[w] = "assertions" /\ at'[w] = "saving" /\ blobs' = blobs
          /\ trials' = trials /\ assertions' = assertions \cup {<<w, current[w]>>}
      BY <2>6, <1>0 DEF SaveAssertions, Goes, WritersTypeOK
    <3>2. BlobsFirst(w)' /\ SavedWhole(w)'
      BY <1>1, <1>3, <2>0, <2>2, <3>1 DEF BlobsFirst, SavedWhole
    <3> QED BY <1>2, <3>2 DEF WriterInv
  <2> QED BY <1>6, <2>3, <2>4, <2>5, <2>6
<1> QED BY <1>4, <1>5, <1>6

(* The steps that close a run.                                              *)
LEMMA AfterRepeats ==
  ASSUME WritersInv, NEW w \in Run, Aggregate(w) \/ FinishRun(w)
  PROVE  WriterInv(w)'
<1>0. WritersTypeOK /\ WriterInv(w) /\ at[w] \in {"saving", "closing", "finishing"}
  BY DEF WritersInv, Aggregate, FinishRun
<1>1. UNCHANGED <<fuzzed, tried, current, repeats, trials, assertions, blobs>>
  BY DEF Aggregate, FinishRun
<1>2. Saved(w)' = Saved(w) /\ Saved(w) \subseteq Job
  BY <1>1 DEF Saved
<1>3. at'[w] \in {"closing", "finishing", "over"}
  BY <1>0 DEF Aggregate, FinishRun, Goes, WritersTypeOK
<1>4. BlobsFirst(w)'
  BY <1>0, <1>1, <1>2, <1>3 DEF WriterInv, BlobsFirst
<1>5. SavedWhole(w)'
  BY <1>0, <1>1, <1>2, <1>3 DEF WriterInv, SavedWhole
<1>6. \A c \in Case : FinalRow(w, c)' = FinalRow(w, c)
  BY <1>1, FinalRowKept
<1>7. CASE Aggregate(w)
  <2>1. PICK c \in Case : /\ SaveScenario(w, c, FinalRow(w, c))
                          /\ Goes(w, IF c = Cases THEN "finishing" ELSE "closing")
    BY <1>7 DEF Aggregate
  <2>2. /\ scenarios'[<<w, c>>] = FinalRow(w, c)
        /\ \A d \in Case : d # c => scenarios'[<<w, d>>] = scenarios[<<w, d>>]
    BY <2>1, <1>0 DEF SaveScenario, WritersTypeOK
  <2>3. FinalRowsStand(w)'
    BY <1>0, <1>3, <1>6, <2>2 DEF WriterInv, FinalRowsStand, Closed
  <2>4. at'[w] \in {"closing", "finishing"} /\ runs' = runs
    BY <1>0, <1>7, <2>1 DEF Aggregate, Goes, WritersTypeOK
  <2>5. RowFollows(w)'
    BY <1>0, <2>4 DEF WriterInv, RowFollows
  <2> QED BY <1>4, <1>5, <2>3, <2>5 DEF WriterInv
<1>8. CASE FinishRun(w)
  <2>1. at'[w] = "over" /\ at[w] = "finishing" /\ scenarios' = scenarios /\ runs'[w].finished = TRUE
    BY <1>0, <1>8 DEF FinishRun, Goes, WritersTypeOK
  <2>2. RowFollows(w)'
    <3>1. NoRun.finished = FALSE
      BY DEF NoRun
    <3> QED BY <2>1, <3>1 DEF RowFollows
  <2>3. FinalRowsStand(w)'
    BY <1>0, <1>3, <1>6, <2>1 DEF WriterInv, FinalRowsStand, Closed
  <2> QED BY <1>4, <1>5, <2>2, <2>3 DEF WriterInv
<1> QED BY <1>7, <1>8

LEMMA WritersKeep ==
  ASSUME WritersInv, NEW w \in Run, Writes(w)
  PROVE  WritersInv'
<1>1. WriterInv(w)'
  BY BeforeRepeats, WhileSaving, AfterRepeats DEF Writes
<1>2. ASSUME NEW v \in Run, v # w PROVE WriterInv(v)'
  BY <1>2, OthersUntouched, OthersKept DEF WritersInv
<1> QED BY <1>1, <1>2, WritersType DEF WritersInv

-----------------------------------------------------------------------------
(* What any step of a process leaves to the reader.                         *)
Grown ==
  /\ asked' = asked /\ doing' = doing /\ shown' = shown
  /\ \A v \in Run : Saved(v) \subseteq Saved(v)'
  /\ trials \subseteq trials' /\ blobs \subseteq blobs'
  /\ \A v \in Run, c \in Case :
       scenarios[<<v, c>>].status \in Verdict => scenarios'[<<v, c>>] = scenarios[<<v, c>>]
  /\ \A v \in Run, j \in Job : Closed(v) /\ <<v, j>> \in trials' => <<v, j>> \in trials
  /\ \A v \in Run : Closed(v) => tried'[v] = tried[v]
  /\ \A v \in Run : runs[v] # NoRun => stamp'[v] = stamp[v]
  /\ \A f \in Filters : f.status # "passed" => Listed(f) \subseteq Listed(f)'

LEMMA WritesGrow ==
  ASSUME WritersInv, NEW w \in Run, Writes(w)
  PROVE  Grown
<1>0. WritersTypeOK /\ WriterInv(w)
  BY DEF WritersInv
<1>1. \A v \in Run : v # w => Kept(v)
  BY <1>0, OthersUntouched
<1>2. asked' = asked /\ doing' = doing /\ shown' = shown
  BY DEF Writes, StartRun, CreateRun, SeedRow, RunJobs, WriteBlobs, SaveRepeat, WriteTrialBlobs,
         SaveTrial, SaveAuxiliary, SaveAssertions, Aggregate, FinishRun, reader
<1>3. trials \subseteq trials' /\ blobs \subseteq blobs'
  BY DEF Writes, StartRun, CreateRun, SeedRow, RunJobs, WriteBlobs, SaveRepeat, WriteTrialBlobs,
         SaveTrial, SaveAuxiliary, SaveAssertions, Aggregate, FinishRun, tables
<1>4. Saved(w) \subseteq Saved(w)'
  <2>1. CASE SaveRepeat(w)
    <3>1. PICK o \in Outcomes : repeats' = [repeats EXCEPT ![<<w, current[w]>>] = o]
      BY <2>1 DEF SaveRepeat
    <3>2. o # "absent"
      BY ViewsAssumption DEF Verdict
    <3>3. \A j \in Job : repeats'[<<w, j>>] = repeats[<<w, j>>] \/ repeats'[<<w, j>>] = o
      BY <1>0, <3>1 DEF WritersTypeOK
    <3> QED BY <3>2, <3>3 DEF Saved
  <2>2. CASE ~SaveRepeat(w)
    <3>1. repeats' = repeats
      BY <2>2 DEF Writes, StartRun, CreateRun, SeedRow, RunJobs, WriteBlobs, WriteTrialBlobs,
         SaveTrial, SaveAuxiliary, SaveAssertions, Aggregate, FinishRun, tables
    <3> QED BY <3>1 DEF Saved
  <2> QED BY <2>1, <2>2
<1>5. ASSUME NEW c \in Case, scenarios[<<w, c>>].status \in Verdict
      PROVE  scenarios'[<<w, c>>] = scenarios[<<w, c>>]
  <2>1. Closed(w)
    BY <1>0, <1>5 DEF WriterInv, FinalRowsStand
  <2>2. Aggregate(w) \/ FinishRun(w)
    BY <2>1 DEF Closed, Writes, StartRun, CreateRun, SeedRow, RunJobs, WriteBlobs, SaveRepeat,
                WriteTrialBlobs, SaveTrial, SaveAuxiliary, SaveAssertions
  <2>3. CASE Aggregate(w)
    <3>1. PICK d \in Case \ Aggregated(w) : SaveScenario(w, d, FinalRow(w, d))
      BY <2>3 DEF Aggregate
    <3>2. d # c
      BY <1>5, <3>1 DEF Aggregated
    <3> QED BY <1>0, <3>1, <3>2 DEF SaveScenario, WritersTypeOK
  <2>4. CASE FinishRun(w)
    BY <2>4 DEF FinishRun
  <2> QED BY <2>2, <2>3, <2>4
<1>6. ASSUME NEW j \in Job, Closed(w), <<w, j>> \in trials' PROVE <<w, j>> \in trials
  <2>1. Aggregate(w) \/ FinishRun(w)
    BY <1>6 DEF Closed, Writes, StartRun, CreateRun, SeedRow, RunJobs, WriteBlobs, SaveRepeat,
                WriteTrialBlobs, SaveTrial, SaveAuxiliary, SaveAssertions
  <2> QED BY <1>6, <2>1 DEF Aggregate, FinishRun
<1>6a. \A v \in Run : Closed(v) => tried'[v] = tried[v]
  <2>1. ASSUME Closed(w) PROVE tried'[w] = tried[w]
    <3>1. ~RunJobs(w)
      BY <2>1 DEF Closed, RunJobs
    <3> QED BY <3>1 DEF Writes, StartRun, CreateRun, SeedRow, WriteBlobs, SaveRepeat,
                        WriteTrialBlobs, SaveTrial, SaveAuxiliary, SaveAssertions, Aggregate,
                        FinishRun
  <2> QED BY <1>1, <2>1 DEF Kept
<1>7. ASSUME runs[w] # NoRun
      PROVE  /\ stamp'[w] = stamp[w] /\ runs'[w] # NoRun
             /\ runs[w].status # "passed" => runs'[w] = runs[w]
  <2>1. at[w] \notin {"idle", "creating"}
    BY <1>0, <1>7 DEF WriterInv, RowFollows
  <2>2. ~StartRun(w) /\ ~CreateRun(w)
    BY <2>1 DEF StartRun, CreateRun
  <2>3. stamp' = stamp
    BY <2>2 DEF Writes, SeedRow, RunJobs, WriteBlobs, SaveRepeat, WriteTrialBlobs,
         SaveTrial, SaveAuxiliary, SaveAssertions, Aggregate, FinishRun
  <2>4. CASE FinishRun(w)
    <3>1. runs'[w].finished = TRUE
      BY <1>0, <2>4 DEF FinishRun, WritersTypeOK
    <3>2. NoRun.finished = FALSE
      BY DEF NoRun
    <3>3. at[w] = "finishing"
      BY <2>4 DEF FinishRun
    <3>4. runs[w].status = "passed"
      BY <1>0, <3>3 DEF WriterInv, RowFollows
    <3> QED BY <2>3, <3>1, <3>2, <3>4
  <2>5. CASE ~FinishRun(w)
    <3>1. runs' = runs
      BY <2>2, <2>5 DEF Writes, SeedRow, RunJobs, WriteBlobs, SaveRepeat, WriteTrialBlobs,
         SaveTrial, SaveAuxiliary, SaveAssertions, Aggregate, tables
    <3> QED BY <1>7, <2>3, <3>1
  <2> QED BY <2>4, <2>5
<1>8. ASSUME NEW v \in Run, runs[v] # NoRun
      PROVE  /\ stamp'[v] = stamp[v] /\ runs'[v] # NoRun
             /\ runs[v].status # "passed" => runs'[v] = runs[v]
  <2>1. CASE v = w
    BY <2>1, <1>7, <1>8
  <2>2. CASE v # w
    <3>1. runs'[v] = runs[v]
      BY <2>2, <1>1 DEF Kept
    <3>2. stamp'[v] = stamp[v]
      <4>1. CASE StartRun(w)
        BY <4>1, <2>2, <1>0 DEF StartRun, WritersTypeOK
      <4>2. CASE ~StartRun(w)
        BY <4>2 DEF Writes, CreateRun, SeedRow, RunJobs, WriteBlobs, SaveRepeat, WriteTrialBlobs,
         SaveTrial, SaveAuxiliary, SaveAssertions, Aggregate, FinishRun
      <4> QED BY <4>1, <4>2
    <3> QED BY <1>8, <3>1, <3>2
  <2> QED BY <2>1, <2>2
<1>9. ASSUME NEW f \in Filters, f.status # "passed"
      PROVE  Listed(f) \subseteq Listed(f)'
  <2> SUFFICES ASSUME NEW v \in Run, Matches(v, f) PROVE Matches(v, f)'
    BY DEF Listed
  <2>1. runs[v] # NoRun /\ f.experiment \in {"any", ExpOf[v]} /\ f.status \in {"any", runs[v].status}
    BY DEF Matches
  <2>2. runs'[v] # NoRun /\ f.status \in {"any", runs'[v].status}
    BY <1>8, <1>9, <2>1
  <2> QED BY <2>1, <2>2 DEF Matches
<1>10. \A v \in Run : Saved(v) \subseteq Saved(v)'
  BY <1>1, <1>4 DEF Kept, Saved
<1>11. \A v \in Run, c \in Case :
         scenarios[<<v, c>>].status \in Verdict => scenarios'[<<v, c>>] = scenarios[<<v, c>>]
  BY <1>1, <1>5 DEF Kept
<1>12. \A v \in Run, j \in Job : Closed(v) /\ <<v, j>> \in trials' => <<v, j>> \in trials
  BY <1>1, <1>6 DEF Kept
<1> QED BY <1>2, <1>3, <1>8, <1>9, <1>10, <1>11, <1>12, <1>6a DEF Grown

(* Rows that appear push known runs only to later pages.                    *)
LEMMA RankGrows ==
  ASSUME Grown, NEW f \in Filters, f.status # "passed", NEW w \in Listed(f)
  PROVE  /\ Rank(f, w) \in Nat /\ Rank(f, w)' \in Nat /\ Rank(f, w) <= Rank(f, w)'
<1> DEFINE S == {v \in Listed(f) : Precedes(v, w)}
<1>1. IsFiniteSet(Run)
  BY ViewsAssumption
<1>2. Listed(f) \subseteq Run /\ Listed(f)' \subseteq Run /\ Listed(f) \subseteq Listed(f)'
  BY DEF Listed, Grown
<1>3. \A v \in Listed(f) : stamp'[v] = stamp[v]
  BY DEF Listed, Matches, Grown
<1>4. S \in SUBSET S' /\ S' \in SUBSET Run
  BY <1>2, <1>3 DEF Precedes
<1>5. Rank(f, w) = Cardinality(S) /\ Rank(f, w)' = Cardinality(S')
  BY DEF Rank
<1> HIDE DEF S
<1>6. IsFiniteSet(S')
  BY <1>1, <1>4, FS_Subset
<1>7. IsFiniteSet(S) /\ Cardinality(S) <= Cardinality(S')
  BY <1>4, <1>6, FS_Subset
<1> QED BY <1>5, <1>6, <1>7, FS_CardinalityType

LEMMA ReaderUndisturbed ==
  ASSUME WritersInv, ReaderInv, Grown
  PROVE  ReaderInv'
<1>1. asked' = asked /\ doing' = doing /\ shown' = shown /\ trials \subseteq trials'
  BY DEF Grown
<1>2. shown \in ShownType /\ ReaderTypeOK'
  BY <1>1 DEF ReaderInv, ReaderTypeOK
<1>3. \A r \in shown.rows : r.run \in Run /\ r.case \in Case
  BY <1>2 DEF ShownType, RowsShown
<1>4. \A r \in shown.rows : Final(r) =>
         /\ r.row = scenarios[<<r.run, r.case>>] /\ scenarios'[<<r.run, r.case>>] = r.row
         /\ Closed(r.run)
  <2> SUFFICES ASSUME NEW r \in shown.rows, Final(r)
               PROVE  /\ r.row = scenarios[<<r.run, r.case>>] /\ scenarios'[<<r.run, r.case>>] = r.row
                      /\ Closed(r.run)
    OBVIOUS
  <2>1. r.row = scenarios[<<r.run, r.case>>]
    BY DEF ReaderInv, ShownRowsStand
  <2>2. scenarios[<<r.run, r.case>>].status \in Verdict
    BY <2>1 DEF Final
  <2> QED BY <1>3, <2>1, <2>2 DEF Grown, WritersInv, WriterInv, FinalRowsStand
<1>5. ShownRowsStand'
  BY <1>1, <1>4 DEF ReaderInv, ShownRowsStand, Final
<1>5a. ASSUME asked.page = "scenarios", NEW r \in shown.rows, Final(r)
       PROVE  /\ tried'[asked.of] = tried[asked.of]
              /\ \A j \in Job : <<asked.of, j>> \in trials' <=> <<asked.of, j>> \in trials
  <2>1. asked.of = r.run /\ asked.of \in Run /\ Closed(r.run)
    BY <1>4, <1>5a DEF ReaderInv, ReaderTypeOK, ShownRowsStand
  <2> QED BY <2>1 DEF Grown
<1>5b. \A q \in shown.repeats : q.job \in Job
  BY <1>2 DEF ShownType, RepeatsShown
<1>6. BeforeTotals'
  BY <1>1, <1>5a, <1>5b DEF ReaderInv, BeforeTotals, Final
<1>7. BeforeFiles'
  BY <1>1, <1>2 DEF ReaderInv, BeforeFiles, ReaderTypeOK, Grown
<1>8. BetweenPages'
  <2> SUFFICES ASSUME asked.page = "runs", asked.of.status # "passed"
               PROVE  /\ doing = "runs" /\ shown.page # 0 => LaterPages(shown.page)'
                      /\ doing = "count" => LaterPages(shown.page + 1)'
    BY <1>1 DEF BetweenPages, LaterPages
  <2>1. PICK f \in Filters : f = asked.of /\ f = asked'.of
    BY <1>1 DEF ReaderInv, ReaderTypeOK
  <2>2. shown.page \in Nat /\ PageSize \in Nat
    BY <1>2, ViewsAssumption DEF ShownType
  <2>3. ASSUME NEW from \in Nat, LaterPages(from) PROVE LaterPages(from)'
    <3>0. f.status # "passed"
      BY <2>1
    <3>1. shown'.known \subseteq Listed(f)'
      BY <1>1, <2>1, <2>3, <3>0 DEF LaterPages, Grown
    <3>2. ASSUME NEW w \in shown.known \ shown.runs
          PROVE  from * PageSize <= Rank(f, w)'
      <4>1. w \in Listed(f) /\ from * PageSize <= Rank(f, w)
        BY <2>1, <2>3 DEF LaterPages
      <4>2. Rank(f, w) \in Nat /\ Rank(f, w)' \in Nat /\ Rank(f, w) <= Rank(f, w)'
        BY <3>0, <4>1, RankGrows
      <4>3. from * PageSize \in Nat
        BY <2>2
      <4> QED BY <4>1, <4>2, <4>3
    <3>3. \A w \in shown'.known \ shown'.runs : from * PageSize <= Rank(f, w)'
      BY <1>1, <3>2
    <3> QED BY <2>1, <3>1, <3>3 DEF LaterPages, Listed, Rank, Matches
  <2>4. PICK n \in Nat : n = shown.page /\ n = shown'.page
    BY <1>1, <2>2
  <2>5. /\ doing = "runs" /\ n # 0 => LaterPages(n)'
        /\ doing = "count" => LaterPages(n + 1)'
    <3>1. /\ doing = "runs" /\ n # 0 => LaterPages(n)
          /\ doing = "count" => LaterPages(n + 1)
      BY <2>4 DEF ReaderInv, BetweenPages
    <3>2. n + 1 \in Nat
      OBVIOUS
    <3> QED BY <2>3, <3>1, <3>2
  <2> QED BY <2>4, <2>5
<1>9. FinalRowsShownWhole'
  BY <1>1, <1>5a DEF ReaderInv, FinalRowsShownWhole, Answered, Final
<1>10. CellsShowTheirRepeat'
  BY <1>1 DEF ReaderInv, CellsShowTheirRepeat, Answered, Cells, Excluded, Final
<1>11. PagesFindTheirBlobs' /\ PagingMissesNone'
  BY <1>1 DEF ReaderInv, PagesFindTheirBlobs, PagingMissesNone, Answered
<1> QED BY <1>2, <1>5, <1>6, <1>7, <1>8, <1>9, <1>10, <1>11 DEF ReaderInv

-----------------------------------------------------------------------------
(* A SELECT changes no table.                                               *)
LEMMA ReadsOnly ==
  ASSUME WritersInv, UNCHANGED <<writers, tables>>
  PROVE  WritersInv'
<1>1. UNCHANGED <<stamp, at, fuzzed, tried, current, experiments, runs, scenarios, repeats, trials,
                  assertions, errors, blobs>>
  BY DEF writers, tables
<1>2. \A v \in Run : Kept(v)
  BY <1>1 DEF Kept
<1>3. \A v \in Run : WriterInv(v)'
  BY <1>2, OthersKept DEF WritersInv
<1>4. WritersTypeOK'
  BY <1>1 DEF WritersInv, WritersTypeOK
<1> QED BY <1>3, <1>4 DEF WritersInv

LEMMA StepType ==
  ASSUME ReaderInv, asked' = asked, <<asked.page, doing'>> \in PageSteps, doing' # "asking",
         shown' \in ShownType, doing' = "answered" <=> shown'.answer # "none"
  PROVE  ReaderTypeOK'
BY DEF ReaderInv, ReaderTypeOK

LEMMA AskKeeps ==
  ASSUME ReaderInv, NEW page, NEW of, Ask(page, of),
         \/ page = "scenarios" /\ of \in Run
         \/ page \in {"trace", "trial"} /\ of \in Run \X Job
         \/ page = "compare" /\ of \in SUBSET Experiment
         \/ page = "runs" /\ of \in Filters
  PROVE  ReaderInv'
<1>1. asked'.page = page /\ asked'.of = of /\ doing' = page /\ shown' = shown /\ shown = Blank
      /\ doing = "asking"
  BY DEF Ask, ReaderInv, ReaderTypeOK
<1>2. ReaderTypeOK'
  <2>1. shown \in ShownType /\ shown.answer = "none"
    BY <1>1 DEF ReaderInv, ReaderTypeOK, Blank
  <2>2. page # "asking" /\ page # "answered" /\ <<page, page>> \in PageSteps
    BY DEF PageSteps
  <2> QED BY <1>1, <2>1, <2>2 DEF ReaderTypeOK
<1>3. shown'.rows = {} /\ shown'.missing = {} /\ shown'.answer = "none" /\ shown'.page = 0
  BY <1>1 DEF Blank
<1>4. doing' \notin {"totals", "files", "count"}
  BY <1>1
<1>5. ShownRowsStand' /\ BeforeTotals' /\ BeforeFiles' /\ BetweenPages'
  BY <1>3, <1>4 DEF ShownRowsStand, BeforeTotals, BeforeFiles, BetweenPages
<1>6. FinalRowsShownWhole' /\ CellsShowTheirRepeat' /\ PagesFindTheirBlobs' /\ PagingMissesNone'
  BY <1>3 DEF FinalRowsShownWhole, CellsShowTheirRepeat, PagesFindTheirBlobs, PagingMissesNone, Answered
<1> QED BY <1>2, <1>5, <1>6 DEF ReaderInv

(* Before its answer a page shows nothing.                                  *)
LEMMA UnansweredPages ==
  ASSUME shown'.answer # "200"
  PROVE  FinalRowsShownWhole' /\ CellsShowTheirRepeat' /\ PagingMissesNone'
BY DEF FinalRowsShownWhole, CellsShowTheirRepeat, PagingMissesNone, Answered

(* The rows of a run, and the newest of experiments, as they are.           *)
LEMMA RowsRead ==
  ASSUME WritersTypeOK
  PROVE  /\ \A w \in Run : /\ RowsOf(w) \in SUBSET RowsShown
                           /\ \A r \in RowsOf(w) : r.run = w /\ r.row = scenarios[<<r.run, r.case>>]
         /\ \A ids : /\ LatestRows(ids) \in SUBSET RowsShown
                     /\ \A r \in LatestRows(ids) : r.row = scenarios[<<r.run, r.case>>]
<1>1. \A w \in Run, c \in Case : [run |-> w, case |-> c, row |-> scenarios[<<w, c>>]] \in RowsShown
  BY DEF WritersTypeOK, RowsShown
<1>2. \A ids, r : r \in LatestRows(ids) =>
        \E w \in Run, c \in Case : r = [run |-> w, case |-> c, row |-> scenarios[<<w, c>>]]
  <2> SUFFICES ASSUME NEW ids, NEW r \in LatestRows(ids)
               PROVE  \E w \in Run, c \in Case : r = [run |-> w, case |-> c, row |-> scenarios[<<w, c>>]]
    OBVIOUS
  <2> DEFINE Held(e, c) == {v \in Run : ExpOf[v] = e /\ scenarios[<<v, c>>] # NoRow}
  <2> DEFINE RowsAt(e, c) ==
               {[run |-> w, case |-> c, row |-> scenarios[<<w, c>>]] : w \in Newest(Held(e, c))}
  <2>1. LatestRows(ids) = UNION {RowsAt(e, c) : e \in ids, c \in Case}
    BY DEF LatestRows
  <2>2. PICK e \in ids, c \in Case : r \in RowsAt(e, c)
    <3> HIDE DEF RowsAt
    <3> QED BY <2>1
  <2>3. Newest(Held(e, c)) \subseteq Run
    BY DEF Newest
  <2> HIDE DEF Held
  <2> QED BY <2>2, <2>3
<1>3. \A w, r : r \in RowsOf(w) =>
        \E c \in Case : r = [run |-> w, case |-> c, row |-> scenarios[<<w, c>>]]
  BY DEF RowsOf
<1>4. ASSUME NEW w \in Run
      PROVE  /\ RowsOf(w) \in SUBSET RowsShown
             /\ \A r \in RowsOf(w) : r.run = w /\ r.row = scenarios[<<r.run, r.case>>]
  <2>1. ASSUME NEW r \in RowsOf(w)
        PROVE  r \in RowsShown /\ r.run = w /\ r.row = scenarios[<<r.run, r.case>>]
    <3>1. PICK c \in Case : r = [run |-> w, case |-> c, row |-> scenarios[<<w, c>>]]
      BY <1>3
    <3> QED BY <1>1, <3>1
  <2> QED BY <2>1
<1>5. ASSUME NEW ids
      PROVE  /\ LatestRows(ids) \in SUBSET RowsShown
             /\ \A r \in LatestRows(ids) : r.row = scenarios[<<r.run, r.case>>]
  <2>1. ASSUME NEW r \in LatestRows(ids) PROVE r \in RowsShown /\ r.row = scenarios[<<r.run, r.case>>]
    <3>1. PICK w \in Run, c \in Case : r = [run |-> w, case |-> c, row |-> scenarios[<<w, c>>]]
      BY <1>2
    <3> QED BY <1>1, <3>1
  <2> QED BY <2>1
<1> QED BY <1>4, <1>5

LEMMA RepeatsRead ==
  ASSUME WritersTypeOK
  PROVE  /\ \A w \in Run, j \in Job : j \in Saved(w) => RepeatRow(w, j) \in RepeatsShown
         /\ \A w \in Run : {RepeatRow(w, j) : j \in Saved(w)} \in SUBSET RepeatsShown
         /\ \A ids : LatestRepeats(ids) \in SUBSET RepeatsShown
<1>1. ASSUME NEW w \in Run, NEW j \in Job, j \in Saved(w) PROVE RepeatRow(w, j) \in RepeatsShown
  <2> DEFINE there == <<w, j>> \in assertions
  <2>1. repeats[<<w, j>>] \in Outcomes
    BY <1>1 DEF Saved, WritersTypeOK
  <2>2. RepeatRow(w, j) = [run |-> w, job |-> j, status |-> repeats[<<w, j>>], assertions |-> there]
    BY DEF RepeatRow
  <2>3. there \in BOOLEAN
    OBVIOUS
  <2> HIDE DEF there
  <2> QED BY <2>1, <2>2, <2>3 DEF RepeatsShown
<1>2. \A w \in Run : Saved(w) \subseteq Job
  BY DEF Saved
<1>3. \A ids, q : q \in LatestRepeats(ids) => \E w \in Run, j \in Job : j \in Saved(w) /\ q = RepeatRow(w, j)
  <2> SUFFICES ASSUME NEW ids, NEW q \in LatestRepeats(ids)
               PROVE  \E w \in Run, j \in Job : j \in Saved(w) /\ q = RepeatRow(w, j)
    OBVIOUS
  <2>1. PICK wj \in Run \X Job : wj[2] \in Saved(wj[1]) /\ q = RepeatRow(wj[1], wj[2])
    BY DEF LatestRepeats
  <2> QED BY <2>1
<1> QED BY <1>1, <1>2, <1>3

(* As many rows are shown as jobs are there.                                *)
LEMMA RepeatsCounted ==
  ASSUME NEW w, NEW S, IsFiniteSet(S)
  PROVE  Cardinality({RepeatRow(w, j) : j \in S}) = Cardinality(S)
<1> DEFINE T == {RepeatRow(w, j) : j \in S}
           f == [j \in S |-> RepeatRow(w, j)]
<1>1. \A j \in S : RepeatRow(w, j).job = j
  BY DEF RepeatRow
<1>2. f \in Bijection(S, T)
  <2>1. f \in Injection(S, T)
    <3>1. f \in [S -> T]
      OBVIOUS
    <3>2. ASSUME NEW a \in S, NEW b \in S, f[a] = f[b] PROVE a = b
      <4>1. f[a] = RepeatRow(w, a) /\ f[b] = RepeatRow(w, b)
        OBVIOUS
      <4> HIDE DEF f
      <4> QED BY <1>1, <3>2, <4>1
    <3> HIDE DEF f, T
    <3> QED BY <3>1, <3>2 DEF Injection, IsInjective
  <2>2. f \in Surjection(S, T)
    BY DEF Surjection
  <2> QED BY <2>1, <2>2 DEF Bijection
<1>3. ExistsBijection(S, T)
  BY <1>2 DEF ExistsBijection
<1> HIDE DEF T
<1> QED BY <1>3, FS_Bijection DEF T

LEMMA RowsKept ==
  ASSUME ReaderInv, UNCHANGED <<asked, scenarios>>, shown'.rows = shown.rows
  PROVE  ShownRowsStand'
BY DEF ReaderInv, ShownRowsStand, Final

(* What is read for a final row is what it counts.                          *)
LEMMA FinalRowRead ==
  ASSUME WritersInv, NEW w \in Run, NEW c \in Case, NEW row, row = scenarios[<<w, c>>],
         row.status \in Verdict
  PROVE  LET mine == {q \in {RepeatRow(w, j) : j \in Saved(w)} : q.job[1] = c}
             ok == {q \in mine : q.status = "passed"}
         IN  /\ Cardinality(ok) = row.passed
             /\ Cardinality(mine \ ok) = row.failed
             /\ \A q \in mine : q.assertions
             /\ row.fuzz => \A q \in mine : <<w, q.job>> \in trials <=> c \in tried[w]
<1> DEFINE held == JobsOf(c) \cap Saved(w)
           passed == {j \in held : repeats[<<w, j>>] = "passed"}
           mine == {q \in {RepeatRow(w, j) : j \in Saved(w)} : q.job[1] = c}
           ok == {q \in mine : q.status = "passed"}
           fz == c \in fuzzed[w] /\ held # {}
           sts == {repeats[<<w, j>>] : j \in held}
<1>1. Closed(w) /\ row = FinalRow(w, c) /\ SavedWhole(w)
  BY DEF WritersInv, WriterInv, FinalRowsStand
<1>2. row = [status |-> Worst(sts), passed |-> Cardinality(passed),
             failed |-> Cardinality(held \ passed), fuzz |-> fz]
  BY <1>1 DEF FinalRow
<1>3. row.passed = Cardinality(passed) /\ row.failed = Cardinality(held \ passed) /\ row.fuzz = fz
  <2> HIDE DEF passed, held, fz, sts
  <2> QED BY <1>2
<1>4. IsFiniteSet(passed) /\ IsFiniteSet(held \ passed)
  BY FinalRowFacts DEF WritersInv
<1>5. \A j \in Saved(w) : j \in Job /\ (j[1] = c <=> j \in JobsOf(c))
  BY JobFacts DEF Saved
<1>6. \A j : RepeatRow(w, j).job = j /\ RepeatRow(w, j).status = repeats[<<w, j>>]
  BY DEF RepeatRow
<1>7. mine = {RepeatRow(w, j) : j \in held}
  BY <1>5, <1>6
<1> HIDE DEF mine
<1>8. ok = {RepeatRow(w, j) : j \in passed} /\ mine \ ok = {RepeatRow(w, j) : j \in held \ passed}
  BY <1>6, <1>7
<1>9. Cardinality(ok) = row.passed /\ Cardinality(mine \ ok) = row.failed
  <2> HIDE DEF ok, passed, held
  <2> QED BY <1>3, <1>4, <1>8, RepeatsCounted
<1>10. ASSUME NEW j \in held
       PROVE  <<w, j>> \in assertions /\ (<<w, j>> \in trials <=> c \in tried[w])
  BY <1>1, <1>5 DEF SavedWhole, Closed
<1>11. \A q \in mine : q.assertions
  <2>1. ASSUME NEW j \in held PROVE RepeatRow(w, j).assertions
    <3>1. RepeatRow(w, j).assertions = (<<w, j>> \in assertions)
      BY DEF RepeatRow
    <3> QED BY <1>10, <3>1
  <2> HIDE DEF held
  <2> QED BY <1>7, <2>1
<1>12. \A q \in mine : <<w, q.job>> \in trials <=> c \in tried[w]
  <2> HIDE DEF held
  <2> QED BY <1>6, <1>7, <1>10
<1> QED BY <1>9, <1>11, <1>12 DEF mine

LEMMA RunPageKeeps ==
  ASSUME WritersInv, ReaderInv, CheckRun \/ ReadRowsThenRepeats \/ ReadTotals
  PROVE  ReaderInv'
<1>1. UNCHANGED <<writers, tables, asked>>
  BY DEF CheckRun, ReadRowsThenRepeats, ReadTotals, Reads, Answers
<1>2. /\ asked.page = "scenarios" /\ asked.of \in Run /\ shown \in ShownType
      /\ shown.answer = "none" /\ shown.missing = {}
  <2>1. doing \in {"scenarios", "rows", "repeats", "totals"}
    BY DEF CheckRun, ReadRowsThenRepeats, ReadTotals
  <2> QED BY <2>1 DEF ReaderInv, ReaderTypeOK, PageSteps, PagesFindTheirBlobs
<1>3. asked' = asked /\ scenarios' = scenarios /\ trials' = trials /\ tried' = tried
  BY <1>1 DEF tables, writers
<1>4. shown'.missing = {} => PagesFindTheirBlobs'
  BY DEF PagesFindTheirBlobs
<1>5. BeforeFiles' /\ BetweenPages' /\ CellsShowTheirRepeat' /\ PagingMissesNone'
  <2>1. doing' \notin {"files"}
    BY DEF CheckRun, ReadRowsThenRepeats, ReadTotals, Reads, Answers
  <2> QED BY <1>2, <1>3, <2>1
        DEF BeforeFiles, BetweenPages, CellsShowTheirRepeat, PagingMissesNone, Answered
<1>6. CASE CheckRun
  <2>1. \/ shown' = shown /\ doing' = "rows"
        \/ shown' = [shown EXCEPT !.answer = "404"] /\ doing' = "answered"
    BY <1>6 DEF CheckRun, Reads, Answers
  <2>2. /\ shown' \in ShownType /\ shown'.rows = shown.rows /\ shown'.missing = {}
        /\ shown'.answer # "200" /\ (doing' = "answered" <=> shown'.answer # "none")
    BY <1>2, <2>1 DEF ShownType
  <2>3. ReaderTypeOK'
    BY <1>2, <1>3, <2>1, <2>2, StepType DEF PageSteps
  <2>4. BeforeTotals'
    BY <2>1 DEF BeforeTotals
  <2> QED BY <1>3, <1>4, <1>5, <2>2, <2>3, <2>4, RowsKept, UnansweredPages DEF ReaderInv
<1>7. CASE doing = "rows" /\ ReadRowsThenRepeats
  <2>1. shown' = [shown EXCEPT !.rows = RowsOf(asked.of)] /\ doing' = "repeats"
    BY <1>7 DEF ReadRowsThenRepeats, Reads
  <2>2. /\ RowsOf(asked.of) \in SUBSET RowsShown
        /\ \A r \in RowsOf(asked.of) : r.run = asked.of /\ r.row = scenarios[<<r.run, r.case>>]
    BY <1>2, RowsRead DEF WritersInv
  <2>3. /\ shown' \in ShownType /\ shown'.rows = RowsOf(asked.of) /\ shown'.missing = {}
        /\ shown'.answer = "none"
    BY <1>2, <2>1, <2>2 DEF ShownType
  <2>4. ReaderTypeOK'
    BY <1>2, <1>3, <2>1, <2>3, StepType DEF PageSteps
  <2>5. ShownRowsStand'
    BY <1>3, <2>2, <2>3 DEF ShownRowsStand
  <2>6. BeforeTotals'
    BY <2>1 DEF BeforeTotals
  <2> QED BY <1>4, <1>5, <2>3, <2>4, <2>5, <2>6, UnansweredPages DEF ReaderInv
<1>8. CASE doing = "repeats" /\ ReadRowsThenRepeats
  <2> DEFINE w == asked.of
             read == {RepeatRow(w, j) : j \in Saved(w)}
  <2>1. shown' = [shown EXCEPT !.repeats = read] /\ doing' = "totals"
    BY <1>8 DEF ReadRowsThenRepeats, Reads
  <2>2. read \in SUBSET RepeatsShown
    BY <1>2, RepeatsRead DEF WritersInv
  <2> HIDE DEF read
  <2>3. /\ shown' \in ShownType /\ shown'.rows = shown.rows /\ shown'.missing = {}
        /\ shown'.repeats = read /\ shown'.answer = "none"
    BY <1>2, <2>1, <2>2 DEF ShownType
  <2>4. ReaderTypeOK'
    BY <1>2, <1>3, <2>1, <2>3, StepType DEF PageSteps
  <2>5. BeforeTotals'
    <3> SUFFICES ASSUME NEW r \in shown.rows, r.row.status \in Verdict
                 PROVE  LET mine == {q \in read : q.job[1] = r.case}
                            ok == {q \in mine : q.status = "passed"}
                        IN  /\ Cardinality(ok) = r.row.passed
                            /\ Cardinality(mine \ ok) = r.row.failed
                            /\ \A q \in mine : q.assertions
                            /\ r.row.fuzz => \A q \in mine :
                                 <<w, q.job>> \in trials <=> r.case \in tried[w]
      BY <1>3, <2>3 DEF BeforeTotals, Final
    <3>1. r.run = w /\ r.row = scenarios[<<w, r.case>>]
      BY <1>2 DEF ReaderInv, ShownRowsStand, Final
    <3>2. r.case \in Case
      BY <1>2 DEF ShownType, RowsShown
    <3>3. w \in Run
      BY <1>2
    <3> HIDE DEF w
    <3> QED BY <3>1, <3>2, <3>3, FinalRowRead DEF read
  <2> QED BY <1>3, <1>4, <1>5, <2>3, <2>4, <2>5, RowsKept, UnansweredPages DEF ReaderInv
<1>9. CASE ReadTotals
  <2> DEFINE fuzzing == {r.case : r \in {q \in shown.rows : q.row.fuzz}}
             sums == {j \in Job : j[1] \in fuzzing /\ <<asked.of, j>> \in trials}
  <2>1. shown' = [[shown EXCEPT !.trials = sums] EXCEPT !.answer = "200"] /\ doing' = "answered"
        /\ doing = "totals"
    BY <1>9 DEF ReadTotals, Reads, Answers
  <2>2. /\ shown' \in ShownType /\ shown'.rows = shown.rows /\ shown'.missing = {}
        /\ shown'.repeats = shown.repeats /\ shown'.trials = sums /\ shown'.answer = "200"
    <3>1. sums \in SUBSET Job
      OBVIOUS
    <3> HIDE DEF sums
    <3> QED BY <1>2, <2>1, <3>1 DEF ShownType
  <2>3. ReaderTypeOK'
    BY <1>2, <1>3, <2>1, <2>2, StepType DEF PageSteps
  <2>4. BeforeTotals'
    BY <2>1 DEF BeforeTotals
  <2>5. FinalRowsShownWhole'
    <3> SUFFICES ASSUME NEW r \in shown.rows, Final(r)
                 PROVE  LET mine == {q \in shown.repeats : q.job[1] = r.case}
                            ok == {q \in mine : q.status = "passed"}
                        IN  /\ Cardinality(ok) = r.row.passed
                            /\ Cardinality(mine \ ok) = r.row.failed
                            /\ \A q \in mine : q.assertions
                            /\ r.row.fuzz => \A q \in mine :
                                 q.job \in sums <=> r.case \in tried[asked.of]
      BY <1>3, <2>2 DEF FinalRowsShownWhole, Final
    <3> DEFINE mine == {q \in shown.repeats : q.job[1] = r.case}
               ok == {q \in mine : q.status = "passed"}
    <3>1. /\ Cardinality(ok) = r.row.passed
          /\ Cardinality(mine \ ok) = r.row.failed
          /\ \A q \in mine : q.assertions
          /\ r.row.fuzz => \A q \in mine :
               <<asked.of, q.job>> \in trials <=> r.case \in tried[asked.of]
      BY <1>2, <2>1 DEF ReaderInv, BeforeTotals
    <3>2. ASSUME r.row.fuzz, NEW q \in mine
          PROVE  q.job \in sums <=> <<asked.of, q.job>> \in trials
      <4>1. q.job \in Job
        BY <1>2 DEF ShownType, RepeatsShown
      <4>2. q.job[1] = r.case /\ r.case \in fuzzing
        BY <3>2
      <4> QED BY <4>1, <4>2
    <3> QED BY <3>1, <3>2
  <2> QED BY <1>3, <1>4, <1>5, <2>2, <2>3, <2>4, <2>5, RowsKept DEF ReaderInv
<1> QED BY <1>6, <1>7, <1>8, <1>9 DEF ReadRowsThenRepeats

ShowsRepeat(S, w, c, row) ==
  \E q \in S :
    /\ q.run = w /\ q.job[1] = c
    /\ Worst({q.status, row.status}) = row.status
    /\ row.failed = 0 => q.status = "passed"

(* The last repeat of a final row is read with it, and does not belie it.   *)
LEMMA LastRepeatRead ==
  ASSUME WritersInv, NEW w \in Run, NEW c \in Case, NEW ids, <<w, c>> \in ids,
         NEW row, row = scenarios[<<w, c>>], row.status \in Verdict,
         row.passed + row.failed > 0
  PROVE  ShowsRepeat(LatestRepeats(ids), w, c, row)
<1> DEFINE held == JobsOf(c) \cap Saved(w)
           passed == {j \in held : repeats[<<w, j>>] = "passed"}
           fz == c \in fuzzed[w] /\ held # {}
           sts == {repeats[<<w, j>>] : j \in held}
           nums == {j[2] : j \in held}
<1>1. row = FinalRow(w, c) /\ WritersTypeOK
  BY DEF WritersInv, WriterInv, FinalRowsStand
<1>2. row = [status |-> Worst(sts), passed |-> Cardinality(passed),
             failed |-> Cardinality(held \ passed), fuzz |-> fz]
  BY <1>1 DEF FinalRow
<1>3. row.status = Worst(sts) /\ row.passed = Cardinality(passed) /\ row.failed = Cardinality(held \ passed)
  <2> HIDE DEF passed, held, fz, sts
  <2> QED BY <1>2
<1>4. IsFiniteSet(passed) /\ IsFiniteSet(held \ passed)
  BY <1>1, FinalRowFacts
<1>5. held # {}
  <2> SUFFICES ASSUME held = {} PROVE FALSE
    OBVIOUS
  <2>1. passed = {} /\ held \ passed = {}
    OBVIOUS
  <2> HIDE DEF passed, held
  <2> QED BY <1>3, <1>4, <2>1, FS_EmptySet
<1>6. \A j \in held : /\ j \in Job /\ j[1] = c /\ j = <<c, j[2]>> /\ j[2] \in Nat
                      /\ j[2] <= RepeatsOf[c] /\ j \in Saved(w)
  BY JobFacts DEF Saved
<1>7. nums \in SUBSET Nat /\ nums # {} /\ RepeatsOf[c] \in Nat /\ \A y \in nums : y <= RepeatsOf[c]
  <2>1. RepeatsOf[c] \in Nat
    BY JobFacts
  <2> HIDE DEF held
  <2> QED BY <1>5, <1>6, <2>1
<1>8. PICK j \in held : \A i \in held : i[2] <= j[2]
  <2> HIDE DEF nums
  <2>1. PICK k \in nums : \A y \in nums : y <= k
    BY <1>7, GreatestNat
  <2> HIDE DEF held
  <2> QED BY <2>1 DEF nums
<1>9. \A i \in Saved(w) : i[1] = c => i \in held
  BY JobFacts DEF Saved
<1> DEFINE q == RepeatRow(w, j)
<1>10. j \in Job /\ j[1] = c /\ j \in Saved(w)
  BY <1>6
<1>11. \A i \in Saved(w) : i[1] = j[1] => i[2] <= j[2]
  BY <1>8, <1>9, <1>10
<1>12. q \in LatestRepeats(ids)
  <2> DEFINE last == {p \in Run \X Job :
                        /\ <<p[1], p[2][1]>> \in ids
                        /\ p[2] \in Saved(p[1])
                        /\ \A i \in Saved(p[1]) : i[1] = p[2][1] => i[2] <= p[2][2]}
  <2>1. <<w, j>> \in last
    BY <1>10, <1>11
  <2>2. LatestRepeats(ids) = {RepeatRow(wj[1], wj[2]) : wj \in last}
    BY DEF LatestRepeats
  <2> HIDE DEF last
  <2> QED BY <2>1, <2>2
<1>13. q.run = w /\ q.job = j /\ q.status = repeats[<<w, j>>]
  BY DEF RepeatRow
<1>14. q.status \in sts \cap Verdict
  <2>1. repeats[<<w, j>>] \in Outcomes
    BY <1>1, <1>10 DEF Saved, WritersTypeOK
  <2> QED BY <1>13, <2>1, ViewsAssumption
<1>15. Worst({q.status, row.status}) = row.status
  <2> HIDE DEF q, sts
  <2> QED BY <1>3, <1>14, WorstFacts
<1>16. row.failed = 0 => q.status = "passed"
  <2> SUFFICES ASSUME row.failed = 0 PROVE q.status = "passed"
    OBVIOUS
  <2>1. held \ passed = {}
    <3> HIDE DEF held, passed
    <3> QED BY <1>3, <1>4, FS_EmptySet
  <2> QED BY <1>13, <2>1
<1> HIDE DEF q
<1> QED BY <1>10, <1>12, <1>13, <1>15, <1>16 DEF ShowsRepeat

LEMMA ComparePageKeeps ==
  ASSUME WritersInv, ReaderInv, CheckExperiments \/ ReadHeaders \/ ReadCellsThenRepeats
  PROVE  ReaderInv'
<1>1. UNCHANGED <<writers, tables, asked>>
  BY DEF CheckExperiments, ReadHeaders, ReadCellsThenRepeats, Reads, Answers
<1>2. /\ asked.page = "compare" /\ shown \in ShownType
      /\ shown.answer = "none" /\ shown.missing = {}
  <2>1. doing \in {"compare", "headers", "cells", "last repeats"}
    BY DEF CheckExperiments, ReadHeaders, ReadCellsThenRepeats
  <2> QED BY <2>1 DEF ReaderInv, ReaderTypeOK, PageSteps, PagesFindTheirBlobs
<1>3. asked' = asked /\ scenarios' = scenarios /\ trials' = trials
  BY <1>1 DEF tables
<1>4. shown'.missing = {} => PagesFindTheirBlobs'
  BY DEF PagesFindTheirBlobs
<1>5. BeforeTotals' /\ BeforeFiles' /\ BetweenPages' /\ FinalRowsShownWhole' /\ PagingMissesNone'
  <2>1. doing' \notin {"files"}
    BY DEF CheckExperiments, ReadHeaders, ReadCellsThenRepeats, Reads, Answers
  <2> QED BY <1>2, <1>3, <2>1
        DEF BeforeTotals, BeforeFiles, BetweenPages, FinalRowsShownWhole, PagingMissesNone, Answered
<1>6. CASE CheckExperiments
  <2>1. \/ shown' = shown /\ doing' = "headers"
        \/ shown' = [shown EXCEPT !.answer = "422"] /\ doing' = "answered"
    BY <1>6 DEF CheckExperiments, Reads, Answers
  <2>2. /\ shown' \in ShownType /\ shown'.rows = shown.rows /\ shown'.missing = {}
        /\ shown'.answer # "200" /\ (doing' = "answered" <=> shown'.answer # "none")
    BY <1>2, <2>1 DEF ShownType
  <2>3. ReaderTypeOK'
    BY <1>2, <1>3, <2>1, <2>2, StepType DEF PageSteps
  <2> QED BY <1>3, <1>4, <1>5, <2>2, <2>3, RowsKept, UnansweredPages DEF ReaderInv
<1>7. CASE ReadHeaders
  <2> DEFINE Of(e) == {w \in Run : runs[w] # NoRun /\ ExpOf[w] = e}
             heads == UNION {Newest(Of(e)) : e \in asked.of}
  <2>1. shown' = [shown EXCEPT !.runs = heads] /\ doing' = "cells"
    BY <1>7 DEF ReadHeaders, Reads
  <2>2. heads \in SUBSET Run
    <3>1. \A e : Newest(Of(e)) \subseteq Run
      BY DEF Newest
    <3> HIDE DEF Of
    <3> QED BY <3>1
  <2> HIDE DEF heads
  <2>3. /\ shown' \in ShownType /\ shown'.rows = shown.rows /\ shown'.missing = {}
        /\ shown'.answer = "none"
    BY <1>2, <2>1, <2>2 DEF ShownType
  <2>4. ReaderTypeOK'
    BY <1>2, <1>3, <2>1, <2>3, StepType DEF PageSteps
  <2> QED BY <1>3, <1>4, <1>5, <2>3, <2>4, RowsKept, UnansweredPages DEF ReaderInv
<1>8. CASE doing = "cells" /\ ReadCellsThenRepeats
  <2> DEFINE read == LatestRows(asked.of)
  <2>1. shown' = [shown EXCEPT !.rows = read] /\ doing' = "last repeats"
    BY <1>8 DEF ReadCellsThenRepeats, Reads
  <2>2. read \in SUBSET RowsShown /\ \A r \in read : r.row = scenarios[<<r.run, r.case>>]
    BY RowsRead DEF WritersInv
  <2> HIDE DEF read
  <2>3. /\ shown' \in ShownType /\ shown'.rows = read /\ shown'.missing = {}
        /\ shown'.answer = "none"
    BY <1>2, <2>1, <2>2 DEF ShownType
  <2>4. ReaderTypeOK'
    BY <1>2, <1>3, <2>1, <2>3, StepType DEF PageSteps
  <2>5. ShownRowsStand'
    BY <1>2, <1>3, <2>2, <2>3 DEF ShownRowsStand
  <2> QED BY <1>4, <1>5, <2>3, <2>4, <2>5, UnansweredPages DEF ReaderInv
<1>9. CASE doing = "last repeats" /\ ReadCellsThenRepeats
  <2> DEFINE ids == RowIds(shown.rows)
             read == LatestRepeats(ids)
  <2>1. shown' = [[shown EXCEPT !.repeats = read] EXCEPT !.answer = "200"] /\ doing' = "answered"
    BY <1>9 DEF ReadCellsThenRepeats, Reads, Answers
  <2>2. read \in SUBSET RepeatsShown
    BY RepeatsRead DEF WritersInv
  <2> HIDE DEF read
  <2>3. /\ shown' \in ShownType /\ shown'.rows = shown.rows /\ shown'.missing = {}
        /\ shown'.repeats = read /\ shown'.answer = "200"
    BY <1>2, <2>1, <2>2 DEF ShownType
  <2>4. ReaderTypeOK'
    BY <1>2, <1>3, <2>1, <2>3, StepType DEF PageSteps
  <2>5. CellsShowTheirRepeat'
    <3> SUFFICES ASSUME NEW r \in shown.rows, ~r.row.fuzz, r.row.status \in Verdict
                 PROVE  r.row.passed + r.row.failed > 0 =>
                          \E q \in read :
                            /\ q.run = r.run /\ q.job[1] = r.case
                            /\ Worst({q.status, r.row.status}) = r.row.status
                            /\ r.row.failed = 0 => q.status = "passed"
      BY <1>3, <2>3 DEF CellsShowTheirRepeat, Cells, Excluded, Final
    <3>1. r.row = scenarios[<<r.run, r.case>>]
      BY DEF ReaderInv, ShownRowsStand, Final
    <3>2. r.run \in Run /\ r.case \in Case
      BY <1>2 DEF ShownType, RowsShown
    <3>3. <<r.run, r.case>> \in ids
      BY DEF RowIds
    <3> HIDE DEF ids
    <3>5. ASSUME r.row.passed + r.row.failed > 0
          PROVE  ShowsRepeat(LatestRepeats(ids), r.run, r.case, r.row)
      BY <3>1, <3>2, <3>3, <3>5, LastRepeatRead
    <3> QED BY <3>5 DEF read, ShowsRepeat
  <2> QED BY <1>3, <1>4, <1>5, <2>3, <2>4, <2>5, RowsKept DEF ReaderInv
<1> QED BY <1>6, <1>7, <1>8, <1>9 DEF ReadCellsThenRepeats

LEMMA FilePagesKeep ==
  ASSUME WritersInv, ReaderInv, GetRepeat \/ GetTrial \/ LoadBlobs \/ ListErrorsAndTrials
  PROVE  ReaderInv'
<1>1. UNCHANGED <<writers, tables, asked>>
  BY DEF GetRepeat, GetTrial, LoadBlobs, ListErrorsAndTrials, Reads, Answers
<1>2. /\ asked.page \in {"trace", "trial"} /\ asked.of \in Run \X Job /\ shown \in ShownType
      /\ shown.answer = "none" /\ shown.missing = {}
  <2>1. doing \in {"trace", "trial", "files", "errors", "trials"}
    BY DEF GetRepeat, GetTrial, LoadBlobs, ListErrorsAndTrials
  <2> QED BY <2>1 DEF ReaderInv, ReaderTypeOK, PageSteps, PagesFindTheirBlobs
<1>3. asked' = asked /\ scenarios' = scenarios /\ trials' = trials /\ repeats' = repeats
  BY <1>1 DEF tables
<1>4. shown'.missing = {} => PagesFindTheirBlobs'
  BY DEF PagesFindTheirBlobs
<1>5. BeforeTotals' /\ BetweenPages' /\ FinalRowsShownWhole' /\ CellsShowTheirRepeat' /\ PagingMissesNone'
  BY <1>2, <1>3 DEF BeforeTotals, BetweenPages, FinalRowsShownWhole, CellsShowTheirRepeat,
                    PagingMissesNone, Answered
<1>6. PICK w \in Run, j \in Job : asked.of = <<w, j>>
  BY <1>2
<1>7. asked.of[1] = w /\ asked.of[2] = j
  BY <1>6
<1>8. CASE GetRepeat
  <2> DEFINE read == {RepeatRow(w, j)}
  <2>1. \/ shown' = [shown EXCEPT !.repeats = read] /\ doing' = "files" /\ j \in Saved(w)
        \/ shown' = [shown EXCEPT !.answer = "404"] /\ doing' = "answered"
    BY <1>7, <1>8 DEF GetRepeat, Reads, Answers
  <2>2. asked.page = "trace"
    BY <1>8 DEF GetRepeat, ReaderInv, ReaderTypeOK, PageSteps
  <2>3. j \in Saved(w) => read \in SUBSET RepeatsShown
    BY RepeatsRead DEF WritersInv
  <2> HIDE DEF read
  <2>4. /\ shown' \in ShownType /\ shown'.rows = shown.rows /\ shown'.missing = {}
        /\ shown'.answer # "200" /\ (doing' = "answered" <=> shown'.answer # "none")
    BY <1>2, <2>1, <2>3 DEF ShownType
  <2>5. ReaderTypeOK'
    BY <1>2, <1>3, <2>1, <2>2, <2>4, StepType DEF PageSteps
  <2>6. BeforeFiles'
    BY <1>3, <1>7, <2>1, <2>2 DEF BeforeFiles, Saved
  <2> QED BY <1>3, <1>4, <1>5, <2>4, <2>5, <2>6, RowsKept DEF ReaderInv
<1>9. CASE GetTrial
  <2>1. \/ shown' = [shown EXCEPT !.trials = {j}] /\ doing' = "files" /\ asked.of \in trials
        \/ shown' = [shown EXCEPT !.answer = "404"] /\ doing' = "answered"
    BY <1>7, <1>9 DEF GetTrial, Reads, Answers
  <2>2. asked.page = "trial"
    BY <1>9 DEF GetTrial, ReaderInv, ReaderTypeOK, PageSteps
  <2>4. /\ shown' \in ShownType /\ shown'.rows = shown.rows /\ shown'.missing = {}
        /\ shown'.answer # "200" /\ (doing' = "answered" <=> shown'.answer # "none")
    BY <1>2, <2>1 DEF ShownType
  <2>5. ReaderTypeOK'
    BY <1>2, <1>3, <2>1, <2>2, <2>4, StepType DEF PageSteps
  <2>6. BeforeFiles'
    BY <1>3, <2>1, <2>2 DEF BeforeFiles
  <2> QED BY <1>3, <1>4, <1>5, <2>4, <2>5, <2>6, RowsKept DEF ReaderInv
<1>10. CASE LoadBlobs
  <2> DEFINE table == IF asked.page = "trace" THEN "repeat" ELSE "trial"
             gone == {<<w, j, table>>} \ blobs
  <2>1. \/ /\ shown' = [shown EXCEPT !.missing = gone] /\ doing' = "errors"
           /\ asked.page = "trace"
        \/ /\ shown' = [[shown EXCEPT !.missing = gone] EXCEPT !.answer = "200"]
           /\ doing' = "answered" /\ asked.page # "trace"
    BY <1>7, <1>10 DEF LoadBlobs, Reads, Answers
  <2>2. BlobsFirst(w) /\ doing = "files"
    BY <1>10 DEF LoadBlobs, WritersInv, WriterInv
  <2>3. <<w, j, table>> \in blobs
    <3>1. CASE asked.page = "trace"
      BY <1>7, <2>2, <3>1 DEF ReaderInv, BeforeFiles, BlobsFirst
    <3>2. CASE asked.page = "trial"
      BY <1>6, <2>2, <3>2 DEF ReaderInv, BeforeFiles, BlobsFirst
    <3> QED BY <1>2, <3>1, <3>2
  <2>4. gone = {}
    BY <2>3
  <2> HIDE DEF gone
  <2>5. /\ shown' \in ShownType /\ shown'.rows = shown.rows /\ shown'.missing = {}
        /\ (doing' = "answered" <=> shown'.answer # "none")
    BY <1>2, <2>1, <2>4 DEF ShownType
  <2>6. ReaderTypeOK'
    BY <1>2, <1>3, <2>1, <2>5, StepType DEF PageSteps
  <2>7. BeforeFiles'
    BY <2>1 DEF BeforeFiles
  <2> QED BY <1>3, <1>4, <1>5, <2>5, <2>6, <2>7, RowsKept DEF ReaderInv
<1>11. CASE ListErrorsAndTrials
  <2> DEFINE errs == {asked.of} \cap errors
             trs == {i \in {j} : asked.of \in trials}
  <2>1. \/ shown' = [shown EXCEPT !.errors = errs] /\ doing' = "trials"
        \/ shown' = [[shown EXCEPT !.trials = trs] EXCEPT !.answer = "200"] /\ doing' = "answered"
    BY <1>7, <1>11 DEF ListErrorsAndTrials, Reads, Answers
  <2>2. asked.page = "trace"
    BY <1>11 DEF ListErrorsAndTrials, ReaderInv, ReaderTypeOK, PageSteps
  <2>3. errs \in SUBSET (Run \X Job) /\ trs \in SUBSET Job
    BY <1>2
  <2> HIDE DEF errs, trs
  <2>4. /\ shown' \in ShownType /\ shown'.rows = shown.rows /\ shown'.missing = {}
        /\ (doing' = "answered" <=> shown'.answer # "none")
    BY <1>2, <2>1, <2>3 DEF ShownType
  <2>5. ReaderTypeOK'
    BY <1>2, <1>3, <2>1, <2>2, <2>4, StepType DEF PageSteps
  <2>6. BeforeFiles'
    BY <2>1 DEF BeforeFiles
  <2> QED BY <1>3, <1>4, <1>5, <2>4, <2>5, <2>6, RowsKept DEF ReaderInv
<1> QED BY <1>8, <1>9, <1>10, <1>11

(* A listed run does not precede itself: its rank is less than the total.   *)
LEMMA RankInTotal ==
  ASSUME WritersTypeOK, NEW f, NEW w \in Listed(f)
  PROVE  /\ Rank(f, w) \in Nat /\ Cardinality(Listed(f)) \in Nat
         /\ Rank(f, w) < Cardinality(Listed(f))
<1> DEFINE S == {v \in Listed(f) : Precedes(v, w)}
<1>1. IsFiniteSet(Listed(f)) /\ w \in Run
  BY ViewsAssumption, FS_Subset DEF Listed
<1>2. S \in SUBSET Listed(f) /\ w \notin S
  BY <1>1 DEF Precedes, WritersTypeOK
<1>3. S # Listed(f)
  BY <1>2
<1>4. Rank(f, w) = Cardinality(S)
  BY DEF Rank
<1> HIDE DEF S
<1>5. /\ IsFiniteSet(S) /\ Cardinality(S) <= Cardinality(Listed(f))
      /\ Cardinality(S) # Cardinality(Listed(f))
  BY <1>1, <1>2, <1>3, FS_Subset
<1>6. Cardinality(S) \in Nat /\ Cardinality(Listed(f)) \in Nat
  BY <1>1, <1>5, FS_CardinalityType
<1> QED BY <1>4, <1>5, <1>6

LEMMA RunListKeeps ==
  ASSUME WritersInv, ReaderInv, ListRuns \/ CountRuns
  PROVE  ReaderInv'
<1>1. UNCHANGED <<writers, tables, asked>>
  BY DEF ListRuns, CountRuns, Reads, Answers
<1>2. /\ asked.page = "runs" /\ asked.of \in Filters /\ shown \in ShownType
      /\ shown.answer = "none" /\ shown.missing = {}
  <2>1. doing \in {"runs", "count"}
    BY DEF ListRuns, CountRuns
  <2> QED BY <2>1 DEF ReaderInv, ReaderTypeOK, PageSteps, PagesFindTheirBlobs
<1>3. asked' = asked /\ scenarios' = scenarios /\ runs' = runs /\ stamp' = stamp
  BY <1>1 DEF tables, writers
<1>4. shown'.missing = {} => PagesFindTheirBlobs'
  BY DEF PagesFindTheirBlobs
<1>5. BeforeTotals' /\ BeforeFiles' /\ FinalRowsShownWhole' /\ CellsShowTheirRepeat'
  <2>1. doing' \notin {"files"}
    BY DEF ListRuns, CountRuns, Reads, Answers
  <2> QED BY <1>2, <1>3, <2>1
        DEF BeforeTotals, BeforeFiles, FinalRowsShownWhole, CellsShowTheirRepeat, Answered
<1>6. PICK f \in Filters : f = asked.of /\ f = asked'.of
  BY <1>2, <1>3
<1>7. PICK p \in Nat : p = shown.page
  BY <1>2 DEF ShownType
<1>8. PageSize \in Nat /\ p * PageSize \in Nat /\ (p + 1) * PageSize \in Nat
      /\ (p + 1) * PageSize = p * PageSize + PageSize
      /\ PageSize * (p + 1) = (p + 1) * PageSize
  BY ViewsAssumption
<1>9. Listed(f) \subseteq Run /\ Listed(f) = {w \in Run : Matches(w, f)}
  BY DEF Listed
<1>10. \A w \in Listed(f) : Rank(f, w) \in Nat
  BY RankInTotal DEF WritersInv
<1>11. \A w : Rank(f, w)' = Rank(f, w)
  <2>1. \A v \in Run : Matches(v, f)' <=> Matches(v, f)
    BY <1>3 DEF Matches
  <2>2. \A v, w : Precedes(v, w)' <=> Precedes(v, w)
    BY <1>3 DEF Precedes
  <2>3. Listed(f)' = Listed(f)
    BY <2>1 DEF Listed
  <2> QED BY <2>2, <2>3 DEF Rank
<1>12. Listed(f)' = Listed(f)
  BY <1>3 DEF Listed, Matches
<1>13. CASE ListRuns
  <2> DEFINE on == OnPage(f, p)
             first == IF p = 0 THEN Listed(f) ELSE shown.known
  <2>1. shown' = [shown EXCEPT !.runs = shown.runs \cup on, !.known = first] /\ doing' = "count"
        /\ doing = "runs"
    BY <1>6, <1>7, <1>13 DEF ListRuns, Reads, Listed
  <2>2. on \in SUBSET Run /\ first \in SUBSET Run
    <3>1. shown.known \in SUBSET Run
      BY <1>2 DEF ShownType
    <3> QED BY <1>9, <3>1 DEF OnPage
  <2>3. \A w \in Listed(f) : w \notin on => Rank(f, w) \notin (p * PageSize)..((p + 1) * PageSize - 1)
    BY <1>9 DEF OnPage, Rank
  <2> HIDE DEF on
  <2>4. /\ shown' \in ShownType /\ shown'.rows = shown.rows /\ shown'.missing = {}
        /\ shown'.answer = "none" /\ shown'.page = p
        /\ shown'.runs = shown.runs \cup on /\ shown'.known = first
    <3> HIDE DEF first
    <3> QED BY <1>2, <1>7, <2>1, <2>2 DEF ShownType
  <2>5. ReaderTypeOK'
    BY <1>2, <1>3, <2>1, <2>4, StepType DEF PageSteps
  <2>6. ASSUME f.status # "passed" PROVE LaterPages(p + 1)'
    <3>1. p # 0 => LaterPages(p)
      BY <1>2, <1>6, <1>7, <2>1, <2>6 DEF ReaderInv, BetweenPages
    <3>2. first \subseteq Listed(f)
      BY <1>6, <3>1 DEF LaterPages
    <3>3. ASSUME NEW w \in first, w \notin shown.runs, w \notin on
          PROVE  (p + 1) * PageSize <= Rank(f, w)
      <4>1. w \in Listed(f) /\ Rank(f, w) \in Nat
        BY <1>10, <3>2, <3>3
      <4>2. p * PageSize <= Rank(f, w)
        <5>1. CASE p = 0
          BY <4>1, <5>1, <1>8
        <5>2. CASE p # 0
          BY <1>6, <3>1, <3>3, <5>2 DEF LaterPages
        <5> QED BY <5>1, <5>2
      <4>3. Rank(f, w) \notin (p * PageSize)..((p + 1) * PageSize - 1)
        BY <2>3, <3>3, <4>1
      <4> QED BY <1>8, <4>1, <4>2, <4>3
    <3> HIDE DEF first
    <3>4. shown'.known \subseteq Listed(asked.of)'
      BY <1>6, <1>12, <2>4, <3>2 DEF Listed, Matches
    <3>5. \A w \in shown'.known \ shown'.runs : (p + 1) * PageSize <= Rank(f, w)'
      BY <1>11, <2>4, <3>3
    <3>6. \A w : Rank(asked.of, w)' = Rank(f, w)'
      BY <1>6 DEF Rank, Listed, Matches
    <3> QED BY <3>4, <3>5, <3>6 DEF LaterPages
  <2>7. BetweenPages'
    <3> SUFFICES ASSUME asked'.of.status # "passed" PROVE LaterPages(shown.page + 1)'
      BY <2>1 DEF BetweenPages
    <3>1. LaterPages(p + 1)'
      BY <1>6, <2>6
    <3> QED BY <2>4, <3>1
  <2> QED BY <1>3, <1>4, <1>5, <2>4, <2>5, <2>7, RowsKept, UnansweredPages DEF ReaderInv
<1>14. CASE CountRuns
  <2> DEFINE total == Cardinality(Listed(f))
  <2>1. \/ /\ PageSize * (p + 1) < total
           /\ shown' = [shown EXCEPT !.page = p + 1] /\ doing' = "runs"
        \/ /\ ~(PageSize * (p + 1) < total)
           /\ shown' = [shown EXCEPT !.answer = "200"] /\ doing' = "answered"
    BY <1>6, <1>7, <1>14 DEF CountRuns, Reads, Answers, Listed
  <2>2. /\ shown' \in ShownType /\ shown'.rows = shown.rows /\ shown'.missing = {}
        /\ shown'.known = shown.known /\ shown'.runs = shown.runs
        /\ (doing' = "answered" <=> shown'.answer # "none")
    BY <1>2, <2>1 DEF ShownType
  <2>3. ReaderTypeOK'
    BY <1>2, <1>3, <2>1, <2>2, StepType DEF PageSteps
  <2>4. f.status # "passed" => LaterPages(p + 1)
    BY <1>2, <1>6, <1>7, <1>14 DEF ReaderInv, BetweenPages, CountRuns
  <2>5. \A w : Rank(asked.of, w)' = Rank(f, w)'
    BY <1>6 DEF Rank, Listed, Matches
  <2>6. BetweenPages'
    <3> SUFFICES ASSUME f.status # "passed", shown'.page = p + 1 PROVE LaterPages(p + 1)'
      <4>1. asked'.of.status # "passed" => f.status # "passed"
        BY <1>6
      <4>2. doing' = "runs" => shown'.page = p + 1
        BY <1>2, <2>1 DEF ShownType
      <4>3. doing' # "count"
        BY <2>1
      <4> QED BY <4>1, <4>2, <4>3 DEF BetweenPages
    <3>1. shown'.known \subseteq Listed(asked.of)'
      BY <1>6, <1>12, <2>2, <2>4 DEF LaterPages, Listed, Matches
    <3>2. \A w \in shown'.known \ shown'.runs : (p + 1) * PageSize <= Rank(f, w)'
      BY <1>6, <1>11, <2>2, <2>4 DEF LaterPages
    <3> QED BY <2>5, <3>1, <3>2 DEF LaterPages
  <2>7. PagingMissesNone'
    <3> SUFFICES ASSUME shown'.answer = "200", f.status # "passed",
                        NEW w \in shown.known, w \notin shown.runs
                 PROVE  FALSE
      BY <1>6, <2>2 DEF PagingMissesNone, Answered
    <3>1. ~(PageSize * (p + 1) < total)
      <4>1. [shown EXCEPT !.page = p + 1].answer = "none"
        BY <1>2 DEF ShownType
      <4> HIDE DEF total
      <4> QED BY <2>1, <4>1
    <3>2. w \in Listed(f) /\ (p + 1) * PageSize <= Rank(f, w)
      BY <1>6, <2>4 DEF LaterPages
    <3>3. Rank(f, w) \in Nat /\ total \in Nat /\ Rank(f, w) < total
      BY <3>2, RankInTotal DEF WritersInv
    <3> HIDE DEF total
    <3> QED BY <1>8, <3>1, <3>2, <3>3
  <2>8. FinalRowsShownWhole' /\ CellsShowTheirRepeat'
    BY <1>5
  <2> QED BY <1>3, <1>4, <1>5, <2>2, <2>3, <2>6, <2>7, RowsKept DEF ReaderInv
<1> QED BY <1>13, <1>14

-----------------------------------------------------------------------------
LEMMA ViewsInitInv ==
  Init => WritersInv /\ ReaderInv
<1> SUFFICES ASSUME Init PROVE WritersInv /\ ReaderInv
  OBVIOUS
<1>1. WritersTypeOK
  <2>1. NoRow \in RowType /\ NoRun \in [status : Verdict \cup {"absent"}, finished : BOOLEAN]
    BY DEF NoRow, RowType, NoRun
  <2> QED BY <2>1 DEF Init, WritersTypeOK, Stages
<1>2. ASSUME NEW w \in Run PROVE WriterInv(w)
  <2>1. at[w] = "idle" /\ runs[w] = NoRun /\ Saved(w) = {} /\ trials = {}
    BY <1>2 DEF Init, Saved
  <2>2. \A c \in Case : scenarios[<<w, c>>].status \notin Verdict
    BY <1>2 DEF Init, NoRow, Verdict
  <2> QED BY <2>1, <2>2 DEF WriterInv, RowFollows, BlobsFirst, SavedWhole, FinalRowsStand
<1>3. asked.page = "none" /\ doing = "asking" /\ shown = Blank
  BY DEF Init
<1>4. ReaderTypeOK
  <2>1. Blank \in ShownType /\ Blank.answer = "none"
    BY DEF Blank, ShownType
  <2> QED BY <1>3, <2>1 DEF ReaderTypeOK, PageSteps
<1>5. shown.rows = {} /\ shown.missing = {} /\ shown.answer = "none"
  BY <1>3 DEF Blank
<1> QED BY <1>1, <1>2, <1>3, <1>4, <1>5
      DEF WritersInv, ReaderInv, ShownRowsStand, BeforeTotals, BeforeFiles, BetweenPages,
          FinalRowsShownWhole, CellsShowTheirRepeat, PagesFindTheirBlobs, PagingMissesNone, Answered

LEMMA ViewsInvIsInductive ==
  WritersInv /\ ReaderInv /\ [Next]_vars => (WritersInv /\ ReaderInv)'
<1> SUFFICES ASSUME WritersInv, ReaderInv, [Next]_vars PROVE WritersInv' /\ ReaderInv'
  OBVIOUS
<1>1. CASE \E w \in Run : Writes(w)
  <2>1. PICK w \in Run : Writes(w)
    BY <1>1
  <2>2. Grown
    BY <2>1, WritesGrow
  <2> QED BY <2>1, <2>2, WritersKeep, ReaderUndisturbed
<1>2. CASE Asks
  <2>1. UNCHANGED <<writers, tables>>
    BY <1>2 DEF Asks, Ask
  <2>2. WritersInv'
    BY <2>1, ReadsOnly
  <2>3. ReaderInv'
    <3>1. ASSUME NEW w \in Run, Ask("scenarios", w) PROVE ReaderInv'
      BY <3>1, AskKeeps
    <3>2. ASSUME NEW of \in Run \X Job, Ask("trace", of) \/ Ask("trial", of) PROVE ReaderInv'
      BY <3>2, AskKeeps
    <3>3. ASSUME NEW ids \in SUBSET Experiment, Ask("compare", ids) PROVE ReaderInv'
      BY <3>3, AskKeeps
    <3>4. ASSUME NEW f \in Filters, Ask("runs", f) PROVE ReaderInv'
      BY <3>4, AskKeeps
    <3> QED BY <1>2, <3>1, <3>2, <3>3, <3>4 DEF Asks
  <2> QED BY <2>2, <2>3
<1>3. CASE Shows
  <2>1. UNCHANGED <<writers, tables>>
    BY <1>3 DEF Shows, CheckRun, ReadRowsThenRepeats, ReadTotals, CheckExperiments, ReadHeaders,
                ReadCellsThenRepeats, GetRepeat, GetTrial, LoadBlobs, ListErrorsAndTrials,
                ListRuns, CountRuns, Reads, Answers
  <2>2. WritersInv'
    BY <2>1, ReadsOnly
  <2>3. ReaderInv'
    BY <1>3, RunPageKeeps, ComparePageKeeps, FilePagesKeep, RunListKeeps DEF Shows
  <2> QED BY <2>2, <2>3
<1>4. CASE UNCHANGED vars
  <2>1. UNCHANGED <<writers, tables>> /\ Grown
    <3>1. UNCHANGED <<stamp, tried, trials, blobs, scenarios, repeats, runs, asked, doing, shown>>
      BY <1>4 DEF vars, writers, tables, reader
    <3>2. \A f : Listed(f)' = Listed(f)
      BY <3>1 DEF Listed, Matches
    <3>3. \A w : Saved(w)' = Saved(w)
      BY <3>1 DEF Saved
    <3> QED BY <1>4, <3>1, <3>2, <3>3 DEF Grown, vars
  <2> QED BY <2>1, ReadsOnly, ReaderUndisturbed
<1> QED BY <1>1, <1>2, <1>3, <1>4 DEF Next

LEMMA ViewsInvariance ==
  Spec => [](WritersInv /\ ReaderInv)
BY ViewsInitInv, ViewsInvIsInductive, PTL DEF Spec

(***************************************************************************)
(* Rows, repeats, trials and blob files keep their types, and a page is    *)
(* read by its own SELECTs in their order.                                 *)
(***************************************************************************)
THEOREM ViewsTypeCorrect ==
  Spec => [](WritersTypeOK /\ ReaderTypeOK)
<1>1. WritersInv /\ ReaderInv => WritersTypeOK /\ ReaderTypeOK
  BY DEF WritersInv, ReaderInv
<1> QED BY <1>1, ViewsInvariance, PTL

(***************************************************************************)
(* The page of a run shows a final row with all the repeats it counts, and *)
(* a fuzzed one with the trials of all of them or, where its probe left    *)
(* none to run, of none, whatever the processes write between its SELECTs. *)
(***************************************************************************)
THEOREM FinalRowsShownWholeHolds ==
  Spec => []FinalRowsShownWhole
<1>1. WritersInv /\ ReaderInv => FinalRowsShownWhole
  BY DEF ReaderInv
<1> QED BY <1>1, ViewsInvariance, PTL

(***************************************************************************)
(* compare shows a final cell with the last repeat of its row, which does  *)
(* not contradict it, however many runs its experiment has had.            *)
(***************************************************************************)
THEOREM CellsShowTheirRepeatHolds ==
  Spec => []CellsShowTheirRepeat
<1>1. WritersInv /\ ReaderInv => CellsShowTheirRepeat
  BY DEF ReaderInv
<1> QED BY <1>1, ViewsInvariance, PTL

(***************************************************************************)
(* The trace of a repeat and the page of a trial find the blob files their *)
(* rows name.                                                              *)
(***************************************************************************)
THEOREM PagesFindTheirBlobsHolds ==
  Spec => []PagesFindTheirBlobs
<1>1. WritersInv /\ ReaderInv => PagesFindTheirBlobs
  BY DEF ReaderInv
<1> QED BY <1>1, ViewsInvariance, PTL

(***************************************************************************)
(* The pages of the run list, turned one after the other while runs start, *)
(* miss no run that was listed at the beginning.                           *)
(***************************************************************************)
THEOREM PagingMissesNoneHolds ==
  Spec => []PagingMissesNone
<1>1. WritersInv /\ ReaderInv => PagingMissesNone
  BY DEF ReaderInv
<1> QED BY <1>1, ViewsInvariance, PTL

=============================================================================
