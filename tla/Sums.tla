-------------------------------- MODULE Sums --------------------------------
(***************************************************************************)
(* Induction over the natural numbers, by way of a set, and what it says   *)
(* of functions defined by recursion and of sums over a sequence.          *)
(***************************************************************************)
EXTENDS Total, Integers, SequenceTheorems, WellFoundedInduction, TLAPS

\* A set of natural numbers that is not empty has a least element.
LEMMA Least ==
    ASSUME NEW S \in SUBSET Nat, S # {}
    PROVE  \E m \in S : \A y \in S : m <= y
<1> DEFINE R == OpToRel(<, Nat)
<1>1. IsWellFoundedOn(R, Nat)
  BY NatLessThanWellFounded
<1>2. \A x, y \in Nat : <<x, y>> \in R <=> x < y
  BY DEF OpToRel
<1>3. PICK m \in S : \A y \in S : ~(<<y, m>> \in R)
  <2> HIDE DEF R
  <2> QED BY <1>1, WFMin
<1> HIDE DEF R
<1>4. ASSUME NEW y \in S PROVE m <= y
  <2>1. m \in Nat /\ y \in Nat /\ ~(y < m)
    BY <1>2, <1>3
  <2> QED BY <2>1
<1> QED BY <1>4

\* A set that holds 0, and with each number the next, holds them all.
LEMMA Induction ==
    ASSUME NEW S \in SUBSET Nat, 0 \in S, \A n \in S : n + 1 \in S
    PROVE  S = Nat
<1> DEFINE T == Nat \ S
<1>1. SUFFICES ASSUME T # {} PROVE FALSE
  OBVIOUS
<1>2. PICK m \in T : \A y \in T : m <= y
  <2>1. T \in SUBSET Nat
    OBVIOUS
  <2> HIDE DEF T
  <2> QED BY <1>1, <2>1, Least
<1>3. m # 0 /\ m - 1 \in Nat /\ (m - 1) + 1 = m
  OBVIOUS
<1>4. m - 1 \notin T
  <2> HIDE DEF T
  <2> QED BY <1>2, <1>3
<1> QED BY <1>3, <1>4

\* The same up to a bound.
LEMMA InductionUpTo ==
    ASSUME NEW n \in Nat, NEW S, 0 \in S, \A i \in 0..n - 1 : i \in S => i + 1 \in S
    PROVE  0..n \subseteq S
<1> DEFINE T == {i \in Nat : i \in 0..n => i \in S}
<1>1. 0 \in T
  OBVIOUS
<1>2. ASSUME NEW i \in T PROVE i + 1 \in T
  <2>1. CASE i + 1 \in 0..n
    <3>1. i \in Nat /\ i \in 0..n - 1 /\ i \in 0..n
      BY <2>1
    <3> QED BY <3>1
  <2> QED BY <2>1
<1>3. T = Nat
  <2> HIDE DEF T
  <2>1. T \in SUBSET Nat
    BY DEF T
  <2> QED BY <1>1, <1>2, <2>1, Induction
<1> QED BY <1>3

\* A function of 0..n is given by its first value and a rule for the next.
Recurs(n, V, c, step) ==
    \E f \in [0..n -> V] : f[0] = c /\ \A i \in 1..n : f[i] = step[i][f[i - 1]]

LEMMA Recursion ==
    ASSUME NEW n \in Nat, NEW V, NEW c \in V, NEW step \in [1..n -> [V -> V]]
    PROVE  Recurs(n, V, c, step)
<1> DEFINE Good(k, f) == f \in [0..k -> V] /\ f[0] = c /\ \A i \in 1..k : f[i] = step[i][f[i - 1]]
           S == {k \in 0..n : \E f : Good(k, f)}
<1>1. 0 \in S
  <2>1. Good(0, [i \in 0..0 |-> c])
    OBVIOUS
  <2> HIDE DEF Good
  <2> QED BY <2>1
<1>2. \A k \in 0..n - 1 : k \in S => k + 1 \in S
  <2> SUFFICES ASSUME NEW k \in 0..n - 1, k \in S PROVE k + 1 \in S
    OBVIOUS
  <2>1. PICK f : Good(k, f)
    <3> HIDE DEF Good
    <3> QED OBVIOUS
  <2> DEFINE g == [i \in 0..k + 1 |-> IF i = k + 1 THEN step[k + 1][f[k]] ELSE f[i]]
  <2>2. k + 1 \in 1..n /\ step[k + 1] \in [V -> V] /\ f[k] \in V /\ k + 1 \in 0..n
    BY <2>1
  <2>3. g \in [0..k + 1 -> V]
    BY <2>1, <2>2
  <2>4. g[0] = c
    BY <2>1
  <2>5. ASSUME NEW i \in 1..k + 1 PROVE g[i] = step[i][g[i - 1]]
    <3>1. CASE i = k + 1
      BY <3>1
    <3>2. CASE i # k + 1
      <4>1. i \in 1..k /\ g[i] = f[i] /\ g[i - 1] = f[i - 1]
        BY <3>2
      <4> QED BY <2>1, <4>1
    <3> QED BY <3>1, <3>2
  <2>6. Good(k + 1, g)
    <3> HIDE DEF g
    <3> QED BY <2>3, <2>4, <2>5
  <2> HIDE DEF Good
  <2> QED BY <2>2, <2>6
<1>3. 0..n \subseteq S
  <2> HIDE DEF S
  <2> QED BY <1>1, <1>2, InductionUpTo
<1>4. PICK f : Good(n, f)
  <2> HIDE DEF Good
  <2>1. n \in 0..n
    OBVIOUS
  <2> QED BY <1>3, <2>1
<1> QED BY <1>4 DEF Recurs

-----------------------------------------------------------------------------
(* Total.                                                                  *)

Running(a, s) == s \in [0..Len(a) -> Nat] /\ s[0] = 0 /\ \A i \in 1..Len(a) : s[i] = s[i - 1] + a[i]

\* Total is the end of a running sum, and there is one such sum only.
LEMMA TotalIs ==
    ASSUME NEW a \in Seq(Nat)
    PROVE  /\ \E s : Running(a, s)
           /\ \A s : Running(a, s) => Total(a) = s[Len(a)]
<1> DEFINE Body(s) == [i \in 0..Len(a) |-> IF i = 0 THEN 0 ELSE s[i - 1] + a[i]]
<1>0. Len(a) \in Nat /\ \A i \in 1..Len(a) : a[i] \in Nat
  OBVIOUS
<1>1. PICK s0 : Running(a, s0)
  <2> DEFINE n    == Len(a)
             step == [i \in 1..n |-> [v \in Nat |-> v + a[i]]]
  <2>1. n \in Nat /\ step \in [1..n -> [Nat -> Nat]] /\ 0 \in Nat
    BY <1>0
  <2>2. \A i \in 1..n, v \in Nat : step[i][v] = v + a[i]
    OBVIOUS
  <2>3. PICK s \in [0..n -> Nat] : s[0] = 0 /\ \A i \in 1..n : s[i] = step[i][s[i - 1]]
    <3>1. Recurs(n, Nat, 0, step)
      <4> HIDE DEF step, n
      <4> QED BY <2>1, Recursion, Zenon
    <3> QED BY <3>1 DEF Recurs
  <2>4. \A i \in 1..n : s[i] = s[i - 1] + a[i]
    <3> HIDE DEF step
    <3> SUFFICES ASSUME NEW i \in 1..n PROVE s[i] = s[i - 1] + a[i]
      OBVIOUS
    <3>1. s[i - 1] \in Nat
      BY SMTT(30), <1>0
    <3> QED BY <2>2, <2>3, <3>1
  <2> QED BY <2>3, <2>4 DEF Running
<1>2. ASSUME NEW s, Running(a, s) PROVE s = Body(s)
  BY <1>0, <1>2 DEF Running
<1>3. ASSUME NEW s, NEW r, s = Body(s), Running(a, r) PROVE s[Len(a)] = r[Len(a)]
  <2> DEFINE S == {i \in 0..Len(a) : s[i] = r[i]}
  <2>1. 0 \in S
    BY <1>0, <1>3 DEF Running
  <2>2. ASSUME NEW i \in 0..Len(a) - 1, i \in S PROVE i + 1 \in S
    BY <1>0, <1>3, <2>2 DEF Running
  <2>3. 0..Len(a) \subseteq S
    <3> HIDE DEF S
    <3> QED BY <1>0, <2>1, <2>2, InductionUpTo
  <2> QED BY <1>0, <2>3
<1>4. ASSUME NEW r, Running(a, r) PROVE Total(a) = r[Len(a)]
  <2> DEFINE s == CHOOSE f : f = Body(f)
  <2>1. s = Body(s)
    BY <1>1, <1>2
  <2>2. Total(a) = s[Len(a)]
    BY DEF Total
  <2> HIDE DEF s
  <2> QED BY <1>3, <1>4, <2>1, <2>2
<1> QED BY <1>1, <1>4

LEMMA TotalNat ==
    ASSUME NEW a \in Seq(Nat) PROVE Total(a) \in Nat
<1>1. Len(a) \in Nat
  OBVIOUS
<1>2. PICK s : Running(a, s)
  BY TotalIs
<1> QED BY <1>1, <1>2, TotalIs DEF Running

LEMMA TotalEmpty == Total(<<>>) = 0
<1>1. <<>> \in Seq(Nat) /\ Len(<<>>) = 0
  OBVIOUS
<1>2. PICK s : Running(<<>>, s)
  BY <1>1, TotalIs
<1> QED BY <1>1, <1>2, TotalIs DEF Running

LEMMA TotalAppend ==
    ASSUME NEW a \in Seq(Nat), NEW n \in Nat
    PROVE  Total(Append(a, n)) = Total(a) + n
<1> DEFINE b == Append(a, n)
<1>1. /\ Len(a) \in Nat /\ b \in Seq(Nat) /\ Len(b) = Len(a) + 1
      /\ \A i \in 1..Len(a) : b[i] = a[i]
      /\ b[Len(a) + 1] = n
  OBVIOUS
<1>2. PICK s : Running(b, s)
  BY <1>1, TotalIs
<1> HIDE DEF b
<1> DEFINE r == [i \in 0..Len(a) |-> s[i]]
<1>3. Running(a, r)
  BY <1>1, <1>2 DEF Running
<1>4. Total(a) = r[Len(a)]
  <2> HIDE DEF r
  <2> QED BY <1>3, TotalIs
<1>5. Total(b) = s[Len(a) + 1]
  BY <1>1, <1>2, TotalIs
<1>6. s[Len(a) + 1] = s[Len(a)] + n
  BY <1>1, <1>2 DEF Running
<1> QED BY <1>1, <1>4, <1>5, <1>6 DEF b

LEMMA TotalTail ==
    ASSUME NEW a \in Seq(Nat), a # <<>>
    PROVE  Total(a) = a[1] + Total(Tail(a))
<1> DEFINE b == Tail(a)
<1>1. /\ Len(a) \in Nat \ {0} /\ b \in Seq(Nat) /\ Len(b) = Len(a) - 1 /\ a[1] \in Nat
      /\ \A i \in 1..Len(b) : b[i] = a[i + 1]
  OBVIOUS
<1>2. PICK s : Running(b, s)
  BY <1>1, TotalIs
<1> HIDE DEF b
<1> DEFINE r == [i \in 0..Len(a) |-> IF i = 0 THEN 0 ELSE a[1] + s[i - 1]]
<1>3. Running(a, r)
  <2>0. s \in [0..Len(b) -> Nat] /\ s[0] = 0 /\ \A i \in 1..Len(b) : s[i] = s[i - 1] + b[i]
    BY <1>2 DEF Running
  <2>1. r \in [0..Len(a) -> Nat] /\ r[0] = 0
    <3>1. ASSUME NEW i \in 0..Len(a), i # 0 PROVE a[1] + s[i - 1] \in Nat
      <4>1. i - 1 \in 0..Len(b)
        BY <1>1, <3>1
      <4>2. s[i - 1] \in Nat
        BY <2>0, <4>1
      <4> QED BY <1>1, <4>2
    <3> QED BY <1>1, <3>1
  <2>2. ASSUME NEW i \in 1..Len(a) PROVE r[i] = r[i - 1] + a[i]
    <3>1. CASE i = 1
      BY <1>1, <2>0, <3>1
    <3>2. CASE i # 1
      <4> DEFINE k == i - 1
      <4>1. k \in 1..Len(b) /\ b[k] = a[i] /\ k - 1 \in 0..Len(b) /\ b[k] \in Nat /\ i - 1 = k
        BY SMTT(30), <1>1, <3>2
      <4>2. s[k] = s[k - 1] + b[k] /\ s[k - 1] \in Nat
        <5> HIDE DEF k
        <5> QED BY <2>0, <4>1
      <4>3. r[i] = a[1] + s[k] /\ r[i - 1] = a[1] + s[k - 1]
        BY <1>1, <3>2
      <4> HIDE DEF k, r
      <4> QED BY SMTT(30), <1>1, <4>1, <4>2, <4>3
    <3> QED BY <3>1, <3>2
  <2> HIDE DEF r
  <2> QED BY <2>1, <2>2 DEF Running
<1>4. Total(a) = r[Len(a)]
  <2> HIDE DEF r
  <2> QED BY <1>3, TotalIs
<1>5. Total(b) = s[Len(b)]
  BY <1>1, <1>2, TotalIs
<1> QED BY <1>1, <1>4, <1>5 DEF b

\* A sum of nothing but zeros.
LEMMA TotalZero ==
    ASSUME NEW a \in Seq(Nat), \A i \in 1..Len(a) : a[i] = 0
    PROVE  Total(a) = 0
<1>1. Len(a) \in Nat
  OBVIOUS
<1>2. PICK s : Running(a, s)
  BY TotalIs
<1> DEFINE S == {i \in 0..Len(a) : s[i] = 0}
<1>3. 0 \in S
  BY <1>1, <1>2 DEF Running
<1>4. ASSUME NEW i \in 0..Len(a) - 1, i \in S PROVE i + 1 \in S
  BY <1>1, <1>2, <1>4 DEF Running
<1>5. 0..Len(a) \subseteq S
  <2> HIDE DEF S
  <2> QED BY <1>1, <1>3, <1>4, InductionUpTo
<1> QED BY <1>1, <1>2, <1>5, TotalIs

-----------------------------------------------------------------------------
(* Weights.                                                                *)

\* What the elements of a sequence weigh together.
Weights(s, w) == [i \in 1..Len(s) |-> w[s[i]]]
Weigh(s, w) == Total(Weights(s, w))

LEMMA WeightsAre ==
    ASSUME NEW E, NEW s \in Seq(E), NEW w \in [E -> Nat]
    PROVE  /\ Weights(s, w) \in Seq(Nat) /\ Len(Weights(s, w)) = Len(s) /\ Len(s) \in Nat
           /\ \A i \in 1..Len(s) : s[i] \in E /\ Weights(s, w)[i] = w[s[i]]
<1>1. \A i \in 1..Len(s) : s[i] \in E /\ w[s[i]] \in Nat
  OBVIOUS
<1> QED BY <1>1 DEF Weights

LEMMA WeighNat ==
    ASSUME NEW E, NEW s \in Seq(E), NEW w \in [E -> Nat] PROVE Weigh(s, w) \in Nat
BY WeightsAre, TotalNat DEF Weigh

LEMMA WeighEmpty == ASSUME NEW w PROVE Weigh(<<>>, w) = 0
<1>1. Weights(<<>>, w) = <<>>
  BY DEF Weights
<1> QED BY <1>1, TotalEmpty DEF Weigh

LEMMA WeighNothing ==
    ASSUME NEW E, NEW s \in Seq(E), NEW w \in [E -> Nat], \A i \in 1..Len(s) : w[s[i]] = 0
    PROVE  Weigh(s, w) = 0
BY WeightsAre, TotalZero DEF Weigh

LEMMA WeighAppend ==
    ASSUME NEW E, NEW s \in Seq(E), NEW w \in [E -> Nat], NEW e \in E
    PROVE  Weigh(Append(s, e), w) = Weigh(s, w) + w[e]
<1> DEFINE r == Append(s, e)
           a == Weights(s, w)
           b == Weights(r, w)
           n == w[e]
<1>1. /\ r \in Seq(E) /\ Len(r) = Len(s) + 1 /\ n \in Nat
      /\ \A i \in 1..Len(s) : r[i] = s[i]
      /\ r[Len(s) + 1] = e
  OBVIOUS
<1>2. a \in Seq(Nat) /\ Len(a) = Len(s) /\ Len(s) \in Nat /\ \A i \in 1..Len(s) : a[i] = w[s[i]]
  BY WeightsAre
<1>3. b \in Seq(Nat) /\ Len(b) = Len(r) /\ \A i \in 1..Len(r) : b[i] = w[r[i]]
  <2>1. r \in Seq(E)
    BY <1>1
  <2> HIDE DEF r
  <2> QED BY <2>1, WeightsAre
<1>4. w[r[Len(s) + 1]] = n
  BY <1>1
<1> HIDE DEF r, a, b, n
<1>5. /\ Append(a, n) \in Seq(Nat) /\ Len(Append(a, n)) = Len(s) + 1
      /\ \A i \in 1..Len(s) : Append(a, n)[i] = a[i]
      /\ Append(a, n)[Len(s) + 1] = n
  BY <1>1, <1>2
<1>6. ASSUME NEW i \in 1..Len(b) PROVE b[i] = Append(a, n)[i]
  <2>1. i \in 1..Len(s) \/ i = Len(s) + 1
    BY <1>1, <1>2, <1>3
  <2>2. CASE i \in 1..Len(s)
    <3>1. r[i] = s[i] /\ i \in 1..Len(r)
      <4>1. \A j \in 1..Len(s) : r[j] = s[j]
        BY <1>1
      <4>2. Len(r) = Len(s) + 1 /\ Len(s) \in Nat
        BY <1>1, <1>2
      <4> QED BY <2>2, <4>1, <4>2
    <3>2. a[i] = w[s[i]] /\ b[i] = w[r[i]] /\ Append(a, n)[i] = a[i]
      BY <1>2, <1>3, <1>5, <2>2, <3>1
    <3> QED BY <3>1, <3>2
  <2>3. CASE i = Len(s) + 1
    BY <1>1, <1>2, <1>3, <1>4, <1>5, <2>3
  <2> QED BY <2>1, <2>2, <2>3
<1>7. b = Append(a, n)
  BY <1>1, <1>3, <1>5, <1>6, SeqEqual
<1>8. Total(Append(a, n)) = Total(a) + n
  BY <1>1, <1>2, TotalAppend
<1> QED BY <1>7, <1>8 DEF Weigh, r, a, b, n

LEMMA WeighTail ==
    ASSUME NEW E, NEW s \in Seq(E), s # <<>>, NEW w \in [E -> Nat]
    PROVE  Weigh(s, w) = w[Head(s)] + Weigh(Tail(s), w)
<1> DEFINE r == Tail(s)
           a == Weights(s, w)
           b == Weights(r, w)
<1>1. /\ r \in Seq(E) /\ Len(r) = Len(s) - 1 /\ Len(s) > 0
      /\ \A i \in 1..Len(s) - 1 : r[i] = s[i + 1]
      /\ Head(s) = s[1]
  OBVIOUS
<1>2. a \in Seq(Nat) /\ Len(a) = Len(s) /\ Len(s) \in Nat /\ \A i \in 1..Len(s) : a[i] = w[s[i]]
  BY WeightsAre
<1>3. b \in Seq(Nat) /\ Len(b) = Len(r) /\ \A i \in 1..Len(r) : b[i] = w[r[i]]
  <2>1. r \in Seq(E)
    BY <1>1
  <2> HIDE DEF r
  <2> QED BY <2>1, WeightsAre
<1> HIDE DEF r, a, b
<1>4. /\ a # <<>> /\ Tail(a) \in Seq(Nat) /\ Len(Tail(a)) = Len(s) - 1
      /\ \A i \in 1..Len(s) - 1 : Tail(a)[i] = a[i + 1]
  BY <1>1, <1>2
<1>5. ASSUME NEW i \in 1..Len(b) PROVE b[i] = Tail(a)[i]
  <2>1. i \in 1..Len(s) - 1 /\ i \in 1..Len(r) /\ i + 1 \in 1..Len(s)
    BY <1>1, <1>2, <1>3
  <2> QED BY <1>1, <1>2, <1>3, <1>4, <2>1
<1>6. b = Tail(a)
  BY <1>1, <1>3, <1>4, <1>5, SeqEqual
<1>7. a[1] = w[Head(s)]
  BY <1>1, <1>2
<1>8. Total(a) = a[1] + Total(Tail(a))
  BY <1>2, <1>4, TotalTail
<1> QED BY <1>6, <1>7, <1>8 DEF Weigh, r, a, b
=============================================================================
