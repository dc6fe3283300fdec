--------------------------- MODULE GenerateProofs ---------------------------
(***************************************************************************)
(* Proofs about Generate, for files, prompts, limits and logits of any     *)
(* kind.  GenerateInd is inductive.  It is made of what the parser and the *)
(* loader leave behind (ParsedInd: integers where the model reads          *)
(* integers; WeightInd: both contexts see all that was loaded), of what    *)
(* main counts (MainInd), of the cache and the weights of a run (RunInd),  *)
(* and of the rows of the cache (CacheHoldsTokens).  StoreInd, on top of   *)
(* it, is about the storage of the weights.  What a recursive function of  *)
(* Sampler comes to is shown at the least index at which it would fail.    *)
(***************************************************************************)
EXTENDS Generate, SetFacts, SequenceTheorems

-----------------------------------------------------------------------------
(* Sampling: the penalty, the masses, and the filters over a sorted list. *)

\* The logits after each of the first n tokens of the input.
PenaltyRun(lg, ids, n, g) ==
    g = [i \in 0..n |-> IF i = 0 THEN lg ELSE [g[i - 1] EXCEPT ![ids[i]] = penalised_once(@)]]

\* There is such a run of any length.
LEMMA PenaltyRunExists ==
  ASSUME NEW lg, NEW ids, NEW n \in Nat
  PROVE  \E g : PenaltyRun(lg, ids, n, g)
<1> DEFINE Bad == {k \in Nat : ~\E g : PenaltyRun(lg, ids, k, g)}
<1> SUFFICES ASSUME Bad # {} PROVE FALSE
  OBVIOUS
<1>1. Min(Bad) \in Bad /\ \A x \in Bad : Min(Bad) <= x
  BY LeastElement, Bad \in SUBSET Nat, Zenon
<1> DEFINE m == Min(Bad)
<1>2. m \in Nat /\ ~\E g : PenaltyRun(lg, ids, m, g)
  BY <1>1
<1>3. CASE m = 0
  <2>1. PenaltyRun(lg, ids, 0, [i \in 0..0 |-> lg])
    BY DEF PenaltyRun
  <2> QED BY <2>1, <1>2, <1>3
<1>4. CASE m # 0
  <2>1. m - 1 \in Nat /\ m - 1 \notin Bad
    BY <1>1, <1>2, <1>4, SMTT(20)
  <2>2. PICK g : PenaltyRun(lg, ids, m - 1, g)
    BY <2>1
  <2> HIDE DEF m, Bad
  <2> DEFINE last == [g[m - 1] EXCEPT ![ids[m]] = penalised_once(@)]
             h == [i \in 0..m |-> IF i = m THEN last ELSE g[i]]
  <2>3. h[m] = last /\ \A i \in 0..(m - 1) : h[i] = g[i]
    BY <1>2, <1>4
  <2>4. \A i \in 0..(m - 1) : g[i] = IF i = 0 THEN lg ELSE [g[i - 1] EXCEPT ![ids[i]] = penalised_once(@)]
    BY <2>2 DEF PenaltyRun
  <2>5. ASSUME NEW i \in 0..m
        PROVE  h[i] = IF i = 0 THEN lg ELSE [h[i - 1] EXCEPT ![ids[i]] = penalised_once(@)]
    <3>1. CASE i = m
      <4>1. i # 0 /\ i - 1 \in 0..(m - 1) /\ h[i - 1] = g[i - 1]
        BY <3>1, <1>2, <1>4, <2>3
      <4> HIDE DEF h
      <4> QED BY <4>1, <3>1, <2>3
    <3>2. CASE i # m /\ i # 0
      <4>1. i \in 0..(m - 1) /\ i - 1 \in 0..(m - 1)
        BY <3>2, <1>2
      <4> HIDE DEF h
      <4> QED BY <4>1, <3>2, <2>3, <2>4
    <3>3. CASE i # m /\ i = 0
      <4>1. i \in 0..(m - 1)
        BY <3>3, <1>2
      <4> HIDE DEF h
      <4> QED BY <4>1, <3>3, <2>3, <2>4
    <3> QED BY <3>1, <3>2, <3>3
  <2>6. PenaltyRun(lg, ids, m, h)
    <3> DEFINE B(i) == IF i = 0 THEN lg ELSE [h[i - 1] EXCEPT ![ids[i]] = penalised_once(@)]
    <3>1. h = [i \in 0..m |-> h[i]]
      OBVIOUS
    <3>2. \A i \in 0..m : h[i] = B(i)
      BY <2>5
    <3> HIDE DEF h
    <3>3. h = [i \in 0..m |-> B(i)]
      <4> HIDE DEF B
      <4> QED BY <3>1, <3>2, Zenon
    <3> QED BY <3>3 DEF PenaltyRun
  <2> QED BY <2>6, <1>2
<1> QED BY <1>3, <1>4

\* The penalty changes logits of the vocabulary and adds none to it.
LEMMA PenaltyKeepsVocabulary ==
  ASSUME NEW lg, NEW ids \in Seq(Nat)
  PROVE  DOMAIN Penalised(lg, ids) = DOMAIN lg
<1> DEFINE n == Len(ids)
           l == CHOOSE g : PenaltyRun(lg, ids, n, g)
<1>1. n \in Nat
  OBVIOUS
<1>2. PenaltyRun(lg, ids, n, l)
  BY <1>1, PenaltyRunExists, Zenon
<1>3. Penalised(lg, ids) = l[n]
  BY DEF Penalised, PenaltyRun
<1> HIDE DEF n, l
<1> DEFINE Bad == {i \in 0..n : DOMAIN l[i] # DOMAIN lg}
<1>4. Bad = {}
  <2> SUFFICES ASSUME Bad # {} PROVE FALSE
    OBVIOUS
  <2>1. Bad \in SUBSET Nat
    BY <1>1
  <2> DEFINE m == Min(Bad)
  <2>2. m \in Bad /\ \A x \in Bad : m <= x
    BY <2>1, LeastElement, Zenon
  <2>3. m \in 0..n /\ DOMAIN l[m] # DOMAIN lg
    BY <2>2
  <2>4. l[m] = IF m = 0 THEN lg ELSE [l[m - 1] EXCEPT ![ids[m]] = penalised_once(@)]
    <3> HIDE DEF m, Bad
    <3> QED BY <2>3, <1>2 DEF PenaltyRun
  <2>5. m # 0 /\ m - 1 \in 0..n /\ m - 1 \notin Bad
    <3>1. m # 0
      <4> HIDE DEF m, Bad
      <4> QED BY <2>3, <2>4
    <3>2. m - 1 \in 0..n /\ ~(m <= m - 1)
      <4> HIDE DEF m, Bad
      <4> QED BY <3>1, <2>3, <1>1
    <3> HIDE DEF m, Bad
    <3> QED BY <3>1, <3>2, <2>2
  <2>6. DOMAIN l[m - 1] = DOMAIN lg
    BY <2>5
  <2> HIDE DEF m, Bad
  <2> QED BY <2>3, <2>4, <2>5, <2>6
<1> QED BY <1>1, <1>3, <1>4

\* The powers up to that of n, as PowerOfTwo makes them and step by step.
PowersTo(g, n) == g = [i \in 0..n |-> IF i = 0 THEN 1 ELSE 2 * g[i - 1]]
Doubling(f, n) == f \in [0..n -> Nat \ {0}] /\ f[0] = 1 /\ \A i \in 1..n : f[i] = 2 * f[i - 1]

\* Powers are the same however many are taken.
LEMMA PowersAgree ==
  ASSUME NEW n \in Nat, NEW f, Doubling(f, n), NEW k \in 0..n, NEW g, PowersTo(g, k)
  PROVE  g[k] = f[k]
<1> DEFINE Bad == {i \in 0..k : g[i] # f[i]}
<1>1. \A i \in 0..k : g[i] = IF i = 0 THEN 1 ELSE 2 * g[i - 1]
  BY DEF PowersTo
<1>2. ASSUME Bad # {} PROVE FALSE
  <2>1. Bad \in SUBSET Nat
    OBVIOUS
  <2>2. PICK i \in Bad : \A j \in Bad : i <= j
    <3> HIDE DEF Bad
    <3> QED BY <1>2, <2>1, LeastElement
  <2>3. i \in 0..k /\ g[i] # f[i]
    OBVIOUS
  <2>4. i # 0
    BY <1>1, <2>3 DEF Doubling
  <2>5. i - 1 \in 0..k /\ ~(i <= i - 1) /\ i \in 1..n
    BY <2>3, <2>4
  <2>6. g[i - 1] = f[i - 1]
    BY <2>2, <2>5
  <2> QED BY <1>1, <2>3, <2>4, <2>5, <2>6 DEF Doubling
<1>3. k \in 0..k
  OBVIOUS
<1> QED BY <1>2, <1>3

\* PowerOfTwo doubles with each step.
LEMMA Powers ==
  ASSUME NEW n \in Nat
  PROVE  \E f : Doubling(f, n) /\ \A k \in 0..n : PowerOfTwo(k) = f[k]
<1>1. PICK f : Doubling(f, n)
  <2> DEFINE double == [x \in Nat \ {0} |-> 2 * x]
             steps == [i \in 1..n |-> double]
  <2>1. steps \in [1..n -> [Nat \ {0} -> Nat \ {0}]] /\ \A i \in 1..n, x \in Nat \ {0} : steps[i][x] = 2 * x
    OBVIOUS
  <2> HIDE DEF steps
  <2>2. \E g : IsRun(g, Nat \ {0}, n, 1, steps)
    BY <2>1, 1 \in Nat \ {0}, RunExists, Zenon
  <2>3. PICK g : IsRun(g, Nat \ {0}, n, 1, steps)
    BY <2>2
  <2>4. ASSUME NEW i \in 1..n PROVE g[i] = 2 * g[i - 1]
    <3>1. i - 1 \in 0..n
      OBVIOUS
    <3> QED BY <2>1, <2>3, <3>1 DEF IsRun
  <2>5. Doubling(g, n)
    BY <2>3, <2>4 DEF IsRun, Doubling
  <2> QED BY <2>5
<1>2. ASSUME NEW k \in 0..n PROVE PowerOfTwo(k) = f[k]
  <2> DEFINE h == [i \in 0..k |-> f[i]]
  <2>1. \A i \in 0..k : h[i] = IF i = 0 THEN 1 ELSE 2 * h[i - 1]
    <3>1. \A i \in 0..k : h[i] = f[i]
      OBVIOUS
    <3>2. \A i \in 0..k : i \in 0..n /\ (i # 0 => i \in 1..n /\ i - 1 \in 0..k)
      OBVIOUS
    <3> HIDE DEF h
    <3> QED BY <3>1, <3>2, <1>1 DEF Doubling
  <2>2. h = [i \in 0..k |-> h[i]]
    OBVIOUS
  <2> HIDE DEF h
  <2>3. PowersTo(h, k)
    BY <2>1, <2>2 DEF PowersTo
  <2> DEFINE g == CHOOSE g : PowersTo(g, k)
  <2>4. PowersTo(g, k)
    BY <2>3
  <2>5. PowerOfTwo(k) = g[k]
    BY DEF PowerOfTwo, PowersTo
  <2> HIDE DEF g
  <2> QED BY <1>1, <2>4, <2>5, PowersAgree
<1> QED BY <1>1, <1>2

\* How often t was seen in the first tokens of the input.
Counting(c, ids, t) == /\ c \in [0..Len(ids) -> 0..Len(ids)] /\ c[0] = 0
                       /\ \A i \in 1..Len(ids) : c[i] = IF ids[i] = t THEN c[i - 1] + 1 ELSE c[i - 1]
                       /\ c[Len(ids)] = SeenTimes(t, ids)

\* The count grows by one with each occurrence and ends with SeenTimes.
LEMMA SeenGrows ==
  ASSUME NEW ids \in Seq(Nat), NEW t
  PROVE  \E c : Counting(c, ids, t)
<1> DEFINE n == Len(ids)
           seen(k) == {i \in 1..k : ids[i] = t}
           c == [k \in 0..n |-> Cardinality(seen(k))]
<1>1. n \in Nat /\ DOMAIN ids = 1..n
  OBVIOUS
<1> HIDE DEF n
<1>2. ASSUME NEW k \in 0..n
      PROVE  IsFiniteSet(seen(k)) /\ Cardinality(seen(k)) \in 0..n
  <2>1. IsFiniteSet(1..n) /\ Cardinality(1..n) = n
    BY <1>1, FS_Interval
  <2>2. seen(k) \subseteq 1..n
    BY <1>1
  <2>3. IsFiniteSet(seen(k)) /\ Cardinality(seen(k)) <= Cardinality(1..n)
    BY <2>1, <2>2, FS_Subset
  <2>4. Cardinality(seen(k)) \in Nat
    BY <2>3, FS_CardinalityType
  <2> HIDE DEF seen
  <2> QED BY <1>1, <2>1, <2>3, <2>4
<1>3. c[0] = 0 /\ c \in [0..n -> 0..n]
  <2>1. seen(0) = {}
    OBVIOUS
  <2>2. Cardinality(seen(0)) = 0
    BY <2>1, FS_EmptySet
  <2> HIDE DEF seen
  <2> QED BY <1>1, <1>2, <2>2
<1>4. ASSUME NEW i \in 1..n PROVE c[i] = IF ids[i] = t THEN c[i - 1] + 1 ELSE c[i - 1]
  <2>1. i \in 0..n /\ i - 1 \in 0..n
    BY <1>1
  <2>2. c[i] = Cardinality(seen(i)) /\ c[i - 1] = Cardinality(seen(i - 1))
    BY <2>1
  <2>3. CASE ids[i] = t
    <3>1. seen(i) = seen(i - 1) \cup {i} /\ i \notin seen(i - 1)
      BY <2>3, <1>1
    <3>2. Cardinality(seen(i - 1) \cup {i}) = Cardinality(seen(i - 1)) + 1
      BY <3>1, <2>1, <1>2, FS_AddElement
    <3> QED BY <3>1, <3>2, <2>2, <2>3
  <2>4. CASE ids[i] # t
    <3>1. seen(i) = seen(i - 1)
      BY <2>4, <1>1
    <3> QED BY <3>1, <2>2, <2>4
  <2> QED BY <2>3, <2>4
<1>5. c[n] = SeenTimes(t, ids)
  <2>1. seen(n) = {i \in DOMAIN ids : ids[i] = t}
    BY <1>1
  <2> QED BY <2>1, <1>1 DEF SeenTimes
<1> HIDE DEF c
<1>6. Counting(c, ids, t)
  BY <1>3, <1>4, <1>5 DEF Counting, n
<1> QED BY <1>6

\* A logit after the penalty for c, a power of two.
Scaled(x, c) == IF x > 0 THEN x \div c ELSE x * c

\* The penalty scales by twice as much.
LEMMA ScaledTwice ==
  ASSUME NEW x \in Int, NEW c \in Nat \ {0}
  PROVE  penalised_once(Scaled(x, c)) = Scaled(x, 2 * c)
<1>1. CASE x > 0
  <2>1. x \div c \in Int /\ (x \div c) \div 2 = x \div (2 * c) /\ x \div c >= 0
    BY <1>1, SMTT(30)
  <2>2. PICK y \in Nat, z \in Int : y = x \div c /\ z = x \div (2 * c) /\ y \div 2 = z
    BY <2>1
  <2>3. y = 0 => z = 0
    BY <2>2
  <2> QED BY <1>1, <2>2, <2>3 DEF Scaled, penalised_once
<1>2. CASE ~(x > 0)
  <2>1. x * c \in Int /\ x * c <= 0
    BY <1>2
  <2>2. (x * c) * 2 = x * (2 * c)
    OBVIOUS
  <2> QED BY <1>2, <2>1, <2>2 DEF Scaled, penalised_once
<1> QED BY <1>1, <1>2

\* The logit of one token, after each token of the input.
LEMMA PenaltyOfToken ==
  ASSUME NEW lg, NEW ids \in Seq(Nat), NEW t \in DOMAIN lg, lg[t] \in Int,
         NEW l, PenaltyRun(lg, ids, Len(ids), l),
         NEW c, Counting(c, ids, t), NEW f, Doubling(f, Len(ids))
  PROVE  l[Len(ids)][t] = Scaled(lg[t], f[c[Len(ids)]])
<1> DEFINE n == Len(ids)
           Bad == {i \in 0..n : ~(DOMAIN l[i] = DOMAIN lg /\ l[i][t] = Scaled(lg[t], f[c[i]]))}
<1>1. n \in Nat
  OBVIOUS
<1>2. \A i \in 0..n : l[i] = IF i = 0 THEN lg ELSE [l[i - 1] EXCEPT ![ids[i]] = penalised_once(@)]
  BY DEF PenaltyRun
<1> HIDE DEF n
<1>3. ASSUME Bad # {} PROVE FALSE
  <2>1. PICK i \in Bad : \A j \in Bad : i <= j
    <3>1. Bad \in SUBSET Nat
      BY <1>1
    <3> HIDE DEF Bad
    <3> QED BY <1>3, <3>1, LeastElement
  <2>2. i \in 0..n /\ ~(DOMAIN l[i] = DOMAIN lg /\ l[i][t] = Scaled(lg[t], f[c[i]]))
    OBVIOUS
  <2>3. i # 0
    <3>1. c[0] = 0 /\ f[0] = 1
      BY DEF Counting, Doubling
    <3>2. Scaled(lg[t], 1) = lg[t]
      BY DEF Scaled
    <3> QED BY <1>1, <1>2, <2>2, <3>1, <3>2
  <2>4. i - 1 \in 0..n /\ ~(i <= i - 1) /\ i \in 1..n
    BY <1>1, <2>2, <2>3
  <2>5. DOMAIN l[i - 1] = DOMAIN lg /\ l[i - 1][t] = Scaled(lg[t], f[c[i - 1]])
    BY <2>1, <2>4
  <2> HIDE DEF Bad
  <2>6. l[i] = [l[i - 1] EXCEPT ![ids[i]] = penalised_once(@)]
    BY <1>2, <2>2, <2>3
  <2>7. DOMAIN l[i] = DOMAIN lg
    BY <2>5, <2>6
  <2>8. l[i][t] = IF ids[i] = t THEN penalised_once(l[i - 1][t]) ELSE l[i - 1][t]
    BY <2>5, <2>6
  <2>9. c[i - 1] \in 0..n /\ c[i] \in 0..n /\ c[i] = IF ids[i] = t THEN c[i - 1] + 1 ELSE c[i - 1]
    BY <2>4 DEF Counting, n
  <2>10. CASE ids[i] = t
    <3>0. PICK a \in 0..n, b \in 0..n : a = c[i - 1] /\ b = c[i] /\ b = a + 1
      BY <2>9, <2>10
    <3>1. b \in 1..n /\ b - 1 = a
      BY <3>0, <1>1
    <3>2. f[c[i]] = 2 * f[c[i - 1]] /\ f[c[i - 1]] \in Nat \ {0}
      BY <3>0, <3>1 DEF Doubling, n
    <3>3. penalised_once(Scaled(lg[t], f[c[i - 1]])) = Scaled(lg[t], 2 * f[c[i - 1]])
      BY <3>2, ScaledTwice
    <3> QED BY <2>2, <2>5, <2>7, <2>8, <2>10, <3>2, <3>3
  <2>11. CASE ids[i] # t
    BY <2>2, <2>5, <2>7, <2>8, <2>9, <2>11
  <2> QED BY <2>10, <2>11
<1>4. n \in 0..n
  BY <1>1
<1> QED BY <1>3, <1>4 DEF n

\* The logits of a vocabulary.
IsLogits(lg) == IsFiniteSet(DOMAIN lg) /\ DOMAIN lg # {} /\ lg \in [DOMAIN lg -> Int]

\* The penalty, occurrence by occurrence, is what it is meant to be.
LEMMA PenaltyAsMeant ==
  ASSUME NEW config, NEW lg, IsLogits(lg), NEW ids \in Seq(Nat),
         DOMAIN Penalised(lg, ids) = DOMAIN lg,
         NEW scored, scored = IF config.penalty THEN Penalised(lg, ids) ELSE lg
  PROVE  /\ DOMAIN scored = DOMAIN lg
         /\ \A t \in DOMAIN lg : scored[t] \in Int /\ scored[t] = Expected(config, lg, ids)[t]
<1>1. DOMAIN scored = DOMAIN lg
  OBVIOUS
<1>2. ASSUME NEW t \in DOMAIN lg PROVE scored[t] \in Int /\ scored[t] = Expected(config, lg, ids)[t]
  <2>1. lg[t] \in Int
    BY DEF IsLogits
  <2>2. Expected(config, lg, ids)[t] =
          Scaled(lg[t], IF config.penalty THEN PowerOfTwo(SeenTimes(t, ids)) ELSE 1)
    BY DEF Expected, Scaled
  <2>3. CASE ~config.penalty
    <3>1. Scaled(lg[t], 1) = lg[t]
      BY <2>1 DEF Scaled
    <3> QED BY <2>1, <2>2, <2>3, <3>1
  <2>4. CASE config.penalty
    <3> DEFINE l == CHOOSE g : PenaltyRun(lg, ids, Len(ids), g)
    <3>1. Len(ids) \in Nat
      OBVIOUS
    <3>2. PenaltyRun(lg, ids, Len(ids), l)
      BY <3>1, PenaltyRunExists, Zenon
    <3>3. Penalised(lg, ids) = l[Len(ids)]
      BY DEF Penalised, PenaltyRun
    <3> HIDE DEF l
    <3>4. PICK c : Counting(c, ids, t)
      BY SeenGrows
    <3>5. PICK f : Doubling(f, Len(ids)) /\ \A k \in 0..Len(ids) : PowerOfTwo(k) = f[k]
      BY <3>1, Powers
    <3>6. l[Len(ids)][t] = Scaled(lg[t], f[c[Len(ids)]])
      BY <2>1, <3>2, <3>4, <3>5, PenaltyOfToken
    <3>7. c[Len(ids)] = SeenTimes(t, ids) /\ c[Len(ids)] \in 0..Len(ids)
      BY <3>1, <3>4 DEF Counting
    <3>8. PICK p \in Nat \ {0} : p = f[c[Len(ids)]] /\ p = PowerOfTwo(SeenTimes(t, ids))
      BY <3>5, <3>7 DEF Doubling
    <3>9. Scaled(lg[t], p) \in Int
      BY <2>1 DEF Scaled
    <3> QED BY <2>2, <2>4, <3>3, <3>6, <3>8, <3>9
  <2> QED BY <2>3, <2>4
<1> QED BY <1>1, <1>2

\* Only the values count.
LEMMA MassAgrees ==
  ASSUME NEW f, NEW g, DOMAIN f = DOMAIN g, \A t \in DOMAIN f : f[t] = g[t]
  PROVE  Mass(f) = Mass(g)
<1>1. {f[t] : t \in DOMAIN f} = {g[t] : t \in DOMAIN g}
  OBVIOUS
<1>2. Largest(f) = Largest(g)
  BY <1>1 DEF Largest
<1>3. PICK m : m = Largest(f) /\ m = Largest(g)
  BY <1>2
<1> QED BY <1>3 DEF Mass

\* Every mass is a natural number, and that of the largest logit is not 0.
LEMMA MassNat ==
  ASSUME NEW g, IsFiniteSet(DOMAIN g), DOMAIN g # {}, \A t \in DOMAIN g : g[t] \in Int, MassRange \in Nat \ {0}
  PROVE  /\ DOMAIN Mass(g) = DOMAIN g
         /\ \A t \in DOMAIN g : Mass(g)[t] \in Nat
         /\ \E t \in DOMAIN g : Mass(g)[t] > 0
<1> DEFINE S == {g[t] : t \in DOMAIN g}
<1>1. S \in SUBSET Int /\ S # {}
  OBVIOUS
<1>2. IsFiniteSet(S)
  <2> DEFINE logit == [t \in DOMAIN g |-> g[t]]
  <2>1. logit \in Surjection(DOMAIN g, S)
    BY DEF Surjection
  <2> QED BY <2>1, FS_Surjection
<1>3. Largest(g) \in S /\ \A x \in S : x <= Largest(g)
  <2> HIDE DEF S
  <2>1. Max(S) \in S /\ \A x \in S : x <= Max(S)
    BY <1>1, <1>2, FiniteHasMax
  <2> QED BY <2>1 DEF Largest, S
<1>4. PICK m \in Int : m = Largest(g) /\ m \in S /\ \A t \in DOMAIN g : g[t] <= m
  BY <1>1, <1>3
<1>5. DOMAIN Mass(g) = DOMAIN g
  BY DEF Mass
<1>6. \A t \in DOMAIN g : Mass(g)[t] = IF m - g[t] >= MassRange THEN 0 ELSE MassRange - (m - g[t])
  BY <1>4 DEF Mass
<1>7. PICK t \in DOMAIN g : g[t] = m
  BY <1>4
<1> QED BY <1>4, <1>5, <1>6, <1>7

\* The sums of the first masses, as Cumsum makes them and step by step.
SumsTo(g, f, o, k) == g = [j \in 0..k |-> IF j = 0 THEN 0 ELSE g[j - 1] + f[o[j]]]
Adding(c, f, o, n) == c \in [0..n -> Nat] /\ c[0] = 0 /\ \A i \in 1..n : c[i] = c[i - 1] + f[o[i]]
AreSums(c, f, o, n) == Adding(c, f, o, n) /\ \A k \in 0..n : Cumsum(f, o, k) = c[k]

\* Sums are the same however far they go.
LEMMA SumsAgree ==
  ASSUME NEW n \in Nat, NEW f, NEW o, NEW c, Adding(c, f, o, n), NEW k \in 0..n, NEW g, SumsTo(g, f, o, k)
  PROVE  g[k] = c[k]
<1> DEFINE Bad == {i \in 0..k : g[i] # c[i]}
<1>1. \A i \in 0..k : g[i] = IF i = 0 THEN 0 ELSE g[i - 1] + f[o[i]]
  BY DEF SumsTo
<1>2. ASSUME Bad # {} PROVE FALSE
  <2>1. Bad \in SUBSET Nat
    OBVIOUS
  <2>2. PICK i \in Bad : \A j \in Bad : i <= j
    <3> HIDE DEF Bad
    <3> QED BY <1>2, <2>1, LeastElement
  <2>3. i \in 0..k /\ g[i] # c[i]
    OBVIOUS
  <2>4. i # 0
    BY <1>1, <2>3 DEF Adding
  <2>5. i - 1 \in 0..k /\ ~(i <= i - 1) /\ i \in 1..n
    BY <2>3, <2>4
  <2>6. g[i - 1] = c[i - 1]
    BY <2>2, <2>5
  <2> QED BY <1>1, <2>3, <2>4, <2>5, <2>6 DEF Adding
<1>3. k \in 0..k
  OBVIOUS
<1> QED BY <1>2, <1>3

\* The sums over the first candidates.
LEMMA Sums ==
  ASSUME NEW n \in Nat, NEW f, NEW o, \A i \in 1..n : f[o[i]] \in Nat
  PROVE  \E c : AreSums(c, f, o, n)
<1>1. PICK c : Adding(c, f, o, n)
  <2> DEFINE steps == [i \in 1..n |-> [x \in Nat |-> x + f[o[i]]]]
  <2>1. steps \in [1..n -> [Nat -> Nat]] /\ \A i \in 1..n, x \in Nat : steps[i][x] = x + f[o[i]]
    OBVIOUS
  <2> HIDE DEF steps
  <2>2. \E g : IsRun(g, Nat, n, 0, steps)
    BY <2>1, 0 \in Nat, RunExists, Zenon
  <2>3. PICK g : IsRun(g, Nat, n, 0, steps)
    BY <2>2
  <2>4. ASSUME NEW i \in 1..n PROVE g[i] = g[i - 1] + f[o[i]]
    <3>1. i - 1 \in 0..n
      OBVIOUS
    <3>2. g[i - 1] \in Nat /\ g[i] = steps[i][g[i - 1]]
      BY <2>3, <3>1 DEF IsRun
    <3> QED BY <2>1, <3>2
  <2>5. Adding(g, f, o, n)
    BY <2>3, <2>4 DEF IsRun, Adding
  <2> QED BY <2>5
<1>2. ASSUME NEW k \in 0..n PROVE Cumsum(f, o, k) = c[k]
  <2> DEFINE h == [i \in 0..k |-> c[i]]
  <2>1. \A i \in 0..k : h[i] = IF i = 0 THEN 0 ELSE h[i - 1] + f[o[i]]
    <3>1. \A i \in 0..k : h[i] = c[i]
      OBVIOUS
    <3>2. \A i \in 0..k : i \in 0..n /\ (i # 0 => i \in 1..n /\ i - 1 \in 0..k)
      OBVIOUS
    <3> HIDE DEF h
    <3> QED BY <3>1, <3>2, <1>1 DEF Adding
  <2>2. h = [i \in 0..k |-> h[i]]
    OBVIOUS
  <2> HIDE DEF h
  <2>3. SumsTo(h, f, o, k)
    BY <2>1, <2>2 DEF SumsTo
  <2> DEFINE g == CHOOSE g : SumsTo(g, f, o, k)
  <2>4. SumsTo(g, f, o, k)
    BY <2>3
  <2>5. Cumsum(f, o, k) = g[k]
    BY DEF Cumsum, SumsTo
  <2> HIDE DEF g
  <2> QED BY <1>1, <2>4, <2>5, SumsAgree
<1> QED BY <1>1, <1>2 DEF AreSums

\* A set of at most i tokens that have at most the mass of the first i.
Within(f, c, i, u) == IsFiniteSet(u) /\ Cardinality(u) \in Nat /\ Cardinality(u) <= i
                      /\ SumOf(f, u) \in Int /\ SumOf(f, u) <= c[i]

\* So is each part of the first i candidates.
LEMMA AmongFirst ==
  ASSUME NEW n \in Nat, NEW f, NEW o, \A i \in 1..n : f[o[i]] \in Nat,
         NEW c, Adding(c, f, o, n)
  PROVE  \A i \in 0..n : \A u \in SUBSET {o[j] : j \in 1..i} : Within(f, c, i, u)
<1> DEFINE first(i) == {o[j] : j \in 1..i}
           Bad == {i \in 0..n : ~\A u \in SUBSET first(i) : Within(f, c, i, u)}
<1>1. ASSUME Bad # {} PROVE FALSE
  <2>1. PICK i \in Bad : \A j \in Bad : i <= j
    <3>1. Bad \in SUBSET Nat
      OBVIOUS
    <3> HIDE DEF Bad
    <3> QED BY <1>1, <3>1, LeastElement
  <2>2. i \in 0..n
    OBVIOUS
  <2>3. PICK u \in SUBSET first(i) : ~Within(f, c, i, u)
    OBVIOUS
  <2>4. CASE i = 0
    <3>1. u = {}
      BY <2>3, <2>4
    <3>2. IsFiniteSet(u) /\ Cardinality(u) = 0
      BY <3>1, FS_EmptySet
    <3>3. SumOf(f, u) = 0
      BY <3>1, <3>2, SumOfStep
    <3>4. c[0] = 0
      BY DEF Adding
    <3> QED BY <2>3, <2>4, <3>2, <3>3, <3>4 DEF Within
  <2>5. CASE i # 0
    <3>1. i \in 1..n /\ i - 1 \in 0..n /\ ~(i <= i - 1) /\ i - 1 \in Nat
      BY <2>2, <2>5
    <3>2. \A w \in SUBSET first(i - 1) : Within(f, c, i - 1, w)
      BY <2>1, <3>1
    <3> DEFINE w == u \ {o[i]}
    <3>3. w \in SUBSET first(i - 1)
      <4>1. ASSUME NEW x \in w PROVE x \in first(i - 1)
        <5>1. PICK j \in 1..i : x = o[j]
          BY <2>3
        <5>2. j # i
          BY <5>1
        <5>3. j \in 1..(i - 1)
          BY <5>1, <5>2, <3>1
        <5> QED BY <5>1, <5>3
      <4> QED BY <4>1
    <3> HIDE DEF first, Bad
    <3>4. PICK k \in Nat, s \in Int, a \in Nat, b \in Nat, e \in Nat :
             /\ IsFiniteSet(w) /\ k = Cardinality(w) /\ k <= i - 1
             /\ s = SumOf(f, w) /\ a = c[i - 1] /\ s <= a
             /\ b = c[i] /\ e = f[o[i]] /\ b = a + e
      <4>1. Within(f, c, i - 1, w)
        BY <3>2, <3>3
      <4>2. c[i - 1] \in Nat /\ c[i] \in Nat /\ c[i] = c[i - 1] + f[o[i]] /\ f[o[i]] \in Nat
        BY <3>1 DEF Adding
      <4> HIDE DEF w
      <4> QED BY <4>1, <4>2 DEF Within
    <3>5. CASE o[i] \in u
      <4>1. u = w \cup {o[i]} /\ o[i] \notin w
        BY <3>5
      <4>2. IsFiniteSet(u) /\ Cardinality(u) = k + 1
        BY <3>4, <4>1, FS_AddElement, SMTT(20)
      <4>3. \A x \in u : f[x] \in Int
        BY <2>3, <2>2 DEF first
      <4>4. SumOf(f, u) = e + s
        BY <3>4, <3>5, <4>2, <4>3, SumOfRemove
      <4> QED BY <2>2, <2>3, <3>1, <3>4, <4>2, <4>4 DEF Within
    <3>6. CASE o[i] \notin u
      <4>1. u = w
        BY <3>6
      <4> HIDE DEF w
      <4> QED BY <2>2, <2>3, <3>1, <3>4, <4>1 DEF Within
    <3> QED BY <3>5, <3>6
  <2> QED BY <2>4, <2>5
<1> QED BY <1>1

\* A sorted list falls from any place to any later one.
LEMMA SortedFalls ==
  ASSUME NEW f, NEW o \in Orders(f), NEW n \in Nat, n = Cardinality(DOMAIN f),
         \A t \in DOMAIN f : f[t] \in Nat, NEW i \in 1..n, NEW j \in i..n
  PROVE  f[o[i]] >= f[o[j]]
<1>1. o \in [1..n -> DOMAIN f] /\ \A k \in 1..(n - 1) : f[o[k]] >= f[o[k + 1]]
  BY DEF Orders
<1> DEFINE Bad == {k \in i..n : ~(f[o[i]] >= f[o[k]])}
<1>2. ASSUME Bad # {} PROVE FALSE
  <2>1. PICK k \in Bad : \A m \in Bad : k <= m
    <3>1. Bad \in SUBSET Nat
      OBVIOUS
    <3> HIDE DEF Bad
    <3> QED BY <1>2, <3>1, LeastElement
  <2>2. k \in i..n /\ ~(f[o[i]] >= f[o[k]])
    OBVIOUS
  <2>3. PICK a \in Nat, b \in Nat : a = f[o[i]] /\ b = f[o[k]]
    BY <1>1, <2>2
  <2>4. k # i
    BY <2>2, <2>3
  <2>5. k - 1 \in i..n /\ ~(k <= k - 1) /\ k - 1 \in 1..(n - 1) /\ k - 1 + 1 = k
    BY <2>2, <2>4
  <2>6. f[o[i]] >= f[o[k - 1]]
    BY <2>1, <2>5
  <2>7. f[o[k - 1]] >= f[o[k]] /\ f[o[k - 1]] \in Nat
    BY <1>1, <2>5
  <2> QED BY <2>2, <2>3, <2>6, <2>7
<1> QED BY <1>2

\* A sorted list has every token.
LEMMA SortedHasAll ==
  ASSUME NEW f, IsFiniteSet(DOMAIN f), NEW o \in Orders(f), NEW n, n = Cardinality(DOMAIN f)
  PROVE  \A t \in DOMAIN f : \E i \in 1..n : o[i] = t
<1>1. o \in [1..n -> DOMAIN f] /\ \A i, j \in 1..n : o[i] = o[j] => i = j
  BY DEF Orders
<1>2. n \in Nat
  BY FS_CardinalityType
<1>3. IsFiniteSet(1..n) /\ Cardinality(1..n) = n
  BY <1>2, FS_Interval
<1> DEFINE S == {o[i] : i \in 1..n}
<1>4. S \subseteq DOMAIN f
  BY <1>1
<1>5. o \in Surjection(1..n, S) /\ o \in Injection(1..n, S)
  <2>1. o \in [1..n -> S]
    BY <1>1
  <2>2. \A t \in S : \E i \in 1..n : o[i] = t
    OBVIOUS
  <2> HIDE DEF S
  <2>3. o \in Surjection(1..n, S)
    BY <2>1, <2>2 DEF Surjection
  <2>4. o \in Injection(1..n, S)
    BY <1>1, <2>1 DEF Injection, IsInjective
  <2> QED BY <2>3, <2>4
<1> HIDE DEF S
<1>6. Cardinality(S) = n
  BY <1>3, <1>5, FS_Surjection
<1>7. S = DOMAIN f
  BY <1>4, <1>6, FS_Subset
<1> QED BY <1>7 DEF S

\* The filters keep a first part of the list.
FirstPart(c, o, k) == k \in 1..Len(o) /\ Len(c) = k /\ DOMAIN c = 1..k /\ \A i \in 1..k : c[i] = o[i]

\* top_k keeps no more than it says.
LEMMA TopKPart ==
  ASSUME NEW config, config.top_k \in Int, NEW n \in Nat \ {0}, NEW D, NEW o \in [1..n -> D]
  PROVE  \E k : FirstPart(top_k(config, o), o, k) /\ (config.top_k > 0 => k <= config.top_k)
<1> DEFINE c == top_k(config, o)
<1>1. o \in Seq(D) /\ Len(o) = n
  BY SeqDef
<1>2. PICK k \in Int : k = config.top_k
  OBVIOUS
<1>3. CASE k > 0 /\ k < n
  <2>1. c = SubSeq(o, 1, k)
    BY <1>1, <1>2, <1>3 DEF top_k
  <2>2. Len(c) = k /\ DOMAIN c = 1..k /\ \A i \in 1..k : c[i] = o[i]
    BY <1>1, <1>3, <2>1
  <2> QED BY <1>1, <1>2, <1>3, <2>2 DEF FirstPart
<1>4. CASE ~(k > 0 /\ k < n)
  <2>1. c = o
    BY <1>1, <1>2, <1>4 DEF top_k
  <2> QED BY <1>1, <1>2, <1>4, <2>1 DEF FirstPart
<1> QED BY <1>3, <1>4

\* The configurations whose top_p counts.
TopP(config) == config.p > 0 /\ config.p < config.q

\* top_p keeps at least one, and cuts before the sum has reached it.
LEMMA TopPPart ==
  ASSUME NEW config, NEW f, NEW D, NEW c \in Seq(D), c # <<>>
  PROVE  \E m : /\ FirstPart(nucleus(config, f, c), c, m)
                /\ TopP(config) => \A i \in 1..(m - 1) : ~(Cumsum(f, c, i) * config.q >= config.p * Total(f))
<1> DEFINE enough == config.p * Total(f)
           reached == {i \in DOMAIN c : Cumsum(f, c, i) * config.q >= enough}
           d == nucleus(config, f, c)
<1>1. d = IF TopP(config) /\ reached # {} THEN SubSeq(c, 1, Min(reached)) ELSE c
  BY DEF nucleus, TopP
<1>2. DOMAIN c = 1..Len(c) /\ Len(c) \in Nat \ {0}
  OBVIOUS
<1>3. reached \subseteq 1..Len(c) /\ \A i \in 1..Len(c) : i \notin reached => ~(Cumsum(f, c, i) * config.q >= enough)
  BY <1>2
<1>4. SUFFICES \E m : /\ FirstPart(d, c, m)
                      /\ TopP(config) => \A i \in 1..(m - 1) : i \in 1..Len(c) /\ i \notin reached
  BY <1>3
<1> HIDE DEF reached, d
<1>5. CASE TopP(config) /\ reached # {}
  <2>1. PICK m : m = Min(reached) /\ m \in reached /\ \A i \in reached : m <= i
    BY <1>2, <1>3, <1>5, LeastElement, reached \in SUBSET Nat
  <2>2. m \in 1..Len(c) /\ d = SubSeq(c, 1, m)
    BY <1>1, <1>3, <1>5, <2>1
  <2>3. Len(d) = m /\ DOMAIN d = 1..m /\ \A i \in 1..m : d[i] = c[i]
    BY <1>2, <2>2
  <2>4. ASSUME NEW i \in 1..(m - 1) PROVE i \in 1..Len(c) /\ i \notin reached
    BY <1>2, <2>1, <2>2
  <2> QED BY <2>2, <2>3, <2>4 DEF FirstPart
<1>6. CASE ~(TopP(config) /\ reached # {})
  <2>1. FirstPart(d, c, Len(c))
    BY <1>1, <1>2, <1>6 DEF FirstPart
  <2>2. TopP(config) => \A i \in 1..(Len(c) - 1) : i \in 1..Len(c) /\ i \notin reached
    BY <1>2, <1>6
  <2> QED BY <2>1, <2>2
<1> QED BY <1>5, <1>6

\* There is some mass.
LEMMA TotalPositive ==
  ASSUME NEW f, IsFiniteSet(DOMAIN f), \A x \in DOMAIN f : f[x] \in Nat, NEW t \in DOMAIN f, f[t] > 0
  PROVE  Total(f) \in Nat \ {0}
<1>1. SumOf(f, DOMAIN f) = f[t] + SumOf(f, DOMAIN f \ {t})
  BY SumOfRemove
<1>2. SumOf(f, DOMAIN f \ {t}) \in Nat
  BY FS_Subset, SumOfNat
<1>3. Total(f) = SumOf(f, DOMAIN f)
  BY DEF Total, SumOf
<1> QED BY <1>1, <1>2, <1>3

\* The tokens likelier than t.
Likelier(f, t) == {u \in DOMAIN f : f[u] > f[t]}

\* They are before t in a sorted list.
LEMMA LikelierBefore ==
  ASSUME NEW f, IsFiniteSet(DOMAIN f), NEW o \in Orders(f), NEW n, n = Cardinality(DOMAIN f),
         \A t \in DOMAIN f : f[t] \in Nat, NEW i \in 1..n
  PROVE  \A u \in Likelier(f, o[i]) : \E j \in 1..(i - 1) : o[j] = u
<1>1. n \in Nat
  BY FS_CardinalityType
<1>2. ASSUME NEW u \in Likelier(f, o[i]) PROVE \E j \in 1..(i - 1) : o[j] = u
  <2>1. u \in DOMAIN f /\ f[u] > f[o[i]]
    BY DEF Likelier
  <2>2. PICK j \in 1..n : o[j] = u
    BY <2>1, SortedHasAll
  <2>3. ~(j \in i..n)
    <3>1. SUFFICES ASSUME j \in i..n PROVE FALSE
      OBVIOUS
    <3>2. f[o[i]] >= f[o[j]]
      BY <1>1, <3>1, SortedFalls
    <3>3. o[i] \in DOMAIN f
      BY <1>1 DEF Orders
    <3>4. f[o[i]] \in Nat /\ f[u] \in Nat
      BY <2>1, <3>3
    <3> QED BY <2>1, <2>2, <3>2, <3>4
  <2> QED BY <1>1, <2>2, <2>3
<1> QED BY <1>2

\* A token passes the filters by their meaning.
Passes(config, f, t) ==
    /\ config.top_k > 0 => Cardinality(Likelier(f, t)) < config.top_k
    /\ TopP(config) => SumOf(f, Likelier(f, t)) * config.q < config.p * Total(f)
    /\ config.greedy => Likelier(f, t) = {}

\* What the filters leave of a sorted list passes them by their meaning.
LEMMA FilteredPasses ==
  ASSUME NEW config, config.top_k \in Int, config.p \in Int, config.q \in Nat \ {0},
         NEW f, IsFiniteSet(DOMAIN f), \A x \in DOMAIN f : f[x] \in Nat,
         \E x \in DOMAIN f : f[x] > 0, NEW o \in Orders(f),
         NEW t \in Drawn(config, f, nucleus(config, f, top_k(config, o)))
  PROVE  t \in DOMAIN f /\ Passes(config, f, t)
<1> DEFINE c == top_k(config, o)
           d == nucleus(config, f, c)
<1>1. PICK n \in Nat \ {0} : n = Cardinality(DOMAIN f)
  BY FS_CardinalityType, FS_EmptySet
<1>2. o \in [1..n -> DOMAIN f] /\ Len(o) = n
  BY <1>1 DEF Orders
<1>3. PICK k : FirstPart(c, o, k) /\ (config.top_k > 0 => k <= config.top_k)
  <2> HIDE DEF c
  <2>1. \E k : FirstPart(top_k(config, o), o, k) /\ (config.top_k > 0 => k <= config.top_k)
    BY <1>1, <1>2, TopKPart
  <2> QED BY <2>1 DEF c
<1>4. t \in Drawn(config, f, d)
  OBVIOUS
<1> HIDE DEF c
<1>5. k \in 1..n /\ Len(c) = k /\ DOMAIN c = 1..k /\ \A i \in 1..k : c[i] = o[i]
  BY <1>2, <1>3 DEF FirstPart
<1>6. c \in Seq(DOMAIN f) /\ c # <<>>
  <2>1. o \in Seq(DOMAIN f)
    BY <1>1, <1>2, SeqDef
  <2>2. c = o \/ \E m : c = SubSeq(o, 1, m)
    BY DEF c, top_k
  <2> QED BY <1>1, <1>2, <1>5, <2>1, <2>2
<1>7. PICK m : /\ FirstPart(d, c, m)
               /\ TopP(config) => \A i \in 1..(m - 1) : ~(Cumsum(f, c, i) * config.q >= config.p * Total(f))
  BY <1>6, TopPPart
<1> HIDE DEF d
<1>8. m \in 1..k /\ Len(d) = m /\ DOMAIN d = 1..m /\ \A i \in 1..m : d[i] = o[i]
  BY <1>1, <1>5, <1>7 DEF FirstPart
<1>9. PICK i \in 1..m : t = o[i] /\ (config.greedy => i = 1)
  BY <1>1, <1>4, <1>5, <1>8 DEF Drawn
<1>10. i \in 1..n /\ i - 1 \in 0..k /\ t \in DOMAIN f
  BY <1>1, <1>2, <1>5, <1>8, <1>9
<1>11. PICK s : Adding(s, f, c, k) /\ \A j \in 0..k : Cumsum(f, c, j) = s[j]
  <2>1. \A j \in 1..k : f[c[j]] \in Nat
    BY <1>1, <1>2, <1>5
  <2>2. k \in Nat
    BY <1>1, <1>5
  <2>3. \E s : AreSums(s, f, c, k)
    BY <2>1, <2>2, Sums
  <2> QED BY <2>3 DEF AreSums
<1> DEFINE U == Likelier(f, t)
<1>12. U \subseteq {c[j] : j \in 1..(i - 1)}
  <2>1. \A u \in U : \E j \in 1..(i - 1) : o[j] = u
    BY <1>1, <1>9, <1>10, LikelierBefore
  <2>2. \A j \in 1..(i - 1) : c[j] = o[j]
    BY <1>1, <1>5, <1>10, SMTT(20)
  <2> HIDE DEF U
  <2> QED BY <2>1, <2>2
<1> HIDE DEF U
<1>13. Within(f, s, i - 1, U)
  <2>1. \A j \in 1..k : f[c[j]] \in Nat
    BY <1>1, <1>2, <1>5
  <2>2. k \in Nat
    BY <1>1, <1>5
  <2>3. \A j \in 0..k : \A u \in SUBSET {c[x] : x \in 1..j} : Within(f, s, j, u)
    BY <2>1, <2>2, <1>11, AmongFirst
  <2> QED BY <2>3, <1>10, <1>12
<1>14. config.top_k > 0 => Cardinality(U) < config.top_k
  BY <1>1, <1>3, <1>5, <1>8, <1>9, <1>13 DEF Within
<1>15. ASSUME TopP(config) PROVE SumOf(f, U) * config.q < config.p * Total(f)
  <2>1. PICK p \in Nat \ {0}, q \in Nat \ {0}, w \in Nat \ {0}, a \in Nat, b \in Int :
           p = config.p /\ q = config.q /\ w = Total(f) /\ a = s[i - 1] /\ b = SumOf(f, U) /\ b <= a
    <3>1. Total(f) \in Nat \ {0}
      BY TotalPositive
    <3>2. s[i - 1] \in Nat
      BY <1>10, <1>11 DEF Adding
    <3> QED BY <1>13, <1>15, <3>1, <3>2 DEF TopP, Within
  <2>2. a * q < p * w
    <3>1. CASE i = 1
      <4>1. a = 0
        BY <2>1, <3>1, <1>11 DEF Adding
      <4>2. p * w > 0
        OBVIOUS
      <4> QED BY <4>1, <4>2
    <3>2. CASE i # 1
      <4>1. i - 1 \in 1..(m - 1)
        BY <1>1, <1>5, <1>8, <1>9, <3>2
      <4>2. ~(Cumsum(f, c, i - 1) * q >= p * w)
        BY <4>1, <1>7, <1>15, <2>1
      <4>3. Cumsum(f, c, i - 1) = a
        BY <1>10, <1>11, <2>1
      <4>4. a * q \in Int /\ p * w \in Int
        OBVIOUS
      <4> QED BY <4>2, <4>3, <4>4
    <3> QED BY <3>1, <3>2
  <2>3. b * q <= a * q
    BY <2>1
  <2>4. a * q \in Int /\ p * w \in Int /\ b * q \in Int
    OBVIOUS
  <2> QED BY <2>1, <2>2, <2>3, <2>4
<1>16. config.greedy => U = {}
  BY <1>9, <1>12
<1> QED BY <1>10, <1>14, <1>15, <1>16 DEF Passes, U

\* What sample may return passes the filters by their meaning, and is one of
\* the vocabulary: no filter leaves the list empty.
LEMMA SampledEligible ==
  ASSUME NEW config, config.top_k \in Int, config.p \in Int, config.q \in Nat \ {0},
         NEW ids \in Seq(Nat), NEW lg, IsLogits(lg), MassRange \in Nat \ {0}
  PROVE  sample(config, lg, ids) \subseteq Eligible(config, lg, ids) \cap DOMAIN lg
<1>1. PICK scored : scored = IF config.penalty THEN Penalised(lg, ids) ELSE lg
  OBVIOUS
<1>2. /\ DOMAIN scored = DOMAIN lg
      /\ \A t \in DOMAIN lg : scored[t] \in Int /\ scored[t] = Expected(config, lg, ids)[t]
  BY <1>1, PenaltyKeepsVocabulary, PenaltyAsMeant
<1>3. PICK f : f = Mass(scored)
  OBVIOUS
<1>4. /\ DOMAIN f = DOMAIN lg /\ \A x \in DOMAIN f : f[x] \in Nat
      /\ \E x \in DOMAIN f : f[x] > 0
  BY <1>2, <1>3, MassNat DEF IsLogits
<1>5. f = Mass(Expected(config, lg, ids))
  <2>1. DOMAIN Expected(config, lg, ids) = DOMAIN lg
    BY DEF Expected
  <2> QED BY <1>2, <1>3, <2>1, MassAgrees
<1>6. SUFFICES ASSUME NEW t \in sample(config, lg, ids)
               PROVE  t \in Eligible(config, lg, ids) /\ t \in DOMAIN lg
  OBVIOUS
<1>7. PICK o \in Orders(f) : t \in Drawn(config, f, nucleus(config, f, top_k(config, o)))
  BY <1>1, <1>3 DEF sample
<1>8. t \in DOMAIN f /\ Passes(config, f, t)
  BY <1>4, <1>7, FilteredPasses DEF IsLogits
<1> QED BY <1>4, <1>5, <1>8 DEF Eligible, Passes, TopP, Likelier, SumOf

-----------------------------------------------------------------------------
(* The invariant. *)

\* The stages, by the component that is at work in them.
ParseSteps == {"header", "metadata", "value", "tensors"}
ExitStages == {"exit_ok", "exit_error"}
RunStages  == {"running", "sampling"}
Stages     == ParseSteps \cup {"parsed", "parse_failed", "loading", "binding", "binding_decode", "bound"}
              \cup RunStages \cup ExitStages

\* A value of an integer type is an integer.
TypedValue(e) == e.type \in IntTypes => e.v \in Int

\* What the parser holds: the value of a key is read by the first call of
\* read_metadata_value, all further calls are those of array elements.
ParsedInd ==
    /\ Len(fields) \in Nat /\ DOMAIN fields = 1..Len(fields)
    /\ \A i \in DOMAIN fields :
         fields[i].kind \in {"u8", "u16", "u32", "u64"} => fields[i].value \in Int
    /\ pos \in Nat \ {0}
    /\ \A k \in DOMAIN metadata : TypedValue(metadata[k])
    /\ stage = "value" =>
         /\ \E S : frames \in Seq(S)
         /\ Len(frames) > 0
         /\ \/ \E type : frames[1] = Frame(type, 1)
            \/ /\ Len(frames) = 1 /\ frames[1].left = 0
               /\ TypedValue(frames[1].elems[1])

\* The constants that have storage, as a context sees them once bound.
Loaded == Constants \cap DOMAIN aliases
BoundWeights == [v \in Loaded |-> aliases[v]]

\* Constant v has storage that the kernels take.
Sound(v) == v \in Loaded /\ weight_ok(v, storage[aliases[v]])

\* What kernel i reads is there, and of a format and a shape that it takes.
WeightsThere(i) == /\ \A v \in WeightsOf(i) : Sound(v)
                   /\ IsAttention(i) => heads_ok

\* What is there for a model that has produced a token.
Complete == /\ Constants \subseteq DOMAIN aliases
            /\ \A v \in Constants : weight_ok(v, storage[aliases[v]])
            /\ heads_ok

InVocabulary(t) == t \in 0..(cfg.vocab - 1)

\* Both contexts see the same weights.
WeightInd ==
    /\ stage \notin ParseSteps \cup {"parsed", "parse_failed"} =>
         cfg.num_layers \in Int /\ device \in Devices
    /\ bound = [c \in Contexts |-> bound[c]]
    /\ stage \in ParseSteps \cup {"parsed", "parse_failed", "loading", "binding"} =>
         \A c \in Contexts : bound[c] = <<>>
    /\ stage = "binding_decode" => bound["prefill"] = BoundWeights
    /\ stage \in RunStages \cup {"bound"} => \A c \in Contexts : bound[c] = BoundWeights

\* What TokenLimit allows.
Limit == IF max_new_tokens > 1 THEN max_new_tokens ELSE 1

\* What main counts.  Before it makes the cache there is nothing.
MainInd ==
    /\ stage \in Stages
    /\ max_seq_len \in Nat /\ cached_len \in 0..max_seq_len
    /\ ctx \in {"none", "prefill", "decode"} /\ op \in Nat
    /\ all_tokens \in Seq(Nat) /\ prompt_len \in Nat /\ step \in Nat
    /\ max_new_tokens \in Int /\ Len(all_tokens) = prompt_len + step
    /\ stage \notin RunStages \cup ExitStages => max_seq_len = 0 /\ step = 0 /\ token = NoToken
    /\ step <= Limit
    /\ stage = "exit_ok" => token = eos_token_id \/ step = Limit
    /\ token # NoToken => Complete

\* The cache that main made for its context.
CacheMade ==
    IF kv_sizes_ok(cfg.num_layers, cfg.num_kv_heads, cfg.head_dim, prompt_len + max_new_tokens)
    THEN /\ max_seq_len = prompt_len + max_new_tokens
         /\ DOMAIN layers = 0..(cfg.num_layers - 1)
         /\ \A l \in DOMAIN layers : DOMAIN layers[l] = 0..(max_seq_len - 1)
    ELSE max_seq_len = 0

\* A run of either context.  After the first, every kernel has weights that it
\* takes, and the token that it is to feed is one of the vocabulary.
RunInd ==
    stage \in RunStages =>
        /\ prompt_len > 0 /\ op > 0
        /\ samp_cfg.top_k \in Int /\ samp_cfg.p \in Int /\ samp_cfg.q \in Nat \ {0}
        /\ CacheMade
        /\ \/ ctx = "prefill" /\ step = 0
           \/ /\ ctx = "decode" /\ step > 0 /\ step < max_new_tokens /\ kv_initialized
              /\ \A i \in 1..NumOps : WeightsThere(i)
              /\ InVocabulary(all_tokens[Len(all_tokens)])
        /\ \A i \in 1..(op - 1) : WeightsThere(i)
        /\ stage = "sampling" => /\ op = NumOps + 1 /\ kv_initialized
                                 /\ logits \in Logits /\ DOMAIN logits = 0..(cfg.vocab - 1)

\* The inductive invariant.
GenerateInd == ParsedInd /\ WeightInd /\ MainInd /\ RunInd /\ CacheHoldsTokens

-----------------------------------------------------------------------------
(* Parsing. *)

\* A file as it was opened.
LEMMA ParseInitInd == ASSUME ParseInit PROVE ParsedInd
<1>1. PICK f \in DOMAIN Files : file = Files[f]
  BY DEF ParseInit
<1>2. /\ Len(fields) \in Nat /\ DOMAIN fields = 1..Len(fields)
      /\ \A i \in DOMAIN fields :
           fields[i].kind \in {"u8", "u16", "u32", "u64"} => fields[i].value \in Int
  BY <1>1, FilesAssumption DEF fields
<1>3. DOMAIN metadata = {} /\ pos = 1 /\ stage # "value"
  BY DEF ParseInit
<1> QED BY <1>2, <1>3 DEF ParsedInd

\* A scalar read for a call of an integer type is an integer.
LEMMA ScalarTyped ==
  ASSUME ParsedInd, NEW type, Readable(<<WireKind(type)>>)
  PROVE  TypedValue([type |-> type, v |-> Converted(type, Field(1))])
<1> SUFFICES ASSUME type \in IntTypes
             PROVE  Converted(type, Field(1)) \in Int
  BY DEF TypedValue
<1>1. WireKind(type) \in {"u32", "u64"} /\ Converted(type, Field(1)) = Field(1)
  BY DEF IntTypes, WireKind, Converted
<1> DEFINE kinds == <<WireKind(type)>>
<1>2. 1 \in DOMAIN kinds /\ kinds[1] = WireKind(type) /\ pos + 1 - 1 = pos
  BY DEF ParsedInd
<1>3. pos <= Len(fields) /\ fields[pos].kind = WireKind(type)
  <2> HIDE DEF kinds
  <2>1. Readable(kinds)
    BY DEF kinds
  <2> QED BY <1>2, <2>1 DEF Readable
<1>4. pos \in DOMAIN fields
  BY <1>3 DEF ParsedInd
<1> QED BY <1>1, <1>2, <1>3, <1>4 DEF ParsedInd, Field

\* A list of calls of which the last is replaced, ended or called from.
LEMMA CallList ==
  ASSUME NEW S, NEW fs \in Seq(S), Len(fs) > 0, NEW f
  PROVE  /\ ReplaceTop(fs, f) \in Seq(S \cup {f}) /\ Len(ReplaceTop(fs, f)) = Len(fs)
         /\ ReplaceTop(fs, f)[1] = IF Len(fs) = 1 THEN f ELSE fs[1]
         /\ Append(fs, f) \in Seq(S \cup {f}) /\ Len(Append(fs, f)) = Len(fs) + 1
         /\ Append(fs, f)[1] = fs[1]
<1>1. fs \in Seq(S \cup {f})
  OBVIOUS
<1> QED BY <1>1 DEF ReplaceTop

\* Every step of the parser.
LEMMA ParseStepInd == ASSUME ParsedInd, ParseNext PROVE ParsedInd'
<1>0. /\ fields' = fields
      /\ Len(fields) \in Nat /\ DOMAIN fields = 1..Len(fields) /\ pos \in Nat \ {0}
      /\ \A i \in DOMAIN fields :
           fields[i].kind \in {"u8", "u16", "u32", "u64"} => fields[i].value \in Int
      /\ \A k \in DOMAIN metadata : TypedValue(metadata[k])
  <2>1. fields' = fields
    BY DEF ParseNext, fields, parseVars, read_header, read_key, read_scalar, read_array, array_return,
           emplace, metadata_end, read_tensor_info, parse_end, parse_fails
  <2> QED BY <2>1 DEF ParsedInd
<1> DEFINE Calls == /\ \E S : frames' \in Seq(S)
                    /\ Len(frames') > 0
                    /\ \/ \E type : frames'[1] = Frame(type, 1)
                       \/ /\ Len(frames') = 1 /\ frames'[1].left = 0
                          /\ TypedValue(frames'[1].elems[1])
<1>1. ASSUME pos' \in Nat \ {0}, \A k \in DOMAIN metadata' : TypedValue(metadata'[k]),
             stage' = "value" => Calls
      PROVE  ParsedInd'
  BY <1>0, <1>1 DEF ParsedInd, TypedValue
<1> HIDE DEF Calls
<1>2. CASE read_header \/ metadata_end \/ parse_end \/ parse_fails
  BY <1>0, <1>1, <1>2 DEF read_header, metadata_end, parse_end, parse_fails, parseVars
<1>3. CASE read_tensor_info
  <2>1. Field(2) \in Nat
    BY <1>3 DEF read_tensor_info, tensor_info_ok
  <2> HIDE DEF Field
  <2> QED BY <2>1, <1>0, <1>1, <1>3 DEF read_tensor_info
<1>4. CASE read_key
  <2>1. frames' = <<Frame(Field(2), 1)>> /\ pos' = pos + 2 /\ metadata' = metadata
    BY <1>4 DEF read_key
  <2>2. frames' \in Seq({Frame(Field(2), 1)}) /\ Len(frames') = 1 /\ frames'[1] = Frame(Field(2), 1)
    BY <2>1
  <2>3. Len(frames') > 0
    BY <2>2
  <2>4. Calls
    BY <2>2, <2>3, Zenon DEF Calls
  <2> QED BY <2>1, <2>4, <1>0, <1>1
<1>5. CASE emplace
  <2>1. /\ stage = "value" /\ top.left = 0 /\ Len(frames) = 1 /\ pos' = pos /\ stage' = "metadata"
        /\ metadata' = emplaced(metadata, key, top.elems[1])
    BY <1>5 DEF emplace
  <2>2. TypedValue(top.elems[1])
    BY <2>1 DEF top, ParsedInd, Frame
  <2> HIDE DEF top
  <2>3. \A k \in DOMAIN metadata' : metadata'[k] \in {metadata[x] : x \in DOMAIN metadata} \cup {top.elems[1]}
    BY <2>1 DEF emplaced
  <2>4. \A k \in DOMAIN metadata' : TypedValue(metadata'[k])
    BY <2>2, <2>3, <1>0 DEF TypedValue
  <2> QED BY <2>1, <2>4, <1>0, <1>1
<1>6. CASE read_scalar \/ read_array \/ array_return
  <2>1. /\ stage = "value" /\ stage' = stage /\ metadata' = metadata
        /\ pos' \in {pos, pos + 1, pos + 2}
    BY <1>6 DEF read_scalar, read_array, array_return
  <2>2. PICK S : frames \in Seq(S)
    BY <2>1 DEF ParsedInd
  <2>3. Len(frames) > 0 /\ Len(frames) \in Nat
    BY <2>1, <2>2 DEF ParsedInd
  <2>4. \/ \E type : frames[1] = Frame(type, 1)
        \/ Len(frames) = 1 /\ frames[1].left = 0
    BY <2>1 DEF ParsedInd
  <2>5. CASE read_scalar
    <3> DEFINE e == [type |-> top.of, v |-> Converted(top.of, Field(1))]
               f == WithElement(top, e)
    <3>1. frames' = ReplaceTop(frames, f) /\ top.left > 0 /\ Readable(<<WireKind(top.of)>>)
      BY <2>5 DEF read_scalar
    <3>2. TypedValue(e)
      BY <3>1, ScalarTyped, Zenon
    <3> HIDE DEF e, f
    <3>3. /\ frames' \in Seq(S \cup {f}) /\ Len(frames') = Len(frames)
          /\ frames'[1] = IF Len(frames) = 1 THEN f ELSE frames[1]
      BY <3>1, <2>2, <2>3, CallList
    <3>4. PICK type : frames[1] = Frame(type, 1)
      BY <3>1, <2>3, <2>4 DEF top
    <3>5. CASE Len(frames) = 1
      <4>1. top = Frame(type, 1)
        BY <3>4, <3>5 DEF top
      <4>2. f.left = 0 /\ f.elems[1] = e
        BY <4>1 DEF f, WithElement, Frame
      <4> QED BY <4>2, <3>2, <3>3, <3>5, <2>1, <1>0, <1>1 DEF Calls
    <3>6. CASE Len(frames) # 1
      <4>1. Calls
        BY <3>3, <3>4, <3>6, <2>3 DEF Calls
      <4> QED BY <4>1, <2>1, <1>0, <1>1
    <3> QED BY <3>5, <3>6
  <2>6. CASE read_array
    <3> DEFINE f == Frame(Field(1), Field(2))
    <3>1. frames' = Append(frames, f) /\ top.left > 0
      BY <2>6 DEF read_array
    <3> HIDE DEF f
    <3>2. /\ frames' \in Seq(S \cup {f}) /\ Len(frames') = Len(frames) + 1 /\ frames'[1] = frames[1]
      BY <3>1, <2>2, <2>3, CallList
    <3>3. PICK type : frames[1] = Frame(type, 1)
      BY <3>1, <2>3, <2>4 DEF top
    <3>4. Calls
      BY <3>2, <3>3, <2>3 DEF Calls
    <3> QED BY <3>4, <2>1, <1>0, <1>1
  <2>7. CASE array_return
    <3> DEFINE outer == SubSeq(frames, 1, Len(frames) - 1)
               e == [type |-> "ARRAY", v |-> top.elems]
               f == WithElement(outer[Len(outer)], e)
    <3>0. Len(frames) # 1
      <4>1. Len(frames) > 1
        BY <2>7 DEF array_return
      <4>2. PICK n \in Nat : n = Len(frames)
        BY <2>3
      <4>3. n > 1
        BY <4>1, <4>2, Zenon
      <4>4. n # 1
        BY <4>3
      <4> QED BY <4>2, <4>4, Zenon
    <3>1. frames' = ReplaceTop(outer, f) /\ Len(frames) > 1
      BY <2>7 DEF array_return
    <3>2. outer \in Seq(S) /\ Len(outer) = Len(frames) - 1 /\ Len(outer) > 0 /\ outer[1] = frames[1]
      BY <3>1, <2>2, <2>3
    <3>3. TypedValue(e)
      BY DEF TypedValue, IntTypes
    <3> HIDE DEF e, f, outer
    <3>4. /\ frames' \in Seq(S \cup {f}) /\ Len(frames') = Len(outer)
          /\ frames'[1] = IF Len(outer) = 1 THEN f ELSE outer[1]
      BY <3>1, <3>2, CallList
    <3>5. PICK type : frames[1] = Frame(type, 1)
      BY <3>0, <2>4, Zenon
    <3>6. CASE Len(outer) = 1
      <4>1. outer[Len(outer)] = Frame(type, 1)
        BY <3>2, <3>5, <3>6
      <4>2. f.left = 0 /\ f.elems[1] = e
        BY <4>1 DEF f, WithElement, Frame
      <4>3. Calls
        BY <4>2, <3>3, <3>4, <3>6 DEF Calls
      <4> QED BY <4>3, <2>1, <1>0, <1>1
    <3>7. CASE Len(outer) # 1
      <4>1. Calls
        BY <3>2, <3>4, <3>5, <3>7, <2>3 DEF Calls
      <4> QED BY <4>1, <2>1, <1>0, <1>1
    <3> QED BY <3>6, <3>7
  <2> QED BY <1>6, <2>5, <2>6, <2>7
<1> QED BY <1>2, <1>3, <1>4, <1>5, <1>6 DEF ParseNext

\* read_int yields an integer.
LEMMA ReadInt == ASSUME ParsedInd, NEW k, NEW n \in Int PROVE read_int(k, n) \in Int
BY DEF ParsedInd, TypedValue, read_int, HasInt

-----------------------------------------------------------------------------
(* Weights. *)

\* While the weights stay, so do the names derived from them.
LEMMA NamesKept ==
  ASSUME UNCHANGED weightVars
  PROVE  /\ Constants' = Constants /\ Loaded' = Loaded /\ BoundWeights' = BoundWeights
         /\ NumOps' = NumOps /\ \A i : WeightsThere(i)' <=> WeightsThere(i)
         /\ Complete' <=> Complete
<1>1. cfg' = cfg /\ aliases' = aliases /\ storage' = storage /\ device' = device
  BY DEF weightVars
<1>2. Constants' = Constants
  BY <1>1 DEF Constants, Constant, NumConstants, LayerWeights
<1>3. Loaded' = Loaded
  BY <1>1, <1>2 DEF Loaded
<1>4. BoundWeights' = BoundWeights
  BY <1>1, <1>3 DEF BoundWeights
<1>5. NumOps' = NumOps
  BY <1>1 DEF NumOps
<1>6. ASSUME NEW i PROVE WeightsOf(i)' = WeightsOf(i) /\ (IsAttention(i)' <=> IsAttention(i))
  BY <1>2, <1>5 DEF WeightsOf, IsAttention
<1>7. ASSUME NEW v
      PROVE  weight_ok(v, storage[aliases[v]])' <=> weight_ok(v, storage[aliases[v]])
  BY <1>1 DEF weight_ok
<1>8. heads_ok' <=> heads_ok
  BY <1>1 DEF heads_ok
<1>9. ASSUME NEW i PROVE WeightsThere(i)' <=> WeightsThere(i)
  BY <1>3, <1>6, <1>7, <1>8 DEF WeightsThere, Sound
<1>10. Complete' <=> Complete
  BY <1>1, <1>2, <1>7, <1>8 DEF Complete
<1> QED BY <1>2, <1>3, <1>4, <1>5, <1>9, <1>10

\* While parsed data and weights stay and no new stage of the parser or of the
\* loader begins, so does what is known of them.
LEMMA InputKept ==
  ASSUME ParsedInd, WeightInd, UNCHANGED <<parseVars, weightVars>>,
         \/ stage' = stage
         \/ stage \in RunStages \cup {"bound"} /\ stage' \in RunStages \cup ExitStages
  PROVE  ParsedInd' /\ WeightInd' /\ eos_token_id' = eos_token_id
<1>1. BoundWeights' = BoundWeights /\ bound' = bound /\ cfg' = cfg /\ device' = device
  BY NamesKept DEF weightVars
<1>2. /\ fields' = fields /\ pos' = pos /\ metadata' = metadata /\ frames' = frames
  BY DEF parseVars, fields
<1>3. stage' = "value" => stage = "value"
  BY DEF ExitStages, RunStages
<1>4. ParsedInd'
  BY <1>2, <1>3 DEF ParsedInd, TypedValue
<1>5. WeightInd'
  BY <1>1 DEF WeightInd, ParseSteps, RunStages, ExitStages
<1>6. eos_token_id' = eos_token_id
  BY <1>2 DEF eos_token_id, HasInt
<1> QED BY <1>4, <1>5, <1>6

\* The constructors.
LEMMA WeightInitInd == ASSUME ParseInit, WeightInit PROVE WeightInd
BY DEF ParseInit, WeightInit, WeightInd, ParseSteps, RunStages

\* extract_config, the loop over the constants and the two calls of bind.
LEMMA WeightStepInd ==
  ASSUME ParsedInd, WeightInd, WeightNext
  PROVE  /\ ParsedInd' /\ WeightInd'
         /\ stage \in {"parsed", "loading", "binding", "binding_decode"}
         /\ stage' \in {"loading", "binding", "binding_decode", "bound", "exit_error"}
<1>1. ParsedInd' /\ stage \in {"parsed", "loading", "binding", "binding_decode"}
                 /\ stage' \in {"loading", "binding", "binding_decode", "bound", "exit_error"}
  <2>1. /\ UNCHANGED parseVars /\ stage \in {"parsed", "loading", "binding", "binding_decode"}
        /\ stage' \in {"loading", "binding", "binding_decode", "bound", "exit_error"}
    <3>1. CASE extract_config
      BY <3>1 DEF extract_config
    <3>2. CASE skip_constant
      BY <3>2 DEF skip_constant, loading
    <3>3. ASSUME NEW g \in Names, load_new(g) \/ load_alias(g) \/ load_fails(g)
          PROVE  /\ UNCHANGED parseVars /\ stage = "loading" /\ stage' \in {"loading", "exit_error"}
      BY <3>3 DEF load_new, load_alias, load_fails, loading
    <3>4. CASE load_end
      BY <3>4 DEF load_end
    <3>5. ASSUME NEW c \in Contexts, bind(c)
          PROVE  /\ UNCHANGED parseVars /\ stage \in {"binding", "binding_decode"}
                 /\ stage' \in {"binding_decode", "bound"}
      BY <3>5 DEF bind
    <3> QED BY <3>1, <3>2, <3>3, <3>4, <3>5 DEF WeightNext
  <2>2. /\ fields' = fields /\ pos' = pos /\ metadata' = metadata
    BY <2>1 DEF parseVars, fields
  <2> QED BY <2>1, <2>2 DEF ParsedInd, TypedValue
<1>2. CASE extract_config
  <2>1. cfg'.num_layers \in Int /\ device' \in Devices
    <3>1. cfg'.num_layers = read_int("block_count", 1) /\ device' \in Devices
      BY <1>2 DEF extract_config
    <3> QED BY <3>1, ReadInt
  <2>2. stage = "parsed" /\ stage' \in {"loading", "exit_error"} /\ bound' = bound
    BY <1>2 DEF extract_config
  <2> QED BY <1>1, <2>1, <2>2 DEF WeightInd, ParseSteps, RunStages
<1>3. ASSUME stage = "loading", stage' \in {"loading", "binding", "exit_error"},
             cfg' = cfg, device' = device, bound' = bound
      PROVE  WeightInd'
  BY <1>3 DEF WeightInd, ParseSteps, RunStages
<1>4. CASE skip_constant \/ load_end \/ \E g \in Names : load_new(g) \/ load_alias(g) \/ load_fails(g)
  <2>1. /\ stage = "loading" /\ stage' \in {"loading", "binding", "exit_error"}
        /\ cfg' = cfg /\ device' = device /\ bound' = bound
    BY <1>4 DEF skip_constant, load_new, load_alias, load_fails, load_end, loading, weightVars
  <2> QED BY <2>1, <1>1, <1>3
<1>5. ASSUME NEW c \in Contexts, bind(c) PROVE WeightInd'
  <2>1. /\ stage = (IF c = "prefill" THEN "binding" ELSE "binding_decode")
        /\ stage' = (IF c = "prefill" THEN "binding_decode" ELSE "bound")
        /\ bound' = [bound EXCEPT ![c] = BoundWeights]
        /\ cfg' = cfg /\ device' = device /\ aliases' = aliases
    BY <1>5 DEF bind, BoundWeights, Loaded
  <2>2. BoundWeights' = BoundWeights
    BY <2>1 DEF BoundWeights, Loaded, Constants, Constant, NumConstants, LayerWeights
  <2>3. /\ bound = [d \in Contexts |-> bound[d]] /\ cfg.num_layers \in Int /\ device \in Devices
        /\ c # "prefill" => bound["prefill"] = BoundWeights
    BY <2>1 DEF WeightInd, ParseSteps
  <2>4. /\ bound' = [d \in Contexts |-> bound'[d]]
        /\ \A d \in Contexts : bound'[d] = IF d = c THEN BoundWeights ELSE bound[d]
    BY <2>1, <2>3
  <2>5. /\ stage' = "bound" => \A d \in Contexts : bound'[d] = BoundWeights
        /\ stage' = "binding_decode" => bound'["prefill"] = BoundWeights
    BY <2>1, <2>3, <2>4 DEF Contexts
  <2> QED BY <2>1, <2>2, <2>3, <2>4, <2>5 DEF WeightInd, ParseSteps, RunStages
<1> QED BY <1>1, <1>2, <1>4, <1>5 DEF WeightNext

\* The kernels of a run read every constant between them, and the attention
\* of the first layer looks at the heads.
LEMMA KernelsReadAll ==
  ASSUME cfg.num_layers \in Nat \ {0}, \A i \in 1..NumOps : WeightsThere(i)
  PROVE  Complete
<1> DEFINE n == cfg.num_layers
           w == Len(LayerWeights)
           Usable == {v \in Loaded : weight_ok(v, storage[aliases[v]])}
<1>1. w \in {9, 11}
  BY DEF LayerWeights
<1>2. NumOps = 2 * n + 2 /\ NumConstants = 3 + n * w /\ n \in Nat \ {0}
  BY DEF NumOps, NumConstants
<1>8. heads_ok
  <2>1. 2 \in 1..NumOps /\ IsAttention(2)
    BY <1>2 DEF IsAttention
  <2> QED BY <2>1 DEF WeightsThere
<1> HIDE DEF n, w
<1> SUFFICES ASSUME NEW i \in 1..NumConstants PROVE Constant(i) \in Usable
  BY <1>8 DEF Constants, Complete, Loaded
<1>3. NumConstants \in Nat /\ NumConstants > 11 /\ NumOps \in Nat /\ NumOps > 3
  BY <1>1, <1>2
<1>4. \A k \in 1..NumOps : WeightsOf(k) \subseteq Usable
  BY DEF WeightsThere, Sound
<1> HIDE DEF Usable
<1>5. CASE i = 1
  <2>1. Constant(i) = <<"tok_embeddings">>
    BY <1>5, <1>3 DEF Constant
  <2>2. WeightsOf(1) = {<<"tok_embeddings">>}
    BY DEF WeightsOf
  <2> QED BY <2>1, <2>2, <1>3, <1>4
<1>6. CASE i = 2 \/ i = NumConstants
  <2>1. Constant(i) \in {<<"lm_head">>, <<"output_norm">>}
    BY <1>6, <1>3 DEF Constant
  <2>2. WeightsOf(NumOps) = {<<"output_norm">>, <<"lm_head">>}
    BY <1>3 DEF WeightsOf
  <2>3. NumOps \in 1..NumOps
    BY <1>3
  <2> QED BY <2>1, <2>2, <2>3, <1>4
<1>7. CASE i # 1 /\ i # 2 /\ i # NumConstants
  <2> DEFINE l == (i - 3) \div w
             s == LayerWeights[1 + ((i - 3) % w)]
             v == <<"layer", l, s>>
  <2>1. Constant(i) = v
    BY <1>7 DEF Constant, w
  <2>2. l \in 0..(n - 1)
    <3>1. i \in Nat /\ i >= 3 /\ i < NumConstants
      BY <1>3, <1>7
    <3>2. CASE w = 9
      <4>1. i - 3 \in Nat /\ i - 3 < n * 9
        BY <3>1, <3>2, <1>2
      <4> QED BY <4>1, <3>2, <1>2
    <3>3. CASE w = 11
      <4>1. i - 3 \in Nat /\ i - 3 < n * 11
        BY <3>1, <3>3, <1>2
      <4> QED BY <4>1, <3>3, <1>2
    <3> QED BY <3>2, <3>3, <1>1
  <2> HIDE DEF l, s
  <2>3. Len(v) = 3 /\ v[2] = l /\ v[3] = s
    OBVIOUS
  <2>4. v \in Constants
    BY <2>1 DEF Constants
  <2>5. ASSUME NEW k \in 2..(NumOps - 1), LayerOf(k) = l, s \in BeforeAttention <=> k % 2 = 0
        PROVE  v \in Usable
    <3>1. (s \in BeforeAttention <=> IsAttention(k)) /\ k # 1 /\ k # NumOps /\ k \in 1..NumOps
      BY <2>5, <1>3 DEF IsAttention
    <3> HIDE DEF v
    <3>2. v \in WeightsOf(k)
      BY <3>1, <2>3, <2>4, <2>5 DEF WeightsOf
    <3> QED BY <3>1, <3>2, <1>4
  <2>6. CASE s \in BeforeAttention
    <3>1. 2 * l + 2 \in 2..(NumOps - 1) /\ (2 * l + 2) % 2 = 0 /\ LayerOf(2 * l + 2) = l
      BY <2>2, <1>2 DEF LayerOf
    <3> HIDE DEF v
    <3> QED BY <3>1, <2>1, <2>5, <2>6
  <2>7. CASE s \notin BeforeAttention
    <3>1. 2 * l + 3 \in 2..(NumOps - 1) /\ (2 * l + 3) % 2 # 0 /\ LayerOf(2 * l + 3) = l
      BY <2>2, <1>2 DEF LayerOf
    <3> HIDE DEF v
    <3> QED BY <3>1, <2>1, <2>5, <2>7
  <2> QED BY <2>6, <2>7
<1> QED BY <1>5, <1>6, <1>7

-----------------------------------------------------------------------------
(* Before main makes its cache, and after it is done. *)

\* The constructors.
LEMMA GenerateInitInd == ASSUME GenerateInit PROVE GenerateInd
<1>1. ParsedInd /\ WeightInd
  BY ParseInitInd, WeightInitInd DEF GenerateInit
<1>2. MainInd
  <2>1. Len(all_tokens) = 0 /\ all_tokens \in Seq(Nat)
    BY DEF GenerateInit
  <2> QED BY <2>1 DEF GenerateInit, KVCacheInit, ParseInit, MainInd, Stages, ParseSteps, RunStages,
                      ExitStages, Limit
<1>3. stage = "header"
  BY DEF GenerateInit, ParseInit
<1> QED BY <1>1, <1>2, <1>3 DEF GenerateInd, RunInd, RunStages, CacheHoldsTokens

\* Before main makes its cache nothing but the stage matters to it.
LEMMA NotYetRunning ==
  ASSUME MainInd, UNCHANGED <<kvVars, mainVars>>, stage \notin RunStages \cup ExitStages,
         stage' \in Stages \ RunStages, stage' # "exit_ok"
  PROVE  MainInd' /\ RunInd' /\ CacheHoldsTokens'
<1>1. /\ UNCHANGED <<max_seq_len, cached_len>>
      /\ UNCHANGED <<max_new_tokens, prompt_len, all_tokens, ctx, op, token, step>>
  BY DEF kvVars, mainVars
<1>2. MainInd'
  BY <1>1 DEF MainInd, Limit
<1>3. RunInd' /\ CacheHoldsTokens'
  BY DEF RunInd, CacheHoldsTokens, RunStages
<1> QED BY <1>2, <1>3

\* A step of the parser.
LEMMA ParsingInd == ASSUME GenerateInd, parsing PROVE GenerateInd'
<1>1. ParsedInd'
  BY ParseStepInd DEF GenerateInd, parsing
<1>2. /\ stage \in ParseSteps /\ stage' \in ParseSteps \cup {"parsed", "parse_failed"}
      /\ UNCHANGED <<weightVars, kvVars, mainVars>>
  BY DEF parsing, ParseNext, ParseSteps, read_header, read_key, read_scalar, read_array, array_return,
         emplace, metadata_end, read_tensor_info, parse_end, parse_fails, read_fails
<1>3. WeightInd'
  <2>1. UNCHANGED <<cfg, bound>>
    BY <1>2 DEF weightVars
  <2> QED BY <1>2, <2>1 DEF GenerateInd, WeightInd, ParseSteps, RunStages
<1>4. MainInd' /\ RunInd' /\ CacheHoldsTokens'
  BY <1>2, NotYetRunning DEF GenerateInd, ParseSteps, RunStages, ExitStages, Stages
<1> QED BY <1>1, <1>3, <1>4 DEF GenerateInd

\* A step of the loader.
LEMMA WeightsInd == ASSUME GenerateInd, weights PROVE GenerateInd'
<1>1. /\ ParsedInd' /\ WeightInd' /\ UNCHANGED <<kvVars, mainVars>>
      /\ stage \in {"parsed", "loading", "binding", "binding_decode"}
      /\ stage' \in {"loading", "binding", "binding_decode", "bound", "exit_error"}
  BY WeightStepInd DEF GenerateInd, weights
<1>2. MainInd' /\ RunInd' /\ CacheHoldsTokens'
  BY <1>1, NotYetRunning DEF GenerateInd, RunStages, ExitStages, Stages
<1> QED BY <1>1, <1>2 DEF GenerateInd

\* The cache cannot be allocated.
LEMMA InitCacheFailsInd == ASSUME GenerateInd, init_cache_fails PROVE GenerateInd'
<1>1. /\ stage = "bound" /\ stage' = "exit_error"
      /\ UNCHANGED <<parseVars, weightVars>> /\ UNCHANGED <<kvVars, mainVars>>
  BY DEF init_cache_fails
<1>2. ParsedInd' /\ WeightInd'
  BY <1>1, InputKept DEF GenerateInd, ExitStages
<1>3. MainInd' /\ RunInd' /\ CacheHoldsTokens'
  BY <1>1, NotYetRunning DEF GenerateInd, RunStages, ExitStages, Stages
<1> QED BY <1>2, <1>3 DEF GenerateInd

\* main makes the cache and starts the prefill run.
LEMMA InitCacheInd == ASSUME GenerateInd, init_cache PROVE GenerateInd'
<1>1. PICK p \in Prompts, m \in MaxNewTokens, s \in SampConfigs[device] :
         start(p, m, s) /\ kv_init(cfg.num_layers, cfg.num_kv_heads, cfg.head_dim, max_seq_len_of(Len(p), m))
  BY DEF init_cache, EncodedPrompts
<1>2. /\ stage = "bound" /\ stage' = "running" /\ ctx' = "prefill" /\ op' = 1
      /\ UNCHANGED <<parseVars, weightVars>> /\ UNCHANGED <<logits, token, step>>
  BY DEF init_cache
<1>3. ParsedInd' /\ WeightInd' /\ cfg' = cfg /\ device' = device
  BY <1>2, InputKept DEF GenerateInd, RunStages, weightVars
<1>4. p \in Seq(Nat) /\ p # <<>> /\ Len(p) \in Nat \ {0} /\ m \in Int
  BY GenerateAssumption
<1>5. step = 0 /\ token = NoToken /\ cfg.num_layers \in Int
  BY <1>2 DEF GenerateInd, MainInd, WeightInd, RunStages, ExitStages, ParseSteps
<1>6. s.top_k \in Int /\ s.p \in Int /\ s.q \in Nat \ {0}
  <2>1. device \in Devices
    BY <1>2 DEF GenerateInd, WeightInd, ParseSteps
  <2> QED BY <2>1, GenerateAssumption
<1>7. /\ all_tokens' = p /\ prompt_len' = Len(p) /\ max_new_tokens' = m /\ samp_cfg' = s
  BY <1>1 DEF start
<1>8. /\ cached_len' = 0 /\ max_seq_len' \in Nat /\ CacheMade'
  <2> DEFINE sizes_ok == kv_sizes_ok(cfg.num_layers, cfg.num_kv_heads, cfg.head_dim, Len(p) + m)
  <2>1. CASE ~sizes_ok
    BY <2>1, <1>1, <1>3, <1>4, <1>7 DEF kv_init, max_seq_len_of, Emptied, CacheMade
  <2>2. CASE sizes_ok
    <3>1. PICK k, n : k = cfg.num_layers /\ n = Len(p) + m
      OBVIOUS
    <3>2. k > 0 /\ n > 0
      BY <3>1, <2>2 DEF kv_sizes_ok
    <3>3. /\ layers' = [l \in 0..(k - 1) |-> [q \in 0..(n - 1) |-> ZeroKV]]
          /\ max_seq_len' = n /\ cached_len' = 0
      BY <3>1, <2>2, <1>1 DEF kv_init, max_seq_len_of
    <3>4. DOMAIN layers' = 0..(k - 1) /\ \A l \in 0..(k - 1) : DOMAIN layers'[l] = 0..(n - 1)
      BY <3>3
    <3>5. max_seq_len' \in Nat /\ max_seq_len' = Len(p) + m /\ cached_len' = 0
      BY <3>1, <3>2, <3>3, <1>4
    <3>6. CacheMade'
      <4>1. /\ cfg'.num_layers = k /\ prompt_len' + max_new_tokens' = n /\ max_seq_len' = n
            /\ kv_sizes_ok(k, cfg'.num_kv_heads, cfg'.head_dim, n)
        BY <3>1, <2>2, <3>3, <1>3, <1>7
      <4> QED BY <4>1, <3>4 DEF CacheMade
    <3> QED BY <3>5, <3>6
  <2> QED BY <2>1, <2>2
<1>9. MainInd'
  BY <1>2, <1>4, <1>5, <1>7, <1>8 DEF MainInd, Stages, RunStages, ExitStages, Limit
<1>10. RunInd'
  BY <1>2, <1>4, <1>5, <1>6, <1>7, <1>8 DEF RunInd
<1>11. CacheHoldsTokens'
  <2>1. ASSUME kv_initialized', NEW l \in DOMAIN layers' PROVE ~(op' > 2 * l + 2)
    <3>1. l \in 0..(cfg.num_layers - 1) /\ cfg.num_layers \in Int
      BY <2>1, <1>3, <1>5, <1>8 DEF CacheMade, kv_initialized, kv_sizes_ok
    <3> QED BY <3>1, <1>2
  <2>2. 0..(cached_len' - 1) = {}
    BY <1>8
  <2> QED BY <2>1, <2>2, <1>2, <1>8 DEF CacheHoldsTokens
<1> QED BY <1>3, <1>9, <1>10, <1>11 DEF GenerateInd

\* main returns.
LEMMA LeaveInd == ASSUME GenerateInd, leave PROVE GenerateInd'
<1>1. /\ stage \in ExitStages /\ stage' = stage /\ UNCHANGED <<parseVars, weightVars>>
      /\ UNCHANGED <<max_new_tokens, prompt_len, all_tokens, ctx, op, token, step>>
      /\ \/ max_seq_len' = 0 /\ cached_len' = 0
         \/ UNCHANGED <<max_seq_len, cached_len>>
  BY DEF leave, kv_release, kv_release_fails, Emptied, mainVars, ExitStages
<1>2. ParsedInd' /\ WeightInd' /\ eos_token_id' = eos_token_id
  BY <1>1, InputKept DEF GenerateInd
<1>3. Complete' <=> Complete
  BY <1>1, NamesKept
<1>4. MainInd'
  BY <1>1, <1>2, <1>3 DEF GenerateInd, MainInd, Limit
<1> QED BY <1>1, <1>2, <1>4 DEF GenerateInd, RunInd, CacheHoldsTokens, RunStages, ExitStages

-----------------------------------------------------------------------------
(* Runs. *)

\* What a run feeds to the model, and where its rows go.
LEMMA RunFeeds ==
  ASSUME GenerateInd, stage = "running"
  PROVE  /\ Len(all_tokens) \in Nat \ {0} /\ cached_len \in Nat /\ max_seq_len \in Nat
         /\ \A i : has_weights(i) /\ kernel_accepts(i) <=>
                     WeightsThere(i) /\ (i = 1 /\ device = "cpu" => ids_ok)
         /\ kv_initialized =>
              /\ cached_len < Len(all_tokens)
              /\ Len(input_ids) = Len(all_tokens) - cached_len
              /\ DOMAIN Rows = 1..Len(input_ids) /\ Len(Rows) = Len(input_ids)
              /\ \A t \in 1..Len(input_ids) :
                   Rows[t] = <<all_tokens[cached_len + t], cached_len + t - 1>>
              /\ kv_cache_advance_tokens = Len(input_ids)
              /\ ctx = "decode" => /\ cached_len > 0 /\ Len(input_ids) = 1
                                   /\ can_append(1)
<1>1. /\ all_tokens \in Seq(Nat) /\ prompt_len \in Nat /\ step \in Nat /\ max_new_tokens \in Int
      /\ Len(all_tokens) = prompt_len + step /\ prompt_len > 0 /\ Len(all_tokens) \in Nat
      /\ cached_len \in Nat /\ max_seq_len \in Nat
      /\ \/ ctx = "prefill" /\ step = 0
         \/ ctx = "decode" /\ step > 0 /\ step < max_new_tokens
  BY DEF GenerateInd, MainInd, RunInd, RunStages
<1>2. ASSUME NEW i
      PROVE  has_weights(i) /\ kernel_accepts(i) <=>
                WeightsThere(i) /\ (i = 1 /\ device = "cpu" => ids_ok)
  <2>1. bound[ctx] = BoundWeights
    BY <1>1 DEF GenerateInd, WeightInd, RunStages, Contexts
  <2>2. has_weights(i) <=> WeightsOf(i) \subseteq Loaded
    BY <2>1 DEF has_weights, BoundWeights
  <2>3. \A v \in Loaded : Tensor(v) = storage[aliases[v]]
    BY <2>1 DEF Tensor, BoundWeights
  <2>4. ASSUME has_weights(i)
        PROVE  kernel_accepts(i) <=> WeightsThere(i) /\ (i = 1 /\ device = "cpu" => ids_ok)
    BY <2>2, <2>3, <2>4 DEF kernel_accepts, WeightsThere, Sound
  <2>5. WeightsThere(i) => has_weights(i)
    BY <2>2 DEF WeightsThere, Sound
  <2> QED BY <2>4, <2>5
<1>3. ASSUME kv_initialized
      PROVE  /\ cached_len = IF ctx = "prefill" THEN 0 ELSE Len(all_tokens) - 1
             /\ max_seq_len = prompt_len + max_new_tokens
  BY <1>3, <1>1 DEF GenerateInd, CacheHoldsTokens, RunStages, RunInd, CacheMade, kv_initialized
<1>4. CASE kv_initialized /\ ctx = "prefill"
  <2>1. cached_len = 0 /\ input_ids = all_tokens /\ pos_offset = 0 /\ kv_cache_advance_tokens = prompt_len
    BY <1>3, <1>4 DEF input_ids, pos_offset, kv_cache_advance_tokens
  <2>2. Rows = [s \in DOMAIN all_tokens |-> <<all_tokens[s], 0 + s - 1>>]
    BY <2>1 DEF Rows
  <2>3. DOMAIN all_tokens = 1..Len(all_tokens)
    BY <1>1
  <2>4. DOMAIN Rows = 1..Len(all_tokens) /\ Len(Rows) = Len(all_tokens)
    BY <1>1, <2>2, <2>3
  <2>5. \A t \in 1..Len(all_tokens) : Rows[t] = <<all_tokens[0 + t], 0 + t - 1>>
    BY <2>2, <2>3
  <2> QED BY <1>1, <1>2, <1>4, <2>1, <2>4, <2>5
<1>5. CASE kv_initialized /\ ctx = "decode"
  <2> DEFINE n == Len(all_tokens)
  <2>1. /\ cached_len = n - 1 /\ input_ids = <<all_tokens[n]>> /\ kv_cache_advance_tokens = 1
        /\ n > 1
    BY <1>1, <1>3, <1>5 DEF input_ids, kv_cache_advance_tokens
  <2>2. Len(input_ids) = 1 /\ DOMAIN input_ids = 1..1 /\ input_ids[1] = all_tokens[n]
    BY <2>1
  <2>3. pos_offset = cached_len
    BY <2>1, <2>2, <1>5 DEF pos_offset
  <2>4. Rows = [s \in 1..1 |-> <<input_ids[s], cached_len + s - 1>>]
    BY <2>2, <2>3 DEF Rows
  <2>5. DOMAIN Rows = 1..1 /\ Len(Rows) = 1 /\ Rows[1] = <<all_tokens[n], cached_len + 1 - 1>>
    BY <2>4, <2>2
  <2>6. can_append(1)
    BY <1>1, <1>3, <1>5 DEF can_append
  <2> HIDE DEF Rows
  <2> QED BY <1>1, <1>2, <1>5, <2>1, <2>2, <2>5, <2>6
<1> QED BY <1>1, <1>2, <1>4, <1>5

\* One kernel of a run.
LEMMA RunKernelInd == ASSUME GenerateInd, run_kernel PROVE GenerateInd'
<1>1. /\ stage = "running" /\ stage' = stage /\ op <= NumOps /\ op' = op + 1
      /\ has_weights(op) /\ kernel_accepts(op)
      /\ UNCHANGED <<parseVars, weightVars>>
      /\ UNCHANGED <<max_seq_len, cached_len, max_new_tokens, samp_cfg, prompt_len, all_tokens, ctx,
                     logits, token, step>>
  BY DEF run_kernel, running
<1>2. /\ ParsedInd' /\ WeightInd' /\ eos_token_id' = eos_token_id
      /\ (Complete' <=> Complete) /\ NumOps' = NumOps /\ cfg' = cfg
      /\ \A i : WeightsThere(i)' <=> WeightsThere(i)
  BY <1>1, InputKept, NamesKept DEF GenerateInd, weightVars
<1>3. op \in Nat /\ op > 0 /\ cfg.num_layers \in Int /\ CacheMade
  BY <1>1 DEF GenerateInd, MainInd, RunInd, RunStages, WeightInd, ParseSteps
<1>4. /\ DOMAIN layers' = DOMAIN layers
      /\ \A l \in DOMAIN layers : DOMAIN layers'[l] = DOMAIN layers[l]
  BY DEF run_kernel, attention, store
<1>5. MainInd'
  BY <1>1, <1>2 DEF GenerateInd, MainInd, Limit
<1>6. CacheMade'
  BY <1>1, <1>2, <1>3, <1>4 DEF CacheMade
<1>7. RunInd'
  <2>1. WeightsThere(op)
    BY <1>1, RunFeeds
  <2>2. \A i \in 1..(op' - 1) : WeightsThere(i)
    BY <2>1, <1>1, <1>3 DEF GenerateInd, RunInd, RunStages
  <2> QED BY <1>1, <1>2, <1>3, <1>6, <2>2 DEF GenerateInd, RunInd, RunStages, kv_initialized, InVocabulary
<1>8. CacheHoldsTokens'
  <2>1. kv_initialized => cached_len = IF ctx = "prefill" THEN 0 ELSE Len(all_tokens) - 1
    BY <1>1 DEF GenerateInd, CacheHoldsTokens, RunStages
  <2>2. ASSUME kv_initialized, NEW l \in DOMAIN layers',
               NEW p \in 0..((IF op + 1 > 2 * l + 2 THEN Len(all_tokens) ELSE cached_len) - 1)
        PROVE  layers'[l][p] = <<all_tokens[p + 1], p>>
    <3>1. l \in DOMAIN layers /\ l \in Nat /\ DOMAIN layers[l] = 0..(max_seq_len - 1)
      BY <2>2, <1>3, <1>4 DEF CacheMade, kv_initialized
    <3>2. \A q \in 0..((IF op > 2 * l + 2 THEN Len(all_tokens) ELSE cached_len) - 1) :
             layers[l][q] = <<all_tokens[q + 1], q>>
      BY <2>2, <3>1, <1>1 DEF GenerateInd, CacheHoldsTokens, RunStages
    <3>3. /\ Len(all_tokens) \in Nat \ {0} /\ cached_len \in Nat /\ max_seq_len \in Nat
          /\ cached_len < Len(all_tokens)
          /\ Len(input_ids) = Len(all_tokens) - cached_len
          /\ Len(Rows) = Len(input_ids)
          /\ \A t \in 1..Len(input_ids) :
               Rows[t] = <<all_tokens[cached_len + t], cached_len + t - 1>>
      BY <2>2, <1>1, RunFeeds
    <3>4. CASE op = 2 * l + 2
      <4>1. op < NumOps
        <5>1. l <= cfg.num_layers - 1 /\ NumOps = 2 * cfg.num_layers + 2
          BY <2>2, <3>1, <1>3 DEF CacheMade, kv_initialized, NumOps
        <5> QED BY <5>1, <3>1, <3>4, <1>3
      <4>2. IsAttention(op) /\ LayerOf(op) = l
        BY <3>1, <3>4, <4>1 DEF IsAttention, LayerOf
      <4>3. attention_ok /\ layers' = [layers EXCEPT ![l] = [q \in DOMAIN @ |->
               IF q \in cached_len..(cached_len + Len(Rows) - 1) THEN Rows[q - cached_len + 1] ELSE @[q]]]
        BY <4>2, <2>2 DEF run_kernel, attention, store
      <4>4. can_append(Len(input_ids))
        BY <4>3, <2>2 DEF attention_ok
      <4>5. PICK n \in Nat : n = Len(all_tokens)
        BY <3>3
      <4>6. n <= max_seq_len /\ cached_len < n
        BY <4>4, <4>5, <3>3 DEF can_append
      <4>7. p \in 0..(n - 1) /\ p \in DOMAIN layers[l]
        BY <4>5, <4>6, <3>1, <3>3, <3>4, <2>2
      <4>8. layers'[l][p] = IF p \in cached_len..(cached_len + Len(Rows) - 1)
                            THEN Rows[p - cached_len + 1] ELSE layers[l][p]
        BY <4>3, <4>7, <3>1
      <4>9. cached_len + Len(Rows) - 1 = n - 1
        BY <3>3, <4>5
      <4>10. CASE p >= cached_len
        <5>1. p \in cached_len..(n - 1) /\ p - cached_len + 1 \in 1..Len(input_ids)
          BY <4>5, <4>7, <4>10, <3>3
        <5>2. layers'[l][p] = Rows[p - cached_len + 1]
          BY <5>1, <4>8, <4>9
        <5>3. Rows[p - cached_len + 1] = <<all_tokens[p + 1], p>>
          <6>1. PICK t \in 1..Len(input_ids) : t = p - cached_len + 1
            BY <5>1
          <6>2. Rows[t] = <<all_tokens[cached_len + t], cached_len + t - 1>>
            BY <3>3
          <6>3. cached_len + t = p + 1 /\ cached_len + t - 1 = p
            BY <6>1, <4>7, <3>3
          <6> QED BY <6>1, <6>2, <6>3, Zenon
        <5> QED BY <5>2, <5>3
      <4>11. CASE p < cached_len
        <5>1. p \in 0..(cached_len - 1) /\ p \notin cached_len..(n - 1)
          BY <4>7, <4>11, <3>3
        <5>2. layers[l][p] = <<all_tokens[p + 1], p>>
          BY <5>1, <3>2, <3>4, <3>1
        <5> QED BY <5>1, <5>2, <4>8, <4>9
      <4> QED BY <4>7, <4>10, <4>11, <3>3
    <3>5. CASE op # 2 * l + 2
      <4>1. layers'[l] = layers[l]
        <5>1. CASE ~IsAttention(op)
          BY <5>1 DEF run_kernel
        <5>2. CASE IsAttention(op)
          <6>1. LayerOf(op) # l
            BY <5>2, <3>1, <3>5, <1>3 DEF IsAttention, LayerOf
          <6> QED BY <6>1, <5>2, <2>2, <3>1 DEF run_kernel, attention, store
        <5> QED BY <5>1, <5>2
      <4>2. op + 1 > 2 * l + 2 <=> op > 2 * l + 2
        BY <3>1, <3>5, <1>3
      <4> QED BY <4>1, <4>2, <3>2
    <3> QED BY <3>4, <3>5
  <2> QED BY <1>1, <2>1, <2>2 DEF CacheHoldsTokens, kv_initialized
<1> QED BY <1>2, <1>5, <1>7, <1>8 DEF GenerateInd


\* The end of a run.
LEMMA RunEndInd == ASSUME GenerateInd, run_end PROVE GenerateInd'
<1>1. /\ stage = "running" /\ stage' = "sampling" /\ op = NumOps + 1
      /\ UNCHANGED <<parseVars, weightVars>>
      /\ logits' \in Logits /\ DOMAIN logits' = 0..(cfg.vocab - 1)
      /\ UNCHANGED <<layers, max_seq_len, max_new_tokens, samp_cfg, prompt_len, all_tokens, ctx, op,
                     token, step>>
      /\ kv_initialized
  BY DEF run_end, advance_ok
<1>2. /\ ParsedInd' /\ WeightInd' /\ eos_token_id' = eos_token_id
      /\ (Complete' <=> Complete) /\ NumOps' = NumOps /\ cfg' = cfg
      /\ \A i : WeightsThere(i)' <=> WeightsThere(i)
  BY <1>1, InputKept, NamesKept DEF GenerateInd, weightVars, RunStages
<1>3. cached_len' = Len(all_tokens) /\ Len(all_tokens) \in 0..max_seq_len
  <2>1. /\ Len(all_tokens) \in Nat \ {0} /\ cached_len \in Nat /\ max_seq_len \in Nat
        /\ kv_cache_advance_tokens = Len(all_tokens) - cached_len
    BY <1>1, RunFeeds
  <2>2. PICK n \in Nat : n = Len(all_tokens)
    BY <2>1
  <2>3. can_append(n - cached_len) /\ cached_len' = Clamped(cached_len + (n - cached_len))
    BY <2>1, <2>2 DEF run_end, advance_ok, advance
  <2>4. n <= max_seq_len /\ cached_len + (n - cached_len) = n
    BY <2>1, <2>3 DEF can_append
  <2>5. cached_len' = n
    BY <2>1, <2>3, <2>4 DEF Clamped
  <2> QED BY <2>1, <2>2, <2>4, <2>5
<1>4. MainInd'
  BY <1>1, <1>2, <1>3 DEF GenerateInd, MainInd, Limit, Stages, RunStages, ExitStages
<1>5. CacheMade
  BY <1>1 DEF GenerateInd, RunInd, RunStages
<1>6. CacheMade'
  BY <1>1, <1>2, <1>5 DEF CacheMade
<1>7. RunInd'
  BY <1>1, <1>2, <1>6 DEF GenerateInd, RunInd, RunStages, kv_initialized, InVocabulary
<1>8. CacheHoldsTokens'
  <2>1. ASSUME NEW l \in DOMAIN layers, NEW p \in 0..(Len(all_tokens) - 1)
        PROVE  layers[l][p] = <<all_tokens[p + 1], p>>
    <3>1. op > 2 * l + 2
      <4>1. l \in 0..(cfg.num_layers - 1) /\ cfg.num_layers \in Int
        BY <1>1, <1>5 DEF CacheMade, kv_initialized, GenerateInd, WeightInd, ParseSteps
      <4> QED BY <4>1, <1>1 DEF NumOps
    <3> QED BY <3>1, <1>1 DEF GenerateInd, CacheHoldsTokens, RunStages
  <2> QED BY <2>1, <1>1, <1>3 DEF CacheHoldsTokens
<1> QED BY <1>2, <1>4, <1>7, <1>8 DEF GenerateInd

\* A run that fails.  On the CPU no decode run does: the kernels took its
\* weights in the prefill run, its token is one of the vocabulary, and the
\* cache was made with room for it.
LEMMA RunFailsInd == ASSUME GenerateInd, run_fails PROVE GenerateInd'
<1>1. /\ stage = "running" /\ stage' \in ExitStages
      /\ UNCHANGED <<parseVars, weightVars>> /\ UNCHANGED <<kvVars, mainVars>>
  BY DEF run_fails, running, ExitStages
<1>2. /\ ParsedInd' /\ WeightInd' /\ eos_token_id' = eos_token_id
      /\ (Complete' <=> Complete)
  BY <1>1, InputKept, NamesKept DEF GenerateInd, weightVars, RunStages
<1>3. stage' = "exit_error"
  <2> SUFFICES ASSUME device = "cpu", ctx = "decode" PROVE FALSE
    BY DEF run_fails
  <2>1. /\ kv_initialized /\ op \in Nat \ {0} /\ \A i \in 1..NumOps : WeightsThere(i)
    BY <1>1 DEF GenerateInd, MainInd, RunInd, RunStages
  <2>2. cached_len > 0 /\ Len(input_ids) = 1 /\ can_append(1) /\ kv_cache_advance_tokens = 1
    BY <1>1, <2>1, RunFeeds
  <2>3. NumOps \in Int
    BY <1>1 DEF GenerateInd, WeightInd, NumOps, ParseSteps
  <2>6. ids_ok
    <3>1. input_ids = <<all_tokens[Len(all_tokens)]>> /\ InVocabulary(all_tokens[Len(all_tokens)])
      BY <1>1 DEF input_ids, GenerateInd, RunInd, RunStages
    <3> QED BY <3>1 DEF ids_ok, InVocabulary
  <2>4. op <= NumOps => has_weights(op) /\ kernel_accepts(op)
    BY <1>1, <2>1, <2>3, <2>6, RunFeeds
  <2>5. attention_ok /\ advance_ok
    BY <2>1, <2>2 DEF attention_ok, advance_ok
  <2> QED BY <2>4, <2>5 DEF run_fails, running
<1>4. MainInd'
  <2>1. UNCHANGED <<max_seq_len, cached_len, max_new_tokens, prompt_len, all_tokens, ctx, op, token, step>>
    BY <1>1 DEF kvVars, mainVars
  <2> QED BY <2>1, <1>1, <1>2, <1>3 DEF GenerateInd, MainInd, Limit, Stages, ExitStages, RunStages
<1> QED BY <1>2, <1>3, <1>4 DEF GenerateInd, RunInd, CacheHoldsTokens, RunStages

\* A norm that reads too far.
LEMMA ReadPastInd == ASSUME GenerateInd, read_past_gamma PROVE GenerateInd'
<1>1. /\ stage = "running" /\ stage' = "exit_error"
      /\ UNCHANGED <<parseVars, weightVars>> /\ UNCHANGED <<kvVars, mainVars>>
  BY DEF read_past_gamma, running
<1>2. /\ ParsedInd' /\ WeightInd' /\ eos_token_id' = eos_token_id /\ (Complete' <=> Complete)
  BY <1>1, InputKept, NamesKept DEF GenerateInd, RunStages, ExitStages
<1>3. MainInd'
  <2>1. UNCHANGED <<max_seq_len, cached_len, max_new_tokens, prompt_len, all_tokens, ctx, op, token, step>>
    BY <1>1 DEF kvVars, mainVars
  <2> QED BY <2>1, <1>1, <1>2 DEF GenerateInd, MainInd, Limit, Stages, ExitStages, RunStages
<1> QED BY <1>1, <1>2, <1>3 DEF GenerateInd, RunInd, CacheHoldsTokens, RunStages

\* Sampling, and the test of the loop.
LEMMA SampleInd == ASSUME GenerateInd, sample_token PROVE GenerateInd'
<1>1. /\ stage = "sampling" /\ stage' \in {"running", "exit_ok"}
      /\ UNCHANGED <<parseVars, weightVars>> /\ UNCHANGED kvVars
      /\ UNCHANGED <<max_new_tokens, samp_cfg, prompt_len, logits>>
      /\ token' \in sample(samp_cfg, logits, all_tokens)
  BY DEF sample_token
<1>2. /\ ParsedInd' /\ WeightInd' /\ eos_token_id' = eos_token_id
      /\ (Complete' <=> Complete) /\ NumOps' = NumOps /\ cfg' = cfg
      /\ \A i : WeightsThere(i)' <=> WeightsThere(i)
  BY <1>1, InputKept, NamesKept DEF GenerateInd, weightVars, RunStages, ExitStages
<1>3. /\ prompt_len \in Nat \ {0} /\ CacheMade
      /\ samp_cfg.top_k \in Int /\ samp_cfg.p \in Int /\ samp_cfg.q \in Nat \ {0}
      /\ op = NumOps + 1 /\ kv_initialized /\ logits \in Logits /\ DOMAIN logits = 0..(cfg.vocab - 1)
      /\ \A i \in 1..(op - 1) : WeightsThere(i)
      /\ \/ step = 0
         \/ step > 0 /\ step < max_new_tokens
      /\ all_tokens \in Seq(Nat) /\ step \in Nat /\ max_new_tokens \in Int
      /\ Len(all_tokens) = prompt_len + step /\ max_seq_len \in Nat /\ cached_len \in 0..max_seq_len
      /\ cached_len = Len(all_tokens)
  BY <1>1 DEF GenerateInd, MainInd, RunInd, RunStages, CacheHoldsTokens
<1>4. cfg.num_layers \in Nat \ {0}
  BY <1>1, <1>3 DEF GenerateInd, WeightInd, ParseSteps, CacheMade, kv_initialized, kv_sizes_ok
<1>5. \A i \in 1..NumOps : WeightsThere(i)
  BY <1>3, <1>4 DEF NumOps
<1>6. Complete
  BY <1>4, <1>5, KernelsReadAll
<1>7. token' \in Nat /\ token' # NoToken /\ InVocabulary(token')
  <2>1. PICK lg \in Logits : lg = logits
    BY <1>3
  <2>2. PICK s : s = samp_cfg
    OBVIOUS
  <2>3. sample(s, lg, all_tokens) \subseteq DOMAIN lg /\ DOMAIN lg \subseteq Nat
    <3>1. /\ DOMAIN lg \subseteq Nat /\ IsLogits(lg) /\ MassRange \in Nat \ {0}
          /\ s.top_k \in Int /\ s.p \in Int /\ s.q \in Nat \ {0}
      BY <2>1, <2>2, <1>3, GenerateAssumption DEF IsLogits
    <3> QED BY <3>1, <1>3, SampledEligible
  <2>4. token' \in Nat /\ token' \in DOMAIN logits
    BY <2>1, <2>2, <2>3, <1>1
  <2> QED BY <2>4, <1>3 DEF NoToken, InVocabulary
<1>8. UNCHANGED <<layers, max_seq_len, cached_len>>
  BY <1>1 DEF kvVars
<1>9. CacheMade' /\ kv_initialized'
  BY <1>1, <1>2, <1>3, <1>8 DEF CacheMade, kv_initialized
<1>10. CASE token' = eos_token_id
  <2>1. stage' = "exit_ok" /\ UNCHANGED <<all_tokens, step, ctx, op>>
    BY <1>10 DEF sample_token
  <2>2. MainInd'
    BY <1>1, <1>2, <1>6, <1>8, <1>10, <2>1
       DEF GenerateInd, MainInd, Limit, Stages, ExitStages, RunStages
  <2> QED BY <1>2, <2>1, <2>2 DEF GenerateInd, RunInd, CacheHoldsTokens, RunStages
<1>11. CASE token' # eos_token_id
  <2>1. /\ all_tokens' = Append(all_tokens, token') /\ step' = step + 1
        /\ stage' = (IF step + 1 < max_new_tokens THEN "running" ELSE "exit_ok")
        /\ ctx' = "decode" /\ op' = 1
    BY <1>11 DEF sample_token, more_after
  <2>2. /\ all_tokens' \in Seq(Nat) /\ Len(all_tokens') = Len(all_tokens) + 1
        /\ \A i \in 1..Len(all_tokens) : all_tokens'[i] = all_tokens[i]
        /\ all_tokens'[Len(all_tokens')] = token'
    <3>1. PICK s \in Seq(Nat), t \in Nat : s = all_tokens /\ t = token'
      BY <1>3, <1>7
    <3>2. /\ Append(s, t) \in Seq(Nat) /\ Len(Append(s, t)) = Len(s) + 1
          /\ \A i \in 1..Len(s) : Append(s, t)[i] = s[i]
          /\ Append(s, t)[Len(s) + 1] = t
      BY AppendProperties
    <3> QED BY <3>1, <3>2, <2>1
  <2>3. /\ step + 1 <= Limit
        /\ ~(step + 1 < max_new_tokens) => step + 1 = Limit
    BY <1>3 DEF Limit
  <2>4. Limit' = Limit
    BY <1>1 DEF Limit
  <2>5. MainInd'
    BY <1>1, <1>2, <1>3, <1>6, <1>8, <2>1, <2>2, <2>3, <2>4
       DEF MainInd, Stages, ExitStages, RunStages
  <2>6. RunInd'
    <3>1. InVocabulary(all_tokens[Len(all_tokens)])'
      BY <1>2, <1>7, <2>2 DEF InVocabulary
    <3> QED BY <1>1, <1>2, <1>3, <1>5, <1>9, <2>1, <3>1 DEF RunInd, RunStages
  <2>7. CacheHoldsTokens'
    <3>1. ASSUME NEW l \in DOMAIN layers, NEW p \in 0..(cached_len - 1)
          PROVE  layers[l][p] = <<all_tokens'[p + 1], p>>
      <4>1. layers[l][p] = <<all_tokens[p + 1], p>>
        BY <1>1, <1>3 DEF GenerateInd, CacheHoldsTokens, RunStages
      <4>2. p + 1 \in 1..Len(all_tokens)
        BY <1>3
      <4> QED BY <4>1, <4>2, <2>2
    <3>2. \A l \in DOMAIN layers : l \in Nat
      BY <1>3, <1>4, SMTT(20) DEF CacheMade, kv_initialized
    <3>3. cached_len' = Len(all_tokens') - 1
      BY <1>3, <1>8, <2>2
    <3>4. ASSUME NEW l \in DOMAIN layers' PROVE ~(op' > 2 * l + 2)
      BY <3>2, <1>8, <2>1
    <3> QED BY <3>1, <3>3, <3>4, <1>1, <1>8, <2>1 DEF CacheHoldsTokens
  <2> QED BY <1>2, <2>5, <2>6, <2>7 DEF GenerateInd
<1> QED BY <1>10, <1>11

-----------------------------------------------------------------------------
(* The storage of the weights. *)

IsList(s) == \E S : s \in Seq(S)

\* The elements of an array are a list.
ArrayValue(e) == e.type = "ARRAY" => Len(e.v) \in Nat

\* A call of read_metadata_value with the elements it has.
IsCall(f) == {"left", "elems"} \subseteq DOMAIN f /\ IsList(f.elems)

\* What the parser holds of arrays and tensors.
TensorsInd ==
    /\ IsList(tensor_infos)
    /\ \A i \in DOMAIN tensor_infos : tensor_infos[i].dimensions \in Seq(Int)
    /\ \A k \in DOMAIN metadata : ArrayValue(metadata[k])
    /\ stage = "value" => /\ \A i \in DOMAIN frames : IsCall(frames[i])
                          /\ frames[1].left = 0 => ArrayValue(frames[1].elems[1])

\* Before the loader has begun there is nothing in the store.
BeforeLoading == ParseSteps \cup {"parsed", "parse_failed"}
NothingLoaded == /\ storage = <<>> /\ aliases = <<>> /\ total_bytes = 0 /\ next_const = 1
                 /\ \A c \in Contexts : bound[c] = <<>>

\* The bytes of each tensor in the store.
Bytes == [g \in DOMAIN storage |-> StoredBytes(g)]

CfgInts == /\ cfg.num_layers \in Int /\ cfg.hidden \in Int /\ cfg.intermediate \in Int
           /\ cfg.num_heads \in Int /\ cfg.num_kv_heads \in Int /\ cfg.head_dim \in Int
           /\ cfg.vocab \in Int

\* The store, with the constants before next_const.
Stored ==
    /\ stage = "loading" => CfgInts
    /\ next_const \in Nat \ {0}
    /\ \A v \in DOMAIN aliases : \E i \in 1..NumConstants : i < next_const /\ v = Constant(i)
    /\ aliases = [v \in DOMAIN aliases |-> aliases[v]]
    /\ \A v \in DOMAIN aliases : storage[aliases[v]].shape = ShapeOf(v)
    /\ DOMAIN storage = {aliases[v] : v \in DOMAIN aliases}
    /\ IsFiniteSet(DOMAIN storage)
    /\ \A g \in DOMAIN storage : StoredBytes(g) \in Int
    /\ total_bytes = SumOf(Bytes, DOMAIN storage)
    /\ \A c \in Contexts : bound[c] # <<>> => bound[c] = aliases

StoreInd == /\ TensorsInd
            /\ IF stage \in BeforeLoading THEN NothingLoaded ELSE Stored

\* The number of elements of a tensor is an integer.
LEMMA NumelInt == ASSUME NEW dims \in Seq(Int) PROVE Numel(dims) \in Int
<1> DEFINE Product(n) == n = [i \in 0..Len(dims) |-> IF i = 0 THEN 1 ELSE n[i - 1] * dims[i]]
           n == CHOOSE n : Product(n)
<1>1. Len(dims) \in Nat /\ \A i \in 1..Len(dims) : dims[i] \in Int
  OBVIOUS
<1>2. Product(n)
  <2> DEFINE times == [i \in 1..Len(dims) |-> [x \in Int |-> x * dims[i]]]
  <2>1. times \in [1..Len(dims) -> [Int -> Int]]
    BY <1>1
  <2>2. \A i \in 1..Len(dims), x \in Int : times[i][x] = x * dims[i]
    OBVIOUS
  <2> HIDE DEF times
  <2>3. PICK f \in [0..Len(dims) -> Int] : f[0] = 1 /\ \A i \in 1..Len(dims) : f[i] = times[i][f[i - 1]]
    <3>1. 1 \in Int
      OBVIOUS
    <3>2. \E f : IsRun(f, Int, Len(dims), 1, times)
      BY <1>1, <2>1, <3>1, RunExists, Zenon
    <3> QED BY <3>2 DEF IsRun
  <2>4. ASSUME NEW i \in 0..Len(dims) PROVE f[i] = IF i = 0 THEN 1 ELSE f[i - 1] * dims[i]
    <3>1. CASE i = 0
      BY <3>1, <2>3
    <3>2. CASE i # 0
      <4>1. i \in 1..Len(dims) /\ i - 1 \in 0..Len(dims)
        BY <3>2, <1>1
      <4>2. f[i - 1] \in Int
        BY <4>1, <2>3
      <4> QED BY <3>2, <4>1, <4>2, <2>2, <2>3
    <3> QED BY <3>1, <3>2
  <2>5. f = [i \in 0..Len(dims) |-> f[i]]
    BY <2>3
  <2>6. Product(f)
    BY <2>4, <2>5
  <2> QED BY <2>6
<1>3. Numel(dims) = n[Len(dims)]
  BY DEF Numel
<1> HIDE DEF n
<1> DEFINE Bad == {i \in 0..Len(dims) : n[i] \notin Int}
<1>4. Bad = {}
  <2> SUFFICES ASSUME Bad # {} PROVE FALSE
    OBVIOUS
  <2>1. PICK m : m \in Bad /\ \A x \in Bad : m <= x
    <3>1. Bad \in SUBSET Nat
      BY <1>1
    <3> HIDE DEF Bad
    <3> QED BY <3>1, LeastElement
  <2>2. m \in 0..Len(dims) /\ n[m] = IF m = 0 THEN 1 ELSE n[m - 1] * dims[m]
    BY <2>1, <1>2
  <2>3. m # 0
    BY <2>1, <2>2
  <2>4. m - 1 \in 0..Len(dims) /\ ~(m <= m - 1) /\ dims[m] \in Int
    BY <2>2, <2>3, <1>1
  <2>5. n[m - 1] \in Int
    BY <2>1, <2>4
  <2>6. n[m] \in Int
    BY <2>2, <2>3, <2>4, <2>5
  <2> QED BY <2>1, <2>6
<1> QED BY <1>1, <1>3, <1>4

\* So are its bytes.
LEMMA TensorBytesInt ==
  ASSUME NEW ti, ti.dimensions \in Seq(Int), ti.dtype \in Supported
  PROVE  tensor_bytes(ti) \in Int
<1>1. PICK n \in Int : n = Numel(ti.dimensions)
  BY NumelInt
<1>2. ggml_blck_size(ti.dtype) \in {1, 32} /\ ggml_dtype_size(ti.dtype) \in Int
  BY DEF Supported, ggml_blck_size, ggml_dtype_size
<1>3. PICK b \in {1, 32}, s \in Int : b = ggml_blck_size(ti.dtype) /\ s = ggml_dtype_size(ti.dtype)
  BY <1>2
<1>4. (n + b - 1) \div b \in Int
  BY <1>3
<1>5. ((n + b - 1) \div b) * s \in Int
  BY <1>4
<1> QED BY <1>1, <1>3, <1>5 DEF tensor_bytes

\* The constants of the graph are different values.
LEMMA ConstantsDiffer ==
  ASSUME cfg.num_layers \in Int, NEW i \in 1..NumConstants, NEW j \in 1..NumConstants,
         Constant(i) = Constant(j)
  PROVE  i = j
<1>1. PICK w \in {9, 11} : w = Len(LayerWeights)
  BY DEF LayerWeights
<1>2. PICK n \in Int : n = cfg.num_layers /\ NumConstants = 3 + n * w
  BY <1>1 DEF NumConstants
<1>3. ASSUME NEW a \in 1..w, NEW b \in 1..w, LayerWeights[a] = LayerWeights[b] PROVE a = b
  <2>1. CASE cfg.qk_norm
    <3>1. LayerWeights = <<"attn_norm", "q_proj", "k_proj", "v_proj", "o_proj", "q_norm", "k_norm",
                           "ffn_norm", "gate_proj", "up_proj", "down_proj">>
      BY <2>1 DEF LayerWeights
    <3>2. w = 11
      BY <3>1, <1>1
    <3> QED BY <3>1, <3>2, <1>3
  <2>2. CASE ~cfg.qk_norm
    <3>1. LayerWeights = <<"attn_norm", "q_proj", "k_proj", "v_proj", "o_proj",
                           "ffn_norm", "gate_proj", "up_proj", "down_proj">>
      BY <2>2 DEF LayerWeights
    <3>2. w = 9
      BY <3>1, <1>1
    <3> QED BY <3>1, <3>2, <1>3
  <2> QED BY <2>1, <2>2
<1> DEFINE InLayer(k) == <<"layer", (k - 3) \div w, LayerWeights[1 + ((k - 3) % w)]>>
<1>4. i \in Nat /\ j \in Nat /\ i >= 1 /\ j >= 1 /\ NumConstants \in Int /\ NumConstants >= i
  BY <1>1, <1>2
<1>5. NumConstants >= 3
  <2>1. CASE w = 9
    BY <2>1, <1>2, <1>4
  <2>2. CASE w = 11
    BY <2>2, <1>2, <1>4
  <2> QED BY <2>1, <2>2, <1>1
<1>6. ASSUME NEW k \in 1..NumConstants
      PROVE  Constant(k) = IF k = 1 THEN <<"tok_embeddings">> ELSE IF k = 2 THEN <<"lm_head">>
                           ELSE IF k = NumConstants THEN <<"output_norm">> ELSE InLayer(k)
  <2>1. CASE k = 1
    <3>1. Constant(k) = <<"tok_embeddings">>
      BY <2>1, <1>5 DEF Constant
    <3> QED BY <3>1, <2>1
  <2>2. CASE k = 2
    <3>1. Constant(k) = <<"lm_head">>
      BY <2>2, <1>5 DEF Constant
    <3> QED BY <3>1, <2>2
  <2>3. CASE k # 1 /\ k # 2 /\ k = NumConstants
    <3>1. Constant(k) = <<"output_norm">>
      BY <2>3 DEF Constant
    <3> QED BY <3>1, <2>3
  <2>4. CASE k # 1 /\ k # 2 /\ k # NumConstants
    <3>1. Constant(k) = <<"layer", (k - 3) \div Len(LayerWeights),
                          LayerWeights[1 + ((k - 3) % Len(LayerWeights))]>>
      BY <2>4 DEF Constant
    <3> QED BY <3>1, <2>4, <1>1
  <2> QED BY <2>1, <2>2, <2>3, <2>4
<1>7. \A k : Len(InLayer(k)) = 3 /\ InLayer(k)[2] = (k - 3) \div w
             /\ InLayer(k)[3] = LayerWeights[1 + ((k - 3) % w)]
  OBVIOUS
<1>8. Len(<<"tok_embeddings">>) = 1 /\ Len(<<"lm_head">>) = 1 /\ Len(<<"output_norm">>) = 1
  OBVIOUS
<1>9. /\ <<"tok_embeddings">> # <<"lm_head">> /\ <<"tok_embeddings">> # <<"output_norm">>
      /\ <<"lm_head">> # <<"output_norm">>
  OBVIOUS
<1> HIDE DEF InLayer
<1>10. CASE i \in {1, 2, NumConstants} \/ j \in {1, 2, NumConstants}
  BY <1>5, <1>6, <1>7, <1>8, <1>9, <1>10
<1>11. CASE i \notin {1, 2, NumConstants} /\ j \notin {1, 2, NumConstants}
  <2>1. InLayer(i) = InLayer(j) /\ i - 3 \in Nat /\ j - 3 \in Nat
    BY <1>4, <1>6, <1>11
  <2>2. (i - 3) \div w = (j - 3) \div w /\ LayerWeights[1 + ((i - 3) % w)] = LayerWeights[1 + ((j - 3) % w)]
    BY <2>1, <1>7
  <2>3. \A x \in Nat : x % w \in 0..(w - 1) /\ x = w * (x \div w) + (x % w)
    <3>1. CASE w = 9
      BY <3>1
    <3>2. CASE w = 11
      BY <3>2
    <3> QED BY <3>1, <3>2, <1>1
  <2>4. PICK x \in Nat, y \in Nat, q \in Int, a \in 0..(w - 1), b \in 0..(w - 1) :
           /\ x = i - 3 /\ y = j - 3 /\ q = x \div w /\ q = y \div w
           /\ a = x % w /\ b = y % w
    <3>1. (i - 3) \div w \in Int
      <4>1. w = 9 \/ w = 11
        BY <1>1
      <4>2. (i - 3) \div 9 \in Int /\ (i - 3) \div 11 \in Int
        BY <1>4
      <4> QED BY <4>1, <4>2
    <3> QED BY <2>1, <2>2, <2>3, <3>1
  <2>5. 1 + a \in 1..w /\ 1 + b \in 1..w /\ LayerWeights[1 + a] = LayerWeights[1 + b]
    BY <1>1, <2>2, <2>4
  <2>6. 1 + a = 1 + b
    BY <2>5, <1>3
  <2>7. x = w * q + a /\ y = w * q + b
    BY <2>3, <2>4
  <2>8. x = y
    BY <2>4, <2>6, <2>7
  <2> QED BY <2>4, <2>8, <1>4
<1> QED BY <1>10, <1>11

\* The shape of every constant is made of integers.
LEMMA ShapeInts ==
  ASSUME CfgInts, NEW i \in 1..NumConstants
  PROVE  ShapeOf(Constant(i)) \in Seq(Int)
<1> DEFINE InLayer == <<"layer", (i - 3) \div Len(LayerWeights), LayerWeights[1 + ((i - 3) % Len(LayerWeights))]>>
           Suffixes == {"tok_embeddings", "lm_head", "output_norm", "attn_norm", "q_proj", "k_proj", "v_proj",
                        "o_proj", "q_norm", "k_norm", "ffn_norm", "gate_proj", "up_proj", "down_proj"}
<1>1. PICK w \in {9, 11} : w = Len(LayerWeights)
  BY DEF LayerWeights
<1>2. NumConstants \in Int
  BY <1>1 DEF NumConstants, CfgInts
<1>3. \A a \in 1..w : LayerWeights[a] \in Suffixes
  <2>1. CASE cfg.qk_norm
    <3>1. LayerWeights = <<"attn_norm", "q_proj", "k_proj", "v_proj", "o_proj", "q_norm", "k_norm",
                           "ffn_norm", "gate_proj", "up_proj", "down_proj">>
      BY <2>1 DEF LayerWeights
    <3>2. w = 11
      BY <3>1, <1>1
    <3> QED BY <3>1, <3>2
  <2>2. CASE ~cfg.qk_norm
    <3>1. LayerWeights = <<"attn_norm", "q_proj", "k_proj", "v_proj", "o_proj",
                           "ffn_norm", "gate_proj", "up_proj", "down_proj">>
      BY <2>2 DEF LayerWeights
    <3>2. w = 9
      BY <3>1, <1>1
    <3> QED BY <3>1, <3>2
  <2> QED BY <2>1, <2>2
<1>4. Constant(i) \in {<<"tok_embeddings">>, <<"lm_head">>, <<"output_norm">>, InLayer}
  BY DEF Constant
<1>5. 1 + ((i - 3) % w) \in 1..w
  <2>1. i - 3 \in Int
    BY <1>2
  <2>2. \A x \in Int : 1 + (x % 9) \in 1..9 /\ 1 + (x % 11) \in 1..11
    OBVIOUS
  <2>3. CASE w = 9
    BY <2>1, <2>2, <2>3
  <2>4. CASE w = 11
    BY <2>1, <2>2, <2>4
  <2> QED BY <2>3, <2>4, <1>1
<1>6. Constant(i)[Len(Constant(i))] \in Suffixes
  <2>1. Len(InLayer) = 3 /\ InLayer[3] \in Suffixes
    BY <1>1, <1>3, <1>5
  <2>2. \A s : Len(<<s>>) = 1 /\ <<s>>[1] = s
    OBVIOUS
  <2> HIDE DEF InLayer
  <2> QED BY <2>1, <2>2, <1>4
<1>7. /\ cfg.num_heads * cfg.head_dim \in Int /\ cfg.num_kv_heads * cfg.head_dim \in Int
  <2>1. \A a \in Int, b \in Int : a * b \in Int
    OBVIOUS
  <2> QED BY <2>1 DEF CfgInts
<1>8. PICK s \in Suffixes : s = Constant(i)[Len(Constant(i))]
  BY <1>6
<1>9. PICK hidden \in Int, inter \in Int, hd \in Int, vocab \in Int, qd \in Int, kd \in Int :
         /\ hidden = cfg.hidden /\ inter = cfg.intermediate /\ hd = cfg.head_dim /\ vocab = cfg.vocab
         /\ qd = cfg.num_heads * cfg.head_dim /\ kd = cfg.num_kv_heads * cfg.head_dim
  BY <1>7 DEF CfgInts
<1> DEFINE Shapes == {<<vocab, hidden>>, <<kd, hidden>>, <<qd, hidden>>, <<hidden, qd>>, <<hd>>,
                      <<hidden>>, <<inter, hidden>>, <<hidden, inter>>}
<1>10. ShapeOf(Constant(i)) \in Shapes
  <2>1. PICK vs, ks, qs, os, hs, es, is, ds :
           /\ vs = <<vocab, hidden>> /\ ks = <<kd, hidden>> /\ qs = <<qd, hidden>> /\ os = <<hidden, qd>>
           /\ hs = <<hd>> /\ es = <<hidden>> /\ is = <<inter, hidden>> /\ ds = <<hidden, inter>>
    OBVIOUS
  <2> DEFINE shapes == [tok_embeddings |-> vs, lm_head |-> vs,
                        attn_norm |-> es, ffn_norm |-> es, output_norm |-> es,
                        q_proj |-> qs, k_proj |-> ks, v_proj |-> ks, o_proj |-> os,
                        q_norm |-> hs, k_norm |-> hs,
                        gate_proj |-> is, up_proj |-> is, down_proj |-> ds]
  <2>2. shapes[s] \in {vs, ks, qs, os, hs, es, is, ds}
    BY <1>8
  <2>3. ShapeOf(Constant(i)) = shapes[s]
    BY <1>8, <1>9, <2>1 DEF ShapeOf
  <2> QED BY <2>1, <2>2, <2>3
<1>11. \A x \in Int, y \in Int : <<x>> \in Seq(Int) /\ <<x, y>> \in Seq(Int)
  OBVIOUS
<1>12. \A s2 \in Shapes : s2 \in Seq(Int)
  BY <1>11
<1> QED BY <1>10, <1>12

\* A list that gets one more element.
LEMMA ListGrows ==
  ASSUME NEW s, IsList(s), NEW e
  PROVE  /\ IsList(Append(s, e)) /\ Len(s) \in Nat /\ DOMAIN s = 1..Len(s)
         /\ DOMAIN Append(s, e) = 1..(Len(s) + 1)
         /\ \A i \in 1..Len(s) : Append(s, e)[i] = s[i]
         /\ Append(s, e)[Len(s) + 1] = e
<1>1. PICK S : s \in Seq(S)
  BY DEF IsList
<1>2. s \in Seq(S \cup {e}) /\ e \in S \cup {e}
  BY <1>1
<1>3. Append(s, e) \in Seq(S \cup {e})
  BY <1>2
<1>4. IsList(Append(s, e))
  BY <1>3, Zenon DEF IsList
<1> QED BY <1>1, <1>2, <1>3, <1>4

\* A call that gets one more element.
LEMMA CallGrows ==
  ASSUME NEW f, IsCall(f), NEW e
  PROVE  /\ IsCall(WithElement(f, e)) /\ WithElement(f, e).left = f.left - 1
         /\ WithElement(f, e).elems = Append(f.elems, e)
<1>1. /\ DOMAIN WithElement(f, e) = DOMAIN f
      /\ WithElement(f, e).left = f.left - 1 /\ WithElement(f, e).elems = Append(f.elems, e)
  BY DEF WithElement, IsCall
<1>2. IsList(Append(f.elems, e))
  BY ListGrows DEF IsCall
<1> QED BY <1>1, <1>2 DEF IsCall

\* A fresh call has no elements.
LEMMA FreshCall == ASSUME NEW type, NEW n
                   PROVE  IsCall(Frame(type, n)) /\ Frame(type, n).left = n /\ Frame(type, n).elems = <<>>
<1>1. Frame(type, n) = [of |-> type, left |-> n, elems |-> <<>>]
  BY DEF Frame
<1>2. <<>> \in Seq({})
  OBVIOUS
<1>3. IsList(<<>>)
  BY <1>2, Zenon DEF IsList
<1> QED BY <1>1, <1>3 DEF IsCall

\* Calls of which the last is replaced, called from, or ended.
LEMMA CallsKept ==
  ASSUME NEW S, NEW fs \in Seq(S), Len(fs) > 0, \A i \in DOMAIN fs : IsCall(fs[i]), NEW f, IsCall(f)
  PROVE  /\ \A i \in DOMAIN ReplaceTop(fs, f) : IsCall(ReplaceTop(fs, f)[i])
         /\ \A i \in DOMAIN Append(fs, f) : IsCall(Append(fs, f)[i])
         /\ Len(fs) > 1 => LET outer == SubSeq(fs, 1, Len(fs) - 1)
                           IN \A i \in DOMAIN outer : IsCall(outer[i])
<1>1. DOMAIN ReplaceTop(fs, f) = DOMAIN fs
      /\ \A i \in DOMAIN fs : ReplaceTop(fs, f)[i] = IF i = Len(fs) THEN f ELSE fs[i]
  BY DEF ReplaceTop
<1>2. /\ DOMAIN Append(fs, f) = 1..(Len(fs) + 1)
      /\ \A i \in 1..(Len(fs) + 1) : Append(fs, f)[i] = IF i = Len(fs) + 1 THEN f ELSE fs[i]
      /\ \A i \in 1..(Len(fs) + 1) : i # Len(fs) + 1 => i \in DOMAIN fs
  OBVIOUS
<1>3. ASSUME Len(fs) > 1
      PROVE  LET outer == SubSeq(fs, 1, Len(fs) - 1)
             IN \A i \in DOMAIN outer : i \in DOMAIN fs /\ outer[i] = fs[i]
  BY <1>3
<1> HIDE DEF IsCall
<1>4. \A i \in DOMAIN ReplaceTop(fs, f) : IsCall(ReplaceTop(fs, f)[i])
  BY <1>1
<1>5. \A i \in DOMAIN Append(fs, f) : IsCall(Append(fs, f)[i])
  BY <1>2
<1>6. ASSUME Len(fs) > 1
      PROVE  LET outer == SubSeq(fs, 1, Len(fs) - 1)
             IN \A i \in DOMAIN outer : IsCall(outer[i])
  BY <1>3, <1>6
<1> QED BY <1>4, <1>5, <1>6

\* The fields of a tensor's dimensions.
LEMMA DimensionKinds ==
  ASSUME NEW n \in Nat, NEW d \in 1..n
  PROVE  2 + d \in DOMAIN TensorKinds(n) /\ TensorKinds(n)[2 + d] = "u64"
<1> DEFINE S == {"str", "u32", "u64", "tag"}
<1>1. PICK a \in Seq(S), b \in Seq(S), c \in Seq(S) :
         /\ a = <<"str", "u32">> /\ b = [k \in 1..n |-> "u64"] /\ c = <<"tag", "u64">>
         /\ Len(a) = 2 /\ Len(b) = n /\ Len(c) = 2 /\ b[d] = "u64"
  <2>1. <<"str", "u32">> \in Seq(S) /\ <<"tag", "u64">> \in Seq(S)
    OBVIOUS
  <2>2. [k \in 1..n |-> "u64"] \in [1..n -> S]
    OBVIOUS
  <2>3. [k \in 1..n |-> "u64"] \in Seq(S)
    BY <2>2, SeqDef
  <2>4. PICK b \in Seq(S) : b = [k \in 1..n |-> "u64"]
    BY <2>3
  <2>5. DOMAIN b = 1..n /\ b[d] = "u64"
    BY <2>4
  <2>6. Len(b) = n
    BY <2>5
  <2> QED BY <2>1, <2>4, <2>5, <2>6
<1> HIDE DEF S
<1>2. TensorKinds(n) = (a \o b) \o c
  BY <1>1 DEF TensorKinds
<1>3. a \o b \in Seq(S) /\ Len(a \o b) = 2 + n /\ (a \o b)[2 + d] = "u64"
  BY <1>1
<1>4. 2 + d \in DOMAIN ((a \o b) \o c) /\ ((a \o b) \o c)[2 + d] = (a \o b)[2 + d]
  BY <1>1, <1>3
<1> QED BY <1>2, <1>3, <1>4

\* Every step of the parser keeps its arrays and tensors.
LEMMA ParseKeepsTensors == ASSUME ParsedInd, TensorsInd, ParseNext PROVE TensorsInd'
<1> DEFINE Calls == /\ \A i \in DOMAIN frames' : IsCall(frames'[i])
                    /\ frames'[1].left = 0 => ArrayValue(frames'[1].elems[1])
<1>1. ASSUME UNCHANGED <<tensor_infos, metadata>>, stage' = "value" => Calls
      PROVE  TensorsInd'
  BY <1>1 DEF TensorsInd, ArrayValue, IsList, IsCall
<1> HIDE DEF Calls
<1>2. CASE read_header \/ metadata_end \/ parse_end \/ parse_fails
  <2>1. UNCHANGED <<tensor_infos, metadata>> /\ stage' # "value"
    BY <1>2 DEF read_header, metadata_end, parse_end, parse_fails, parseVars
  <2> QED BY <2>1, <1>1
<1>3. CASE read_tensor_info
  <2> DEFINE n == Field(2)
             ti == [name |-> Field(1), dimensions |-> dimensions(n), dtype |-> Field(n + 3),
                    offset |-> Field(n + 4)]
  <2>1. /\ n \in Nat /\ Readable(TensorKinds(n)) /\ tensor_infos' = Append(tensor_infos, ti)
        /\ metadata' = metadata /\ stage' # "value"
    BY <1>3 DEF read_tensor_info, tensor_info_ok
  <2>2. ASSUME NEW k \in 3..(n + 2) PROVE Field(k) \in Int
    <3>1. PICK d \in 1..n : k = 2 + d
      <4>1. k - 2 \in 1..n /\ k = 2 + (k - 2)
        BY <2>1
      <4> QED BY <4>1
    <3> DEFINE kinds == TensorKinds(n)
    <3>2. k \in DOMAIN kinds /\ kinds[k] = "u64"
      BY <2>1, <3>1, DimensionKinds
    <3> HIDE DEF kinds, n
    <3>3. pos + k - 1 <= Len(fields) /\ fields[pos + k - 1].kind = "u64"
      <4>1. Readable(kinds)
        BY <2>1 DEF kinds
      <4> QED BY <3>2, <4>1 DEF Readable
    <3>4. pos + k - 1 \in DOMAIN fields
      BY <2>1, <3>3 DEF ParsedInd
    <3> QED BY <3>3, <3>4 DEF ParsedInd, Field
  <2> HIDE DEF n
  <2>3. dimensions(n) \in Seq(Int)
    <3>1. \A d \in 1..n : 2 + n + 1 - d \in 3..(n + 2)
      BY <2>1
    <3>2. dimensions(n) \in [1..n -> Int]
      BY <2>2, <3>1 DEF dimensions
    <3> QED BY <2>1, <3>2, SeqDef
  <2>4. ti.dimensions \in Seq(Int)
    BY <2>3
  <2> HIDE DEF ti
  <2>5. /\ IsList(tensor_infos')
        /\ \A i \in DOMAIN tensor_infos' : tensor_infos'[i] = ti \/ (i \in DOMAIN tensor_infos /\ tensor_infos'[i] = tensor_infos[i])
    <3>1. IsList(tensor_infos)
      BY DEF TensorsInd
    <3> QED BY <2>1, <3>1, ListGrows
  <2>6. \A i \in DOMAIN tensor_infos' : tensor_infos'[i].dimensions \in Seq(Int)
    BY <2>4, <2>5 DEF TensorsInd
  <2> QED BY <2>1, <2>5, <2>6 DEF TensorsInd, ArrayValue, IsList
<1>4. CASE read_key
  <2>1. frames' = <<Frame(Field(2), 1)>> /\ UNCHANGED <<tensor_infos, metadata>>
    BY <1>4 DEF read_key
  <2>2. IsCall(Frame(Field(2), 1)) /\ Frame(Field(2), 1).left = 1
    BY FreshCall
  <2>3. DOMAIN frames' = {1} /\ frames'[1] = Frame(Field(2), 1)
    BY <2>1
  <2>4. Calls
    BY <2>2, <2>3 DEF Calls
  <2> QED BY <2>1, <2>4, <1>1
<1>5. CASE emplace
  <2>1. /\ stage = "value" /\ top.left = 0 /\ Len(frames) = 1 /\ stage' = "metadata"
        /\ metadata' = emplaced(metadata, key, top.elems[1]) /\ tensor_infos' = tensor_infos
    BY <1>5 DEF emplace
  <2>2. ArrayValue(top.elems[1])
    BY <2>1 DEF top, TensorsInd
  <2> HIDE DEF top
  <2>3. \A k \in DOMAIN metadata' : metadata'[k] \in {metadata[x] : x \in DOMAIN metadata} \cup {top.elems[1]}
    BY <2>1 DEF emplaced
  <2>4. \A k \in DOMAIN metadata' : ArrayValue(metadata'[k])
    BY <2>2, <2>3 DEF ArrayValue, TensorsInd
  <2> QED BY <2>1, <2>4 DEF TensorsInd, ArrayValue, IsList
<1>6. CASE read_scalar \/ read_array \/ array_return
  <2>1. stage = "value" /\ UNCHANGED <<tensor_infos, metadata>>
    BY <1>6 DEF read_scalar, read_array, array_return
  <2>2. PICK S : frames \in Seq(S)
    BY <2>1 DEF ParsedInd
  <2>3. Len(frames) > 0 /\ Len(frames) \in Nat /\ \A i \in DOMAIN frames : IsCall(frames[i])
    BY <2>1, <2>2 DEF ParsedInd, TensorsInd
  <2>4. PICK type : frames[1] = Frame(type, 1)
    <3>1. \/ \E type : frames[1] = Frame(type, 1)
          \/ Len(frames) = 1 /\ frames[1].left = 0
      BY <2>1 DEF ParsedInd
    <3>2. Len(frames) # 1 \/ frames[1].left # 0
      <4>1. CASE read_scalar \/ read_array
        <5>1. top.left > 0
          BY <4>1 DEF read_scalar, read_array
        <5> QED BY <5>1 DEF top
      <4>2. CASE array_return
        <5>1. Len(frames) > 1
          BY <4>2 DEF array_return
        <5>2. PICK n \in Nat : n = Len(frames)
          BY <2>3
        <5> QED BY <5>1, <5>2, SMTT(20)
      <4> QED BY <4>1, <4>2, <1>6
    <3> QED BY <3>1, <3>2
  <2>5. frames[1].left = 1 /\ frames[1].elems = <<>>
    BY <2>4, FreshCall
  <2>6. IsCall(top)
    BY <2>2, <2>3 DEF top
  <2>7. CASE read_scalar
    <3> DEFINE e == [type |-> top.of, v |-> Converted(top.of, Field(1))]
               f == WithElement(top, e)
    <3>1. frames' = ReplaceTop(frames, f) /\ top.of \in Scalars
      BY <2>7 DEF read_scalar
    <3>2. ArrayValue(e)
      BY <3>1 DEF ArrayValue, Scalars
    <3>3. IsCall(f) /\ f.elems = Append(top.elems, e)
      BY <2>6, CallGrows
    <3> HIDE DEF e, f
    <3>4. \A i \in DOMAIN frames' : IsCall(frames'[i])
      BY <2>2, <2>3, <3>1, <3>3, CallsKept
    <3>5. frames'[1] = IF Len(frames) = 1 THEN f ELSE frames[1]
      BY <2>2, <2>3, <3>1, CallList
    <3>6. Len(frames) = 1 => f.elems[1] = e
      BY <2>5, <3>3 DEF top
    <3>7. Calls
      BY <3>2, <3>4, <3>5, <3>6, <2>5 DEF Calls
    <3> QED BY <2>1, <3>7, <1>1
  <2>8. CASE read_array
    <3> DEFINE f == Frame(Field(1), Field(2))
    <3>1. frames' = Append(frames, f)
      BY <2>8 DEF read_array
    <3>2. IsCall(f)
      BY FreshCall
    <3> HIDE DEF f
    <3>3. \A i \in DOMAIN frames' : IsCall(frames'[i])
      BY <2>2, <2>3, <3>1, <3>2, CallsKept
    <3>4. frames'[1] = frames[1]
      BY <2>2, <2>3, <3>1, CallList
    <3>5. Calls
      BY <3>3, <3>4, <2>5 DEF Calls
    <3> QED BY <2>1, <3>5, <1>1
  <2>9. CASE array_return
    <3> DEFINE outer == SubSeq(frames, 1, Len(frames) - 1)
               e == [type |-> "ARRAY", v |-> top.elems]
               f == WithElement(outer[Len(outer)], e)
    <3>1. frames' = ReplaceTop(outer, f) /\ Len(frames) > 1
      BY <2>9 DEF array_return
    <3>2. outer \in Seq(S) /\ Len(outer) = Len(frames) - 1 /\ Len(outer) > 0 /\ outer[1] = frames[1]
      BY <3>1, <2>2, <2>3
    <3>3. \A i \in DOMAIN outer : IsCall(outer[i])
      BY <2>2, <2>3, <2>6, <3>1, CallsKept
    <3>4. ArrayValue(e)
      <4>1. Len(top.elems) \in Nat
        BY <2>6, ListGrows DEF IsCall
      <4> QED BY <4>1 DEF ArrayValue
    <3> HIDE DEF e, outer
    <3>5. IsCall(outer[Len(outer)])
      BY <3>2, <3>3
    <3>6. IsCall(f) /\ f.elems = Append(outer[Len(outer)].elems, e)
      BY <3>5, CallGrows
    <3> HIDE DEF f
    <3>7. \A i \in DOMAIN frames' : IsCall(frames'[i])
      BY <3>1, <3>2, <3>3, <3>6, CallsKept
    <3>8. frames'[1] = IF Len(outer) = 1 THEN f ELSE outer[1]
      BY <3>1, <3>2, CallList
    <3>9. ASSUME Len(outer) = 1 PROVE f.elems[1] = e
      <4>1. outer[Len(outer)].elems = <<>>
        BY <2>5, <3>2, <3>9
      <4>2. f.elems = Append(<<>>, e)
        BY <3>6, <4>1
      <4>3. Append(<<>>, e)[1] = e
        OBVIOUS
      <4> QED BY <4>2, <4>3
    <3>10. Calls
      BY <3>2, <3>4, <3>7, <3>8, <3>9, <2>5 DEF Calls
    <3> QED BY <2>1, <3>10, <1>1
  <2> QED BY <1>6, <2>7, <2>8, <2>9
<1> QED BY <1>2, <1>3, <1>4, <1>5, <1>6 DEF ParseNext

-----------------------------------------------------------------------------
(* Loading: the bytes that are counted are those of the storage. *)

\* What is derived from the configuration stays with it.
LEMMA ConstantsKept ==
  ASSUME cfg' = cfg
  PROVE  /\ NumConstants' = NumConstants /\ Constants' = Constants
         /\ \A i : Constant(i)' = Constant(i)
         /\ \A n : ShapeOf(n)' = ShapeOf(n)
         /\ CfgInts' <=> CfgInts
<1>1. NumConstants' = NumConstants
  BY DEF NumConstants, LayerWeights
<1>2. ASSUME NEW i PROVE Constant(i)' = Constant(i)
  BY <1>1 DEF Constant, NumConstants, LayerWeights
<1>3. Constants' = Constants
  BY <1>1, <1>2 DEF Constants
<1>4. ASSUME NEW n PROVE ShapeOf(n)' = ShapeOf(n)
  BY DEF ShapeOf
<1>5. CfgInts' <=> CfgInts
  BY DEF CfgInts
<1> QED BY <1>1, <1>2, <1>3, <1>4, <1>5

\* The bytes of a tensor depend on its storage and on the parsed file only.
LEMMA BytesKept ==
  ASSUME tensor_infos' = tensor_infos, NEW g, storage'[g] = storage[g]
  PROVE  StoredBytes(g)' = StoredBytes(g)
BY DEF StoredBytes, gguf_tensor

\* While file, configuration and store stay, so does what is known of them.
LEMMA StoreKept ==
  ASSUME StoreInd, UNCHANGED <<parseVars, weightVars>>,
         \/ stage' = stage
         \/ stage \notin BeforeLoading /\ stage' \notin BeforeLoading \cup {"loading"}
  PROVE  StoreInd'
<1>1. /\ tensor_infos' = tensor_infos /\ metadata' = metadata /\ frames' = frames
      /\ cfg' = cfg /\ next_const' = next_const /\ storage' = storage /\ aliases' = aliases
      /\ total_bytes' = total_bytes /\ bound' = bound
  BY DEF parseVars, weightVars
<1>2. TensorsInd'
  BY <1>1 DEF StoreInd, TensorsInd, ArrayValue, IsList, IsCall, BeforeLoading, ParseSteps
<1>3. CASE stage \in BeforeLoading
  BY <1>1, <1>2, <1>3 DEF StoreInd, NothingLoaded
<1>4. CASE stage \notin BeforeLoading
  <2>1. ASSUME NEW g PROVE StoredBytes(g)' = StoredBytes(g)
    BY <1>1, BytesKept
  <2>2. Bytes' = Bytes
    BY <1>1, <2>1 DEF Bytes
  <2>3. Stored /\ (stage' = "loading" => stage = "loading")
    BY <1>4 DEF StoreInd
  <2>4. Stored'
    BY <1>1, <2>1, <2>2, <2>3, ConstantsKept DEF Stored
  <2>5. stage' \notin BeforeLoading
    BY <1>4
  <2> QED BY <1>2, <2>4, <2>5 DEF StoreInd
<1> QED BY <1>3, <1>4

\* The constructors.
LEMMA StoreInitInd == ASSUME ParseInit, WeightInit PROVE StoreInd
<1>1. tensor_infos = <<>> /\ metadata = <<>> /\ stage = "header"
  BY DEF ParseInit
<1>2. <<>> \in Seq({}) /\ DOMAIN <<>> = {}
  OBVIOUS
<1>3. IsList(tensor_infos)
  BY <1>1, <1>2, Zenon DEF IsList
<1>4. TensorsInd
  BY <1>1, <1>2, <1>3 DEF TensorsInd
<1> QED BY <1>1, <1>4 DEF StoreInd, BeforeLoading, ParseSteps, NothingLoaded, WeightInit

\* A store without tensors holds no bytes.
LEMMA EmptyStore ==
  ASSUME storage' = <<>>, aliases' = <<>>, total_bytes' = 0, next_const' \in Nat \ {0},
         \A c \in Contexts : bound'[c] = <<>>, stage' = "loading" => CfgInts'
  PROVE  Stored'
<1>1. DOMAIN storage' = {} /\ DOMAIN aliases' = {}
  OBVIOUS
<1>2. IsFiniteSet({}) /\ \A g : SumOf(g, {}) = 0
  BY SumOfStep, FS_EmptySet
<1>3. total_bytes' = SumOf(Bytes', DOMAIN storage')
  BY <1>1, <1>2
<1>4. aliases' = [v \in DOMAIN aliases' |-> aliases'[v]]
  OBVIOUS
<1> QED BY <1>1, <1>2, <1>3, <1>4 DEF Stored

\* The configuration is made of integers.
LEMMA ConfigInts ==
  ASSUME ParsedInd, TensorsInd, extract_config, has_tokens
  PROVE  CfgInts'
<1>1. \A k : \A n \in Int : read_int(k, n) \in Int
  BY ReadInt
<1>2. vocab_size \in Int
  BY DEF TensorsInd, ArrayValue, vocab_size, has_tokens
<1>3. /\ cfg'.num_layers = read_int("block_count", 1) /\ cfg'.hidden = read_int("embedding_length", 768)
      /\ cfg'.intermediate = read_int("feed_forward_length", 2048)
      /\ cfg'.num_heads = read_int("head_count", 12)
      /\ cfg'.num_kv_heads = read_int("head_count_kv", 12)
      /\ cfg'.head_dim = read_int("key_length", 64) /\ cfg'.vocab = vocab_size
  BY DEF extract_config
<1> QED BY <1>1, <1>2, <1>3 DEF CfgInts

\* A set of indices that is not empty has a last one.
LEMMA LastIn ==
  ASSUME NEW n \in Nat, NEW S \in SUBSET (1..n), S # {}
  PROVE  Last(S) \in S
<1>1. S \in SUBSET (0..n)
  OBVIOUS
<1>2. Max(S) \in S /\ \A x \in S : x <= Max(S)
  BY <1>1, GreatestElement
<1> QED BY <1>2 DEF Last

\* The tensor that a name of the file stands for.
LEMMA TensorOfName ==
  ASSUME TensorsInd, NEW g \in Names
  PROVE  gguf_tensor(g).dimensions \in Seq(Int)
<1> DEFINE S == {i \in DOMAIN tensor_infos : tensor_infos[i].name = g}
<1>1. PICK T : tensor_infos \in Seq(T)
  BY DEF TensorsInd, IsList
<1>2. S # {} /\ S \in SUBSET (1..Len(tensor_infos)) /\ Len(tensor_infos) \in Nat
  BY <1>1 DEF Names
<1>3. Last(S) \in S
  BY <1>2, LastIn
<1>4. gguf_tensor(g) = tensor_infos[Last(S)]
  BY DEF gguf_tensor
<1> QED BY <1>3, <1>4 DEF TensorsInd

\* The constant that is looked at has no alias yet.
LEMMA NotYetNamed == ASSUME Stored, loading 
                     PROVE  value \notin DOMAIN aliases /\ value \in Constants /\ NumConstants \in Int
<1>1. NumConstants \in Int
  <2>1. PICK w \in {9, 11} : w = Len(LayerWeights)
    BY DEF LayerWeights
  <2>2. PICK n \in Int : n = cfg.num_layers
    BY DEF Stored, CfgInts, loading
  <2> QED BY <2>1, <2>2 DEF NumConstants
<1>2. next_const \in 1..NumConstants
  BY <1>1 DEF Stored, loading
<1>3. ASSUME value \in DOMAIN aliases PROVE FALSE
  <2>1. PICK i \in 1..NumConstants : i < next_const /\ value = Constant(i)
    BY <1>3 DEF Stored
  <2>2. PICK j \in 1..NumConstants : j = next_const
    BY <1>2
  <2>3. Constant(i) = Constant(j) /\ cfg.num_layers \in Int
    BY <2>1, <2>2 DEF value, Stored, CfgInts, loading
  <2>4. i = j
    BY <2>3, ConstantsDiffer
  <2> QED BY <2>1, <2>2, <2>4
<1>4. value \in Constants
  BY <1>2 DEF value, Constants
<1> QED BY <1>1, <1>3, <1>4

\* A second constant, and the alias of one that was looked at before.
LEMMA AliasAdded ==
  ASSUME Stored, loading, NEW g, g \in DOMAIN storage', aliases' = WithName(aliases, value, g),
         cfg' = cfg, next_const' = next_const + 1, stage' = stage,
         \A x \in DOMAIN storage : x \in DOMAIN storage' /\ storage'[x].shape = storage[x].shape,
         DOMAIN storage' = DOMAIN storage \cup {g}, storage'[g].shape = ShapeOf(value)
  PROVE  /\ stage' = "loading" => CfgInts'
         /\ next_const' \in Nat \ {0}
         /\ \A v \in DOMAIN aliases' : \E i \in 1..NumConstants' : i < next_const' /\ v = Constant(i)'
         /\ aliases' = [v \in DOMAIN aliases' |-> aliases'[v]]
         /\ \A v \in DOMAIN aliases' : storage'[aliases'[v]].shape = ShapeOf(v)'
         /\ DOMAIN storage' = {aliases'[v] : v \in DOMAIN aliases'}
         /\ IsFiniteSet(DOMAIN storage')
<1>1. value \notin DOMAIN aliases /\ NumConstants \in Int
  BY NotYetNamed
<1>2. /\ DOMAIN aliases' = DOMAIN aliases \cup {value}
      /\ aliases'[value] = g /\ \A v \in DOMAIN aliases : aliases'[v] = aliases[v]
      /\ aliases' = [v \in DOMAIN aliases' |-> aliases'[v]]
  BY <1>1 DEF WithName
<1>3. stage' = "loading" => CfgInts'
  BY ConstantsKept DEF Stored
<1>4. next_const \in Nat \ {0} /\ next_const' \in Nat \ {0} /\ next_const <= NumConstants
  BY DEF Stored, loading
<1>5. ASSUME NEW v \in DOMAIN aliases'
      PROVE  \E i \in 1..NumConstants' : i < next_const' /\ v = Constant(i)'
  <2>1. CASE v = value
    <3>1. next_const \in 1..NumConstants
      BY <1>1, <1>4
    <3>2. v = Constant(next_const)
      BY <2>1 DEF value
    <3>3. PICK i \in 1..NumConstants : i = next_const
      BY <3>1
    <3>4. v = Constant(i) /\ i < next_const'
      BY <3>2, <3>3
    <3> QED BY <3>4, ConstantsKept
  <2>2. CASE v # value
    <3>1. PICK i \in 1..NumConstants : i < next_const /\ v = Constant(i)
      BY <1>2, <2>2 DEF Stored
    <3>2. i < next_const'
      BY <3>1, <1>4
    <3> QED BY <3>1, <3>2, ConstantsKept
  <2> QED BY <2>1, <2>2
<1>6. ASSUME NEW v \in DOMAIN aliases' PROVE storage'[aliases'[v]].shape = ShapeOf(v)'
  <2>1. ShapeOf(v)' = ShapeOf(v)
    BY ConstantsKept
  <2>2. CASE v = value
    BY <2>1, <2>2, <1>2
  <2>3. CASE v # value
    <3>1. v \in DOMAIN aliases /\ aliases'[v] = aliases[v] /\ aliases[v] \in DOMAIN storage
      BY <1>2, <2>3 DEF Stored
    <3>2. storage[aliases[v]].shape = ShapeOf(v)
      BY <3>1 DEF Stored
    <3> QED BY <2>1, <3>1, <3>2
  <2> QED BY <2>2, <2>3
<1>7. DOMAIN storage' = {aliases'[v] : v \in DOMAIN aliases'}
  <2>1. DOMAIN storage = {aliases[v] : v \in DOMAIN aliases}
    BY DEF Stored
  <2> QED BY <1>2, <2>1
<1>8. IsFiniteSet(DOMAIN storage')
  <2>1. IsFiniteSet(DOMAIN storage)
    BY DEF Stored
  <2> QED BY <2>1, FS_AddElement
<1> QED BY <1>2, <1>3, <1>4, <1>5, <1>6, <1>7, <1>8

\* extract_config.
LEMMA ExtractStored ==
  ASSUME ParsedInd, TensorsInd, NothingLoaded, extract_config
  PROVE  Stored' /\ stage' \in {"loading", "exit_error"}
<1>1. /\ storage' = <<>> /\ aliases' = <<>> /\ total_bytes' = 0 /\ next_const' = 1
      /\ \A c \in Contexts : bound'[c] = <<>>
      /\ stage' = (IF tokenizer_ok THEN "loading" ELSE "exit_error")
  BY DEF extract_config, NothingLoaded
<1>2. stage' = "loading" => CfgInts'
  BY <1>1, ConfigInts DEF tokenizer_ok
<1>3. next_const' \in Nat \ {0}
  BY <1>1
<1>4. Stored'
  BY <1>1, <1>2, <1>3, EmptyStore
<1> QED BY <1>1, <1>4

\* A constant without a tensor.
LEMMA SkipStored == ASSUME Stored, skip_constant PROVE Stored'
<1>1. /\ cfg' = cfg /\ storage' = storage /\ aliases' = aliases /\ total_bytes' = total_bytes
      /\ bound' = bound /\ stage' = stage /\ next_const' = next_const + 1
      /\ tensor_infos' = tensor_infos
  BY DEF skip_constant, parseVars
<1>2. ASSUME NEW g PROVE StoredBytes(g)' = StoredBytes(g)
  BY <1>1, BytesKept
<1>3. Bytes' = Bytes
  BY <1>1, <1>2 DEF Bytes
<1>4. next_const' \in Nat \ {0} /\ \A i \in Int : i < next_const => i < next_const'
  BY <1>1 DEF Stored
<1>5. ASSUME NEW v \in DOMAIN aliases PROVE \E i \in 1..NumConstants : i < next_const' /\ v = Constant(i)
  BY <1>4 DEF Stored
<1>6. \A v \in DOMAIN aliases' : \E i \in 1..NumConstants' : i < next_const' /\ v = Constant(i)'
  BY <1>1, <1>5, ConstantsKept
<1> QED BY <1>1, <1>2, <1>3, <1>4, <1>6, ConstantsKept DEF Stored

\* One more tensor in the storage.
LEMMA BytesAdded ==
  ASSUME NEW g, NEW n \in Int, g \notin DOMAIN storage, IsFiniteSet(DOMAIN storage),
         DOMAIN storage' = DOMAIN storage \cup {g}, StoredBytes(g)' = n,
         \A x \in DOMAIN storage : StoredBytes(x)' = StoredBytes(x),
         \A x \in DOMAIN storage : StoredBytes(x) \in Int
  PROVE  SumOf(Bytes', DOMAIN storage') = SumOf(Bytes, DOMAIN storage) + n
<1>1. PICK S, b, h : S = DOMAIN storage /\ b = Bytes /\ h = Bytes'
  OBVIOUS
<1>2. IsFiniteSet(S) /\ g \notin S
  BY <1>1
<1>3. \A x \in S : b[x] = StoredBytes(x)
  BY <1>1 DEF Bytes
<1>4. \A x \in DOMAIN storage' : h[x] = StoredBytes(x)'
  BY <1>1 DEF Bytes
<1>5. /\ \A x \in S : h[x] = b[x] /\ b[x] \in Int
      /\ h[g] = n
  BY <1>1, <1>3, <1>4
<1>6. SumOf(h, S \cup {g}) = SumOf(b, S) + h[g]
  <2>1. h[g] \in Int
    BY <1>5
  <2>2. SumGrows(b, S, h, g)
    BY <1>2, <1>5, <2>1, SumOfAdd
  <2> QED BY <2>2 DEF SumGrows
<1> QED BY <1>1, <1>5, <1>6

\* A new tensor: its bytes are added once.
LEMMA NewStored ==
  ASSUME TensorsInd, Stored, NEW g \in Names, load_new(g), \A c \in Contexts : bound[c] = <<>>
  PROVE  Stored'
<1> DEFINE ti == gguf_tensor(g)
           dtype == ggml_to_dtype(ti.dtype)
           rec == [dtype |-> dtype, shape |-> ShapeOf(value),
                   number |-> dequantize_to_f32(ti.dtype, NumberAt(ti))]
<1>1. /\ loading /\ g \notin DOMAIN storage /\ ti.dtype \in Supported
      /\ storage' = WithName(storage, g, rec)
      /\ total_bytes' = total_bytes + loaded_bytes(value, dtype, ti)
      /\ aliases' = WithName(aliases, value, g)
      /\ cfg' = cfg /\ bound' = bound /\ stage' = stage /\ next_const' = next_const + 1
      /\ tensor_infos' = tensor_infos
  BY DEF load_new, can_load, parseVars
<1>2. rec.dtype = dtype /\ rec.shape = ShapeOf(value)
  OBVIOUS
<1> HIDE DEF rec
<1>3. /\ DOMAIN storage' = DOMAIN storage \cup {g} /\ storage'[g] = rec
      /\ \A x \in DOMAIN storage : storage'[x] = storage[x]
  BY <1>1 DEF WithName
<1>4. StoredBytes(g)' = loaded_bytes(value, dtype, ti)
  <2>1. gguf_tensor(g)' = ti
    BY <1>1 DEF gguf_tensor
  <2>2. StoredBytes(g)' = IF dtype = "Q8_0" THEN tensor_bytes(ti)
                          ELSE Numel(ShapeOf(value)) * ggml_dtype_size(dtype)
    BY <1>2, <1>3, <2>1 DEF StoredBytes
  <2> QED BY <2>2 DEF loaded_bytes
<1>5. loaded_bytes(value, dtype, ti) \in Int
  <2>1. ti.dimensions \in Seq(Int)
    BY TensorOfName
  <2>2. tensor_bytes(ti) \in Int
    BY <2>1, <1>1, TensorBytesInt
  <2>3. ShapeOf(value) \in Seq(Int)
    <3>1. NumConstants \in Int /\ CfgInts
      BY <1>1, NotYetNamed DEF Stored, loading
    <3>2. PICK i \in 1..NumConstants : i = next_const
      BY <1>1, <3>1 DEF Stored, loading
    <3>3. ShapeOf(Constant(i)) \in Seq(Int)
      BY <3>1, ShapeInts
    <3> QED BY <3>2, <3>3 DEF value
  <2>4. Numel(ShapeOf(value)) \in Int
    BY <2>3, NumelInt
  <2>5. dtype \in {"F32", "BF16", "Q8_0"}
    BY <1>1 DEF ggml_to_dtype, Supported
  <2>6. ggml_dtype_size(dtype) \in Int
    BY <2>5 DEF ggml_dtype_size
  <2>7. \A a \in Int, b \in Int : a * b \in Int
    OBVIOUS
  <2> QED BY <2>2, <2>4, <2>6, <2>7 DEF loaded_bytes
<1>6. \A x \in DOMAIN storage : StoredBytes(x)' = StoredBytes(x)
  BY <1>1, <1>3, BytesKept
<1>7. total_bytes' = SumOf(Bytes', DOMAIN storage')
  <2>1. PICK n \in Int : n = loaded_bytes(value, dtype, ti)
    BY <1>5
  <2>2. /\ IsFiniteSet(DOMAIN storage) /\ total_bytes = SumOf(Bytes, DOMAIN storage)
        /\ \A x \in DOMAIN storage : StoredBytes(x) \in Int
    BY DEF Stored
  <2>3. StoredBytes(g)' = n /\ g \notin DOMAIN storage
    BY <1>1, <1>4, <2>1
  <2>4. SumOf(Bytes', DOMAIN storage') = SumOf(Bytes, DOMAIN storage) + n
    BY <1>3, <1>6, <2>2, <2>3, BytesAdded
  <2> QED BY <1>1, <2>1, <2>2, <2>4
<1>8. \A x \in DOMAIN storage' : StoredBytes(x)' \in Int
  <2>1. \A x \in DOMAIN storage : StoredBytes(x) \in Int
    BY DEF Stored
  <2> QED BY <2>1, <1>3, <1>4, <1>5, <1>6
<1>9. \A c \in Contexts : bound'[c] = <<>>
  BY <1>1
<1>10. /\ \A x \in DOMAIN storage : x \in DOMAIN storage' /\ storage'[x].shape = storage[x].shape
       /\ storage'[g].shape = ShapeOf(value) /\ g \in DOMAIN storage'
  BY <1>2, <1>3
<1>11. /\ stage' = "loading" => CfgInts'
       /\ next_const' \in Nat \ {0}
       /\ \A v \in DOMAIN aliases' : \E i \in 1..NumConstants' : i < next_const' /\ v = Constant(i)'
       /\ aliases' = [v \in DOMAIN aliases' |-> aliases'[v]]
       /\ \A v \in DOMAIN aliases' : storage'[aliases'[v]].shape = ShapeOf(v)'
       /\ DOMAIN storage' = {aliases'[v] : v \in DOMAIN aliases'}
       /\ IsFiniteSet(DOMAIN storage')
  BY <1>1, <1>3, <1>10, AliasAdded
<1> QED BY <1>7, <1>8, <1>9, <1>11 DEF Stored

\* A tensor that is in storage: nothing is added.
LEMMA AliasStored ==
  ASSUME Stored, NEW g \in Names, load_alias(g), \A c \in Contexts : bound[c] = <<>>
  PROVE  Stored'
<1>1. /\ loading /\ g \in DOMAIN storage /\ storage[g].shape = ShapeOf(value)
      /\ storage' = storage /\ total_bytes' = total_bytes
      /\ aliases' = WithName(aliases, value, g)
      /\ cfg' = cfg /\ bound' = bound /\ stage' = stage /\ next_const' = next_const + 1
      /\ tensor_infos' = tensor_infos
  BY DEF load_alias, parseVars
<1>2. ASSUME NEW x PROVE StoredBytes(x)' = StoredBytes(x)
  BY <1>1, BytesKept
<1>3. Bytes' = Bytes
  BY <1>1, <1>2 DEF Bytes
<1>4. /\ \A x \in DOMAIN storage : x \in DOMAIN storage' /\ storage'[x].shape = storage[x].shape
      /\ storage'[g].shape = ShapeOf(value) /\ g \in DOMAIN storage'
      /\ DOMAIN storage' = DOMAIN storage \cup {g}
  BY <1>1
<1>5. /\ stage' = "loading" => CfgInts'
      /\ next_const' \in Nat \ {0}
      /\ \A v \in DOMAIN aliases' : \E i \in 1..NumConstants' : i < next_const' /\ v = Constant(i)'
      /\ aliases' = [v \in DOMAIN aliases' |-> aliases'[v]]
      /\ \A v \in DOMAIN aliases' : storage'[aliases'[v]].shape = ShapeOf(v)'
      /\ DOMAIN storage' = {aliases'[v] : v \in DOMAIN aliases'}
      /\ IsFiniteSet(DOMAIN storage')
  BY <1>1, <1>4, AliasAdded
<1>6. /\ \A x \in DOMAIN storage' : StoredBytes(x)' \in Int
      /\ total_bytes' = SumOf(Bytes', DOMAIN storage')
      /\ \A c \in Contexts : bound'[c] = <<>>
  BY <1>1, <1>2, <1>3 DEF Stored
<1> QED BY <1>5, <1>6 DEF Stored

\* The store is dropped.
LEMMA FailStored ==
  ASSUME Stored, NEW g \in Names, load_fails(g), \A c \in Contexts : bound[c] = <<>>
  PROVE  Stored'
<1>1. /\ storage' = <<>> /\ aliases' = <<>> /\ total_bytes' = 0
      /\ next_const' = next_const /\ bound' = bound /\ stage' = "exit_error"
  BY DEF load_fails
<1>2. next_const' \in Nat \ {0} /\ \A c \in Contexts : bound'[c] = <<>>
  BY <1>1 DEF Stored
<1> QED BY <1>1, <1>2, EmptyStore

\* bind.
LEMMA BindStored ==
  ASSUME Stored, WeightInd, NEW c \in Contexts, bind(c)
  PROVE  Stored'
<1>1. /\ stage' \in {"binding_decode", "bound"}
      /\ bound' = [bound EXCEPT ![c] = [v \in Constants \cap DOMAIN aliases |-> aliases[v]]]
      /\ cfg' = cfg /\ storage' = storage /\ aliases' = aliases /\ total_bytes' = total_bytes
      /\ next_const' = next_const /\ tensor_infos' = tensor_infos
  BY DEF bind, parseVars
<1>2. DOMAIN aliases \subseteq Constants /\ aliases = [v \in DOMAIN aliases |-> aliases[v]]
  BY DEF Stored, Constants
<1>3. Constants \cap DOMAIN aliases = DOMAIN aliases
  BY <1>2
<1>4. bound' = [bound EXCEPT ![c] = aliases] /\ DOMAIN bound = Contexts
  BY <1>1, <1>2, <1>3 DEF WeightInd
<1>5. \A d \in Contexts : bound'[d] = IF d = c THEN aliases ELSE bound[d]
  BY <1>4
<1>6. \A d \in Contexts : bound'[d] # <<>> => bound'[d] = aliases'
  BY <1>1, <1>5 DEF Stored
<1>7. ASSUME NEW x PROVE StoredBytes(x)' = StoredBytes(x)
  BY <1>1, BytesKept
<1>8. Bytes' = Bytes
  BY <1>1, <1>7 DEF Bytes
<1>9. stage' # "loading"
  BY <1>1
<1> QED BY <1>1, <1>6, <1>7, <1>8, <1>9, ConstantsKept DEF Stored

\* A step of the loader.
LEMMA WeightsStored == ASSUME GenerateInd, StoreInd, weights PROVE StoreInd'
<1>1. /\ ParsedInd /\ WeightInd /\ TensorsInd
      /\ stage \in {"parsed", "loading", "binding", "binding_decode"}
      /\ stage' \in {"loading", "binding", "binding_decode", "bound", "exit_error"}
  BY WeightStepInd DEF GenerateInd, StoreInd, weights
<1>2. tensor_infos' = tensor_infos /\ metadata' = metadata
  <2>1. CASE extract_config \/ skip_constant \/ load_end
    BY <2>1 DEF extract_config, skip_constant, load_end, parseVars
  <2>2. ASSUME NEW g \in Names, load_new(g) \/ load_alias(g) \/ load_fails(g) PROVE UNCHANGED parseVars
    BY <2>2 DEF load_new, load_alias, load_fails
  <2>3. ASSUME NEW c \in Contexts, bind(c) PROVE UNCHANGED parseVars
    BY <2>3 DEF bind
  <2> QED BY <2>1, <2>2, <2>3 DEF weights, WeightNext, parseVars
<1>3. TensorsInd' /\ stage' \notin BeforeLoading
  BY <1>1, <1>2 DEF TensorsInd, ArrayValue, IsList, BeforeLoading, ParseSteps
<1>4. SUFFICES Stored'
  BY <1>3 DEF StoreInd
<1>5. stage # "parsed" => Stored
  BY <1>1 DEF StoreInd, BeforeLoading, ParseSteps
<1>6. stage = "parsed" => NothingLoaded
  BY DEF StoreInd, BeforeLoading
<1>7. stage = "loading" => \A c \in Contexts : bound[c] = <<>>
  BY <1>1 DEF WeightInd
<1>8. CASE extract_config
  <2>1. stage = "parsed"
    BY <1>8 DEF extract_config
  <2> QED BY <2>1, <1>1, <1>6, <1>8, ExtractStored
<1>9. CASE skip_constant
  <2>1. stage = "loading"
    BY <1>9 DEF skip_constant, loading
  <2> QED BY <2>1, <1>5, <1>9, SkipStored
<1>10. ASSUME NEW g \in Names, load_new(g) \/ load_alias(g) \/ load_fails(g) PROVE Stored'
  <2>1. stage = "loading"
    BY <1>10 DEF load_new, load_alias, load_fails, loading
  <2>2. Stored /\ \A c \in Contexts : bound[c] = <<>>
    BY <2>1, <1>5, <1>7
  <2> QED BY <2>2, <1>1, <1>10, NewStored, AliasStored, FailStored
<1>11. CASE load_end
  <2>1. stage = "loading" /\ stage' = "binding" /\ UNCHANGED <<parseVars, weightVars>>
    BY <1>11 DEF load_end
  <2>2. StoreInd'
    BY <2>1, StoreKept DEF BeforeLoading, ParseSteps
  <2> QED BY <2>2, <1>3 DEF StoreInd
<1>12. ASSUME NEW c \in Contexts, bind(c) PROVE Stored'
  <2>1. stage \in {"binding", "binding_decode"}
    BY <1>12 DEF bind
  <2> QED BY <2>1, <1>1, <1>5, <1>12, BindStored
<1> QED BY <1>8, <1>9, <1>10, <1>11, <1>12 DEF weights, WeightNext

\* Every step keeps the store.
LEMMA StoreNextInd == ASSUME GenerateInd, StoreInd, [GenerateNext]_genVars PROVE StoreInd'
<1>1. CASE UNCHANGED genVars
  BY <1>1, StoreKept DEF genVars
<1>2. CASE parsing
  <2>1. /\ stage \in ParseSteps /\ stage' \in BeforeLoading /\ UNCHANGED weightVars
    BY <1>2 DEF parsing, ParseNext, ParseSteps, BeforeLoading, read_header, read_key, read_scalar,
            read_array, array_return, emplace, metadata_end, read_tensor_info, parse_end, parse_fails,
            read_fails
  <2>2. TensorsInd'
    BY <1>2, ParseKeepsTensors DEF parsing, GenerateInd, StoreInd
  <2>3. NothingLoaded'
    BY <2>1 DEF StoreInd, BeforeLoading, NothingLoaded, weightVars
  <2> QED BY <2>1, <2>2, <2>3 DEF StoreInd
<1>3. CASE weights
  BY <1>3, WeightsStored
<1>4. CASE \/ init_cache \/ init_cache_fails \/ run_kernel \/ run_end \/ run_fails \/ read_past_gamma
            \/ sample_token \/ leave
  <2>1. /\ UNCHANGED <<parseVars, weightVars>>
        /\ stage \in RunStages \cup ExitStages \cup {"bound"} /\ stage' \in RunStages \cup ExitStages
    BY <1>4 DEF init_cache, init_cache_fails, run_kernel, run_end, run_fails, read_past_gamma,
            sample_token, leave, running, RunStages, ExitStages
  <2> QED BY <2>1, StoreKept DEF BeforeLoading, ParseSteps, RunStages, ExitStages
<1> QED BY <1>1, <1>2, <1>3, <1>4 DEF GenerateNext

\* The count of bytes is the sum over the storage.
LEMMA BytesSum == MapThenSumSet(StoredBytes, DOMAIN storage) = SumOf(Bytes, DOMAIN storage)
<1> DEFINE S == DOMAIN storage
           P(it) == it = [s \in SUBSET S |->
                            IF s = {} THEN 0 ELSE StoredBytes(FirstOf(s)) + it[s \ {FirstOf(s)}]]
<1>1. ASSUME NEW it PROVE P(it) <=> IsSum(it, Bytes, S)
  <2>1. \A s \in SUBSET S : s # {} => FirstOf(s) \in S
    BY FirstIn
  <2>2. \A x \in S : Bytes[x] = StoredBytes(x)
    BY DEF Bytes
  <2> QED BY <2>1, <2>2 DEF IsSum
<1>2. (CHOOSE it : P(it)) = (CHOOSE it : IsSum(it, Bytes, S))
  BY <1>1
<1> QED BY <1>2 DEF MapThenSumSet, MapThenFoldSet, IsSum, FirstOf, SumOf

-----------------------------------------------------------------------------
(* Theorems. *)

\* Every step keeps the invariant.
LEMMA GenerateNextInd == ASSUME GenerateInd, [GenerateNext]_genVars PROVE GenerateInd'
<1>1. CASE UNCHANGED genVars
  <2>1. /\ UNCHANGED <<parseVars, weightVars>> /\ stage' = stage
        /\ UNCHANGED <<layers, max_seq_len, cached_len, max_new_tokens, samp_cfg, prompt_len, all_tokens,
                       ctx, op, logits, token, step>>
    BY <1>1 DEF genVars, kvVars, mainVars
  <2>2. /\ ParsedInd' /\ WeightInd' /\ eos_token_id' = eos_token_id
        /\ (Complete' <=> Complete) /\ NumOps' = NumOps /\ cfg' = cfg
        /\ \A i : WeightsThere(i)' <=> WeightsThere(i)
    BY <2>1, InputKept, NamesKept DEF GenerateInd, weightVars
  <2>3. MainInd' /\ CacheHoldsTokens'
    BY <2>1, <2>2 DEF GenerateInd, MainInd, Limit, CacheHoldsTokens, kv_initialized
  <2>4. RunInd'
    BY <2>1, <2>2 DEF GenerateInd, RunInd, CacheMade, kv_initialized, InVocabulary
  <2> QED BY <2>2, <2>3, <2>4 DEF GenerateInd
<1> QED BY <1>1, ParsingInd, WeightsInd, InitCacheInd, InitCacheFailsInd, RunKernelInd, RunEndInd,
           RunFailsInd, ReadPastInd, SampleInd, LeaveInd DEF GenerateNext

\* The state of main, of its cache and of what it holds of the file, at every
\* step of generate and generate_cuda.
THEOREM GenerateInvariant == GenerateSpec => []GenerateInd
<1>1. GenerateInit => GenerateInd
  BY GenerateInitInd
<1>2. GenerateInd /\ [GenerateNext]_genVars => GenerateInd'
  BY GenerateNextInd
<1> QED BY <1>1, <1>2, PTL DEF GenerateSpec

\* Between any two kernels of any run every row is in its place, for prompts
\* of every length, any number of layers, and whatever is sampled
\* (kernel_rope, kernel_attention, advance_kv_cache_step).
THEOREM GenerateRowsInPlace == GenerateSpec => []CacheInv
<1>1. GenerateInd => CacheInv
  <2> SUFFICES ASSUME GenerateInd PROVE GenerateTypeOK
    BY DEF GenerateInd, CacheInv
  <2>1. prompt_len <= Len(all_tokens)
    BY DEF GenerateInd, MainInd
  <2> QED BY <2>1 DEF GenerateInd, MainInd, GenerateTypeOK, Stages, ParseSteps, RunStages, ExitStages
<1> QED BY <1>1, GenerateInvariant, PTL

\* A token comes only from a model all of whose constants were found and bound,
\* of formats and shapes that the kernels take: those of the first run between
\* them read every one (load_shared_weights, get_tensor,
\* check_q8_block_aligned, CpuExecutor::run).
THEOREM GenerateOnlyComplete == GenerateSpec => []OnlyCompleteModelsSpeak
<1>1. GenerateInd => OnlyCompleteModelsSpeak
  BY DEF GenerateInd, MainInd, OnlyCompleteModelsSpeak, Complete
<1> QED BY <1>1, GenerateInvariant, PTL

\* The limit on the tokens is kept, and on the CPU reached unless the end
\* token comes first (max_seq_len, the decode loop).
THEOREM GenerateTokenLimit == GenerateSpec => []TokenLimit
<1>1. GenerateInd => TokenLimit
  <2> SUFFICES ASSUME GenerateInd PROVE TokenLimit
    OBVIOUS
  <2>1. Generated = step
    BY DEF GenerateInd, MainInd, Generated
  <2> QED BY <2>1 DEF GenerateInd, MainInd, TokenLimit, Limit
<1> QED BY <1>1, GenerateInvariant, PTL

\* Whatever the file holds, each of its tensors is stored and counted once,
\* every alias fits its storage, and both contexts see the same storage
\* (load_shared_weights, check_compatible_weight, bind).
THEOREM GenerateSharesOnce == GenerateSpec => []WeightsSharedOnce
<1>1. GenerateInit => StoreInd
  BY StoreInitInd DEF GenerateInit
<1>2. GenerateInd /\ StoreInd /\ [GenerateNext]_genVars => StoreInd'
  BY StoreNextInd
<1>3. StoreInd => WeightsSharedOnce
  <2> SUFFICES ASSUME StoreInd PROVE WeightsSharedOnce
    OBVIOUS
  <2>1. CASE stage \in BeforeLoading
    <3>1. DOMAIN storage = {} /\ DOMAIN aliases = {} /\ total_bytes = 0
      BY <2>1 DEF StoreInd, NothingLoaded
    <3>2. \A c \in Contexts : bound[c] = <<>>
      BY <2>1 DEF StoreInd, NothingLoaded
    <3>3. MapThenSumSet(StoredBytes, DOMAIN storage) = 0
      <4>1. SumOf(Bytes, {}) = 0
        BY SumOfStep, FS_EmptySet
      <4> QED BY <4>1, <3>1, BytesSum
    <3> QED BY <3>1, <3>2, <3>3 DEF WeightsSharedOnce
  <2>2. CASE stage \notin BeforeLoading
    BY <2>2, BytesSum DEF StoreInd, Stored, WeightsSharedOnce
  <2> QED BY <2>1, <2>2
<1> QED BY <1>1, <1>2, <1>3, GenerateInvariant, PTL DEF GenerateSpec

\* Whatever the finite logits, the tokens already there and the order in which the
\* sort leaves equals: what sample returns passes the penalty, top_k, top_p
\* and greedy as they are meant (Sampler::sample).
THEOREM GenerateSamplesEligible == GenerateSpec => SamplesEligible
<1>1. GenerateInd /\ [GenerateNext]_genVars =>
        [stage = "sampling" /\ stage' # "sampling" =>
           token' \in Eligible(samp_cfg, logits, all_tokens)]_genVars
  <2> SUFFICES ASSUME GenerateInd, GenerateNext, stage = "sampling", stage' # "sampling"
               PROVE  token' \in Eligible(samp_cfg, logits, all_tokens)
    BY DEF genVars
  <2>1. sample_token
    <3>1. ~parsing
      BY DEF parsing, ParseNext, read_header, read_key, read_scalar, read_array, array_return,
             emplace, metadata_end, read_tensor_info, parse_end, parse_fails, read_fails
    <3>2. ~weights
      BY WeightStepInd DEF GenerateInd, weights
    <3>3. ~init_cache /\ ~init_cache_fails
      BY DEF init_cache, init_cache_fails
    <3>4. ~run_kernel /\ ~run_end /\ ~run_fails /\ ~read_past_gamma
      BY DEF run_kernel, run_end, run_fails, read_past_gamma, running
    <3>5. ~leave
      BY DEF leave
    <3> QED BY <3>1, <3>2, <3>3, <3>4, <3>5 DEF GenerateNext
  <2>2. token' \in sample(samp_cfg, logits, all_tokens)
    BY <2>1 DEF sample_token
  <2>3. /\ logits \in Logits /\ all_tokens \in Seq(Nat)
        /\ samp_cfg.top_k \in Int /\ samp_cfg.p \in Int /\ samp_cfg.q \in Nat \ {0}
    <3>1. stage \in RunStages
      BY DEF RunStages
    <3>2. all_tokens \in Seq(Nat)
      BY DEF GenerateInd, MainInd
    <3> QED BY <3>1, <3>2 DEF GenerateInd, RunInd
  <2>4. PICK lg \in Logits : lg = logits
    BY <2>3
  <2>5. PICK s : s = samp_cfg
    OBVIOUS
  <2>6. PICK ids \in Seq(Nat) : ids = all_tokens
    BY <2>3
  <2>7. IsLogits(lg) /\ MassRange \in Nat \ {0}
    BY GenerateAssumption DEF IsLogits
  <2>8. s.top_k \in Int /\ s.p \in Int /\ s.q \in Nat \ {0}
    BY <2>3, <2>5
  <2>9. sample(s, lg, ids) \subseteq Eligible(s, lg, ids)
    BY <2>7, <2>8, SampledEligible
  <2> QED BY <2>2, <2>4, <2>5, <2>6, <2>9
<1> QED BY <1>1, GenerateInvariant, PTL DEF GenerateSpec, SamplesEligible
=============================================================================
