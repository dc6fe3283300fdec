------------------------------ MODULE SetFacts ------------------------------
(***************************************************************************)
(* Facts about finite sets that the library does not state: least and      *)
(* greatest elements, and sums over a set.  What would be shown by         *)
(* induction over the set is shown at a smallest part of it at which it    *)
(* would fail.                                                             *)
(***************************************************************************)
EXTENDS Integers, FiniteSetsExt, FiniteSetTheorems, NaturalsInduction, WellFoundedInduction, TLAPS

-----------------------------------------------------------------------------
(* Least and greatest elements. *)

\* A set of naturals that is not empty has a least element.
LEMMA LeastElement ==
  ASSUME NEW S \in SUBSET Nat, S # {}
  PROVE  Min(S) \in S /\ \A x \in S : Min(S) <= x
<1> DEFINE R == OpToRel(<, Nat)
<1>1. R = {ss \in Nat \X Nat : ss[1] < ss[2]}
  BY Zenon DEF OpToRel
<1>2. IsWellFoundedOn(R, Nat)
  BY NatLessThanWellFounded
<1> HIDE DEF R
<1>3. PICK x \in S : \A y \in S : ~(<<y, x>> \in R)
  BY <1>2, WFMin
<1>4. ASSUME NEW y \in S PROVE x <= y
  <2>1. <<y, x>> \in Nat \X Nat /\ <<y, x>>[1] = y /\ <<y, x>>[2] = x /\ x \in Nat /\ y \in Nat
    OBVIOUS
  <2>2. ~(<<y, x>>[1] < <<y, x>>[2])
    BY <2>1, <1>1, <1>3, Zenon
  <2> QED BY <2>1, <2>2
<1> QED BY <1>4 DEF Min

\* One that has an upper bound has a greatest element.
LEMMA GreatestElement ==
  ASSUME NEW n \in Nat, NEW S \in SUBSET (0..n), S # {}
  PROVE  Max(S) \in S /\ \A x \in S : x <= Max(S)
<1> DEFINE T == {y \in 0..n : n - y \in S}
<1>1. PICK s \in S : TRUE
  OBVIOUS
<1>2. n - s \in T
  BY <1>1
<1>3. T \in SUBSET Nat /\ T # {}
  BY <1>2
<1>4. Min(T) \in T /\ \A y \in T : Min(T) <= y
  BY <1>3, LeastElement
<1> DEFINE m == n - Min(T)
<1>5. m \in S /\ \A x \in S : x <= m
  <2>1. m \in S /\ Min(T) \in 0..n
    BY <1>4
  <2>2. ASSUME NEW x \in S PROVE x <= m
    <3>1. x \in 0..n /\ n - (n - x) = x
      OBVIOUS
    <3>2. n - x \in T
      BY <3>1
    <3>3. Min(T) <= n - x
      BY <3>2, <1>4
    <3> HIDE DEF T
    <3> QED BY <3>1, <3>3, <2>1
  <2> QED BY <2>1, <2>2
<1> HIDE DEF m
<1>6. \A x \in S : m >= x /\ x \in Int
  BY <1>5
<1> QED BY <1>5, <1>6 DEF Max

\* A family of parts of a finite set that is not empty has a part that leaves
\* the family with each of its elements.
LEMMA LeastSubset ==
  ASSUME NEW S, IsFiniteSet(S), NEW F \in SUBSET SUBSET S, F # {}
  PROVE  \E s \in F : \A x \in s : s \ {x} \notin F
<1> DEFINE N == {Cardinality(s) : s \in F}
<1>1. \A s \in F : IsFiniteSet(s) /\ Cardinality(s) \in Nat
  BY FS_Subset, FS_CardinalityType
<1>2. PICK n \in N : \A m \in N : n <= m
  <2>1. N \in SUBSET Nat /\ N # {}
    BY <1>1
  <2> HIDE DEF N
  <2>2. Min(N) \in N /\ \A m \in N : Min(N) <= m
    BY <2>1, LeastElement
  <2> QED BY <2>2
<1>3. PICK s \in F : Cardinality(s) = n
  OBVIOUS
<1>4. ASSUME NEW x \in s, s \ {x} \in F PROVE FALSE
  <2>1. Cardinality(s \ {x}) = Cardinality(s) - 1
    BY <1>1, FS_RemoveElement
  <2>2. Cardinality(s) \in Nat /\ n <= Cardinality(s \ {x})
    BY <1>1, <1>2, <1>4
  <2> QED BY <2>1, <2>2, <1>3
<1> QED BY <1>4

\* A finite set of integers that is not empty has a greatest element.
LEMMA FiniteHasMax ==
  ASSUME NEW S \in SUBSET Int, IsFiniteSet(S), S # {}
  PROVE  Max(S) \in S /\ \A x \in S : x <= Max(S)
<1> DEFINE F == {u \in SUBSET S : u # {} /\ ~\E x \in u : \A y \in u : y <= x}
<1>1. ASSUME F # {} PROVE FALSE
  <2>1. PICK u \in F : \A x \in u : u \ {x} \notin F
    BY <1>1, LeastSubset
  <2>2. u \in SUBSET S /\ u # {} /\ ~\E x \in u : \A y \in u : y <= x
    OBVIOUS
  <2>3. PICK z \in u : TRUE
    BY <2>2
  <2>4. u \ {z} = {} \/ \E x \in u \ {z} : \A y \in u \ {z} : y <= x
    BY <2>1, <2>2
  <2> HIDE DEF F
  <2>5. CASE u \ {z} = {}
    BY <2>2, <2>3, <2>5
  <2>6. CASE \E x \in u \ {z} : \A y \in u \ {z} : y <= x
    <3>1. PICK x \in u \ {z} : \A y \in u \ {z} : y <= x
      BY <2>6
    <3>2. x \in Int /\ z \in Int
      BY <2>2, <3>1
    <3>3. CASE z <= x
      BY <2>2, <3>1, <3>3
    <3>4. CASE x <= z
      <4>1. ASSUME NEW y \in u PROVE y <= z
        BY <2>2, <3>1, <3>2, <3>4
      <4> QED BY <2>2, <4>1
    <3> QED BY <3>2, <3>3, <3>4
  <2> QED BY <2>4, <2>5, <2>6
<1>2. \E x \in S : \A y \in S : x >= y
  BY <1>1
<1> QED BY <1>2 DEF Max

-----------------------------------------------------------------------------
(* Recursion. *)

\* f starts at base and gets from each number to the next by its step.
IsRun(f, S, n, base, step) == /\ f \in [0..n -> S]
                              /\ f[0] = base
                              /\ \A i \in 1..n : f[i] = step[i][f[i - 1]]

\* A function may be defined at each number from its value at the one before.
LEMMA RunExists ==
  ASSUME NEW S, NEW n \in Nat, NEW base \in S, NEW step \in [1..n -> [S -> S]]
  PROVE  \E f : IsRun(f, S, n, base, step)
<1> DEFINE Run(k, f) == /\ f \in [0..k -> S]
                        /\ f[0] = base
                        /\ \A i \in 1..k : f[i] = step[i][f[i - 1]]
           Bad == {k \in 0..n : ~\E f : Run(k, f)}
<1>1. Bad = {}
  <2> SUFFICES ASSUME Bad # {} PROVE FALSE
    OBVIOUS
  <2>1. PICK m : m \in Bad /\ \A x \in Bad : m <= x
    <3>1. Bad \in SUBSET Nat
      OBVIOUS
    <3> HIDE DEF Bad
    <3> QED BY <3>1, LeastElement
  <2>2. m \in 0..n /\ ~\E f : Run(m, f)
    BY <2>1
  <2>3. CASE m = 0
    <3>1. Run(0, [i \in 0..0 |-> base])
      OBVIOUS
    <3> QED BY <3>1, <2>2, <2>3
  <2>4. CASE m # 0
    <3>1. m - 1 \in 0..n /\ ~(m <= m - 1)
      BY <2>2, <2>4
    <3>2. PICK g : Run(m - 1, g)
      <4>1. m - 1 \notin Bad
        <5> HIDE DEF Bad
        <5> QED BY <2>1, <3>1
      <4> QED BY <3>1, <4>1
    <3> DEFINE h == [i \in 0..m |-> IF i = m THEN step[m][g[m - 1]] ELSE g[i]]
    <3>3. m \in 1..n /\ m - 1 \in 0..(m - 1) /\ g[m - 1] \in S /\ step[m] \in [S -> S]
      BY <3>2, <2>2, <2>4
    <3>4. h \in [0..m -> S] /\ h[0] = base /\ h[m] = step[m][g[m - 1]] /\ \A i \in 0..(m - 1) : h[i] = g[i]
      BY <3>2, <3>3
    <3> HIDE DEF h, Bad
    <3>5. ASSUME NEW i \in 1..m PROVE h[i] = step[i][h[i - 1]]
      <4>1. CASE i = m
        BY <4>1, <3>3, <3>4
      <4>2. CASE i # m
        <5>1. i \in 1..(m - 1) /\ i \in 0..(m - 1) /\ i - 1 \in 0..(m - 1)
          BY <4>2, <3>3
        <5> QED BY <5>1, <3>2, <3>4
      <4> QED BY <4>1, <4>2
    <3>6. Run(m, h)
      BY <3>4, <3>5
    <3> QED BY <3>6, <2>2
  <2> QED BY <2>3, <2>4
<1>2. PICK f : Run(n, f)
  BY <1>1, SMTT(20)
<1> QED BY <1>2 DEF IsRun

-----------------------------------------------------------------------------
(* Sums. *)

\* The sum of a function over a set.
SumOf(g, S) == MapThenSumSet(LAMBDA x : g[x], S)

\* The element that MapThenSumSet counts first.
FirstOf(s) == CHOOSE x \in s : TRUE

\* sum[s] is the sum of g over the part s of S.
IsSum(sum, g, S) ==
    sum = [s \in SUBSET S |-> IF s = {} THEN 0 ELSE g[FirstOf(s)] + sum[s \ {FirstOf(s)}]]

\* It is one of the set.
LEMMA FirstIn == ASSUME NEW s, s # {} PROVE FirstOf(s) \in s
BY DEF FirstOf

\* There is one such function.
LEMMA SumUnique ==
  ASSUME NEW S, IsFiniteSet(S), NEW g, NEW a, NEW b, IsSum(a, g, S), IsSum(b, g, S)
  PROVE  a = b
<1> DEFINE F == {s \in SUBSET S : a[s] # b[s]}
<1>1. ASSUME F # {} PROVE FALSE
  <2>1. PICK s \in F : \A x \in s : s \ {x} \notin F
    BY <1>1, LeastSubset
  <2>2. s # {}
    BY <2>1 DEF IsSum
  <2>3. FirstOf(s) \in s /\ s \in SUBSET S /\ s \ {FirstOf(s)} \in SUBSET S
    BY <2>2, FirstIn
  <2>4. a[s \ {FirstOf(s)}] = b[s \ {FirstOf(s)}]
    BY <2>1, <2>3
  <2>5. a[s] = g[FirstOf(s)] + a[s \ {FirstOf(s)}] /\ b[s] = g[FirstOf(s)] + b[s \ {FirstOf(s)}]
    BY <2>2, <2>3 DEF IsSum
  <2> QED BY <2>1, <2>4, <2>5
<1>2. a = [s \in SUBSET S |-> a[s]] /\ b = [s \in SUBSET S |-> b[s]]
  BY DEF IsSum
<1>3. \A s \in SUBSET S : a[s] = b[s]
  BY <1>1
<1> QED BY <1>2, <1>3

\* Its restriction to the parts of a part is that of the part.
LEMMA SumOfPart ==
  ASSUME NEW S, NEW T \in SUBSET S, NEW g, NEW a, IsSum(a, g, S),
         NEW b, b = [s \in SUBSET T |-> a[s]]
  PROVE  IsSum(b, g, T)
<1>1. ASSUME NEW s \in SUBSET T
      PROVE  b[s] = IF s = {} THEN 0 ELSE g[FirstOf(s)] + b[s \ {FirstOf(s)}]
  <2>1. s \in SUBSET S /\ s \ {FirstOf(s)} \in SUBSET T
    OBVIOUS
  <2> QED BY <2>1 DEF IsSum
<1>2. b = [s \in SUBSET T |-> IF s = {} THEN 0 ELSE g[FirstOf(s)] + b[s \ {FirstOf(s)}]]
  BY <1>1
<1> QED BY <1>2 DEF IsSum

\* And there is such a function: for a set, it is put together from those for
\* the set without one of its elements.
LEMMA SumExists ==
  ASSUME NEW S, IsFiniteSet(S), NEW g
  PROVE  \E a : IsSum(a, g, S)
<1> DEFINE F == {s \in SUBSET S : ~\E a : IsSum(a, g, s)}
<1> SUFFICES ASSUME F # {} PROVE FALSE
  OBVIOUS
<1>1. PICK s \in F : \A x \in s : s \ {x} \notin F
  BY LeastSubset
<1>2. CASE s = {}
  <2>1. IsSum([u \in SUBSET s |-> 0], g, s)
    BY <1>2 DEF IsSum
  <2> QED BY <2>1, <1>1
<1>3. CASE s # {}
  <2>1. IsFiniteSet(s) /\ FirstOf(s) \in s
    BY <1>3, FirstIn, FS_Subset
  <2>2. \A x \in s : \E a : IsSum(a, g, s \ {x})
    BY <1>1
  <2> DEFINE sum(x) == CHOOSE a : IsSum(a, g, s \ {x})
  <2>3. \A x \in s : IsSum(sum(x), g, s \ {x})
    BY <2>2
  <2> DEFINE out(u) == CHOOSE x \in s : x \notin u
             part(u) == sum(out(u))[u]
             b == [u \in SUBSET s |-> IF u = s THEN g[FirstOf(s)] + part(s \ {FirstOf(s)}) ELSE part(u)]
  <2> HIDE DEF sum
  <2>4. ASSUME NEW u \in SUBSET s, u # s, NEW x \in s, x \notin u
        PROVE  sum(x)[u] = part(u)
    <3>1. out(u) \in s /\ out(u) \notin u
      BY <2>4
    <3>2. u \in SUBSET (s \ {x}) /\ u \in SUBSET (s \ {out(u)})
      BY <2>4, <3>1
    <3> HIDE DEF out
    <3>0. PICK p, q : p = [v \in SUBSET u |-> sum(x)[v]] /\ q = [v \in SUBSET u |-> sum(out(u))[v]]
      OBVIOUS
    <3>3. IsSum(p, g, u) /\ IsSum(q, g, u)
      <4>1. IsSum(sum(x), g, s \ {x}) /\ IsSum(sum(out(u)), g, s \ {out(u)})
        BY <2>3, <3>1
      <4>2. PICK y, z, c, d : /\ y = s \ {x} /\ z = s \ {out(u)} /\ c = sum(x) /\ d = sum(out(u))
        OBVIOUS
      <4>3. IsSum(c, g, y) /\ IsSum(d, g, z) /\ u \in SUBSET y /\ u \in SUBSET z
        BY <4>1, <4>2, <3>2
      <4>4. p = [v \in SUBSET u |-> c[v]] /\ q = [v \in SUBSET u |-> d[v]]
        BY <3>0, <4>2
      <4> QED BY <4>3, <4>4, SumOfPart, ZenonT(40)
    <3>4. p[u] = sum(x)[u] /\ q[u] = sum(out(u))[u]
      BY <3>0
    <3>5. p = q
      BY <2>1, <3>3, SumUnique, FS_Subset
    <3> QED BY <3>4, <3>5
  <2>5. ASSUME NEW u \in SUBSET s
        PROVE  b[u] = IF u = {} THEN 0 ELSE g[FirstOf(u)] + b[u \ {FirstOf(u)}]
    <3>1. CASE u = s
      <4>1. s \ {FirstOf(s)} \in SUBSET s /\ s \ {FirstOf(s)} # s
        BY <2>1
      <4> QED BY <3>1, <1>3, <4>1
    <3>2. CASE u # s
      <4>1. PICK x \in s : x \notin u
        BY <3>2
      <4>2. b[u] = sum(x)[u]
        BY <3>2, <4>1, <2>4
      <4>3. u \in SUBSET (s \ {x})
        BY <4>1
      <4>4. sum(x)[u] = IF u = {} THEN 0 ELSE g[FirstOf(u)] + sum(x)[u \ {FirstOf(u)}]
        BY <2>3, <4>3 DEF IsSum
      <4>5. u \ {FirstOf(u)} \in SUBSET s /\ u \ {FirstOf(u)} # s /\ x \notin u \ {FirstOf(u)}
        BY <4>1
      <4>6. sum(x)[u \ {FirstOf(u)}] = b[u \ {FirstOf(u)}]
        BY <4>1, <4>5, <2>4
      <4> QED BY <4>2, <4>4, <4>6
    <3> QED BY <3>1, <3>2
  <2> HIDE DEF part
  <2>6. b = [u \in SUBSET s |-> IF u = {} THEN 0 ELSE g[FirstOf(u)] + b[u \ {FirstOf(u)}]]
    BY <2>5
  <2>7. IsSum(b, g, s)
    BY <2>6 DEF IsSum
  <2> QED BY <2>7, <1>1
<1> QED BY <1>2, <1>3

\* MapThenSumSet gives its value for the whole set.
LEMMA SumOfIs ==
  ASSUME NEW S, IsFiniteSet(S), NEW g, NEW a, IsSum(a, g, S)
  PROVE  SumOf(g, S) = a[S]
<1> DEFINE it == CHOOSE it : IsSum(it, g, S)
<1>1. IsSum(it, g, S)
  OBVIOUS
<1>2. SumOf(g, S) = it[S]
  BY DEF SumOf, MapThenSumSet, MapThenFoldSet, IsSum, FirstOf
<1> HIDE DEF it
<1>3. it = a
  BY <1>1, SumUnique
<1> QED BY <1>2, <1>3

\* A sum is that of the first element and of the rest.
LEMMA SumOfStep ==
  ASSUME NEW S, IsFiniteSet(S), NEW g
  PROVE  SumOf(g, S) = IF S = {} THEN 0 ELSE g[FirstOf(S)] + SumOf(g, S \ {FirstOf(S)})
<1>1. PICK a : IsSum(a, g, S)
  BY SumExists
<1>0. PICK R, b : R = S \ {FirstOf(S)} /\ b = [s \in SUBSET R |-> a[s]]
  OBVIOUS
<1>2. SumOf(g, S) = a[S]
  BY <1>1, SumOfIs
<1>3. R \in SUBSET S /\ IsFiniteSet(R)
  BY <1>0, FS_Subset
<1>4. IsSum(b, g, R) /\ b[R] = a[R]
  <2>1. b = [s \in SUBSET R |-> a[s]] /\ R \in SUBSET S
    BY <1>0, <1>3
  <2>2. IsSum(b, g, R)
    BY <1>1, <2>1, SumOfPart
  <2> QED BY <2>1, <2>2
<1>5. SumOf(g, R) = b[R]
  BY <1>3, <1>4, SumOfIs
<1>6. a[S] = IF S = {} THEN 0 ELSE g[FirstOf(S)] + a[R]
  BY <1>0, <1>1 DEF IsSum
<1> QED BY <1>0, <1>2, <1>4, <1>5, <1>6

\* A sum of integers is an integer.
LEMMA SumOfInt ==
  ASSUME NEW S, IsFiniteSet(S), NEW g, \A x \in S : g[x] \in Int
  PROVE  SumOf(g, S) \in Int
<1> DEFINE F == {s \in SUBSET S : SumOf(g, s) \notin Int}
<1> SUFFICES ASSUME F # {} PROVE FALSE
  OBVIOUS
<1>1. PICK s \in F : \A x \in s : s \ {x} \notin F
  BY LeastSubset
<1>2. SumOf(g, s) = IF s = {} THEN 0 ELSE g[FirstOf(s)] + SumOf(g, s \ {FirstOf(s)})
  BY <1>1, SumOfStep, FS_Subset
<1>3. ASSUME s # {} PROVE g[FirstOf(s)] \in Int /\ SumOf(g, s \ {FirstOf(s)}) \in Int
  BY <1>1, <1>3, FirstIn
<1> QED BY <1>1, <1>2, <1>3

\* A sum of natural numbers is one.
LEMMA SumOfNat ==
  ASSUME NEW S, IsFiniteSet(S), NEW g, \A x \in S : g[x] \in Nat
  PROVE  SumOf(g, S) \in Nat
<1> DEFINE F == {s \in SUBSET S : SumOf(g, s) \notin Nat}
<1> SUFFICES ASSUME F # {} PROVE FALSE
  OBVIOUS
<1>1. PICK s \in F : \A x \in s : s \ {x} \notin F
  BY LeastSubset
<1>2. SumOf(g, s) = IF s = {} THEN 0 ELSE g[FirstOf(s)] + SumOf(g, s \ {FirstOf(s)})
  BY FS_Subset, SumOfStep
<1>3. s # {}
  BY <1>2
<1>4. FirstOf(s) \in s /\ SumOf(g, s \ {FirstOf(s)}) \in Nat
  BY <1>1, <1>3, FirstIn
<1> QED BY <1>2, <1>3, <1>4

\* Any element may be counted first.
LEMMA SumOfRemove ==
  ASSUME NEW S, IsFiniteSet(S), NEW g, \A x \in S : g[x] \in Int, NEW y \in S
  PROVE  SumOf(g, S) = g[y] + SumOf(g, S \ {y})
<1> DEFINE F == {s \in SUBSET S : \E x \in s : SumOf(g, s) # g[x] + SumOf(g, s \ {x})}
<1> SUFFICES ASSUME F # {} PROVE FALSE
  OBVIOUS
<1>1. PICK s \in F : \A x \in s : s \ {x} \notin F
  BY LeastSubset
<1>2. PICK x \in s : SumOf(g, s) # g[x] + SumOf(g, s \ {x})
  BY <1>1
<1>3. PICK f : f = FirstOf(s)
  OBVIOUS
<1>4. f \in s /\ SumOf(g, s) = g[f] + SumOf(g, s \ {f})
  BY <1>1, <1>2, <1>3, FirstIn, SumOfStep, FS_Subset
<1>5. x # f
  BY <1>2, <1>4
<1>6. SumOf(g, s \ {f}) = g[x] + SumOf(g, (s \ {f}) \ {x})
  BY <1>1, <1>4, <1>5
<1>7. SumOf(g, s \ {x}) = g[f] + SumOf(g, (s \ {x}) \ {f})
  BY <1>1, <1>4, <1>5
<1>8. (s \ {x}) \ {f} = (s \ {f}) \ {x}
  OBVIOUS
<1>9. g[x] \in Int /\ g[f] \in Int /\ SumOf(g, (s \ {f}) \ {x}) \in Int
  <2>1. (s \ {f}) \ {x} \in SUBSET S
    OBVIOUS
  <2> QED BY <2>1, <1>4, FS_Subset, SumOfInt
<1>10. PICK k \in Int : k = SumOf(g, (s \ {f}) \ {x})
  BY <1>9
<1>11. SumOf(g, s) = g[f] + (g[x] + k) /\ SumOf(g, s \ {x}) = g[f] + k
  BY <1>4, <1>6, <1>7, <1>8, <1>10
<1> QED BY <1>2, <1>9, <1>11

\* Functions that agree on a set have one sum over it.
LEMMA SumOfAgree ==
  ASSUME NEW S, NEW g, NEW h, \A x \in S : g[x] = h[x]
  PROVE  SumOf(g, S) = SumOf(h, S)
<1>1. ASSUME NEW it PROVE IsSum(it, g, S) <=> IsSum(it, h, S)
  <2>1. \A s \in SUBSET S : s # {} => FirstOf(s) \in S
    BY FirstIn
  <2> QED BY <2>1 DEF IsSum
<1>2. (CHOOSE it : IsSum(it, g, S)) = (CHOOSE it : IsSum(it, h, S))
  BY <1>1
<1>3. SumOf(g, S) = (CHOOSE it : IsSum(it, g, S))[S]
  BY DEF SumOf, MapThenSumSet, MapThenFoldSet, IsSum, FirstOf
<1>4. SumOf(h, S) = (CHOOSE it : IsSum(it, h, S))[S]
  BY DEF SumOf, MapThenSumSet, MapThenFoldSet, IsSum, FirstOf
<1> QED BY <1>2, <1>3, <1>4

\* Summing h over S and y is summing g over S and adding h[y].
SumGrows(g, S, h, y) == SumOf(h, S \cup {y}) = SumOf(g, S) + h[y]

\* The sum over a set to which one element is added.
LEMMA SumOfAdd ==
  ASSUME NEW S, IsFiniteSet(S), NEW g, NEW h, NEW y, y \notin S,
         \A x \in S : h[x] = g[x] /\ g[x] \in Int, h[y] \in Int
  PROVE  SumGrows(g, S, h, y)
<1>1. IsFiniteSet(S \cup {y}) /\ (S \cup {y}) \ {y} = S /\ \A x \in S \cup {y} : h[x] \in Int
  BY FS_AddElement
<1>2. SumOf(h, S \cup {y}) = h[y] + SumOf(h, S)
  BY <1>1, SumOfRemove
<1>3. SumOf(h, S) = SumOf(g, S) /\ SumOf(g, S) \in Int
  BY SumOfAgree, SumOfInt
<1> QED BY <1>2, <1>3 DEF SumGrows
=============================================================================
