---------------------------- MODULE DataTheorems ----------------------------
(* Facts about data that the proofs of several components use: induction     *)
(* over the natural numbers and over finite sets, sums of functions into     *)
(* the natural numbers, and remainders.                                      *)
EXTENDS Functions, FiniteSets, FiniteSetTheorems, Integers, TLAPS

(* Leaves that name no prover are Zenon's.                                   *)
USE ZenonT(60)

(* A nonempty set of natural numbers has a least element.                    *)
LEMMA NatMin ==
    ASSUME NEW T, T \subseteq Nat, T # {}
    PROVE  \E x \in T : \A y \in T : x <= y
<1> DEFINE R == {ss \in Nat \X Nat : ss[1] < ss[2]}
<1>1. IsWellFoundedOn(R, Nat) BY NatLessThanWellFounded, Zenon DEF OpToRel
<1>2. PICK x \in T : \A y \in T : ~(<<y, x>> \in R)
  <2> HIDE DEF R
  <2> QED BY <1>1, WFMin, Zenon
<1>3. ASSUME NEW y \in T PROVE x <= y
  <2>1. x \in Nat /\ y \in Nat OBVIOUS
  <2>2. ~(<<y, x>> \in R) BY <1>2
  <2>3. ~(y < x) BY <2>1, <2>2, Zenon
  <2> QED BY SMTT(30), <2>1, <2>3
<1> QED BY <1>3

(* Induction, for the set of the numbers that have the property.             *)
LEMMA SetInduction ==
    ASSUME NEW S, 0 \in S, \A n \in Nat : n \in S => n + 1 \in S
    PROVE  \A n \in Nat : n \in S
<1> DEFINE T == {n \in Nat : n \notin S}
<1> SUFFICES ASSUME T # {} PROVE FALSE OBVIOUS
<1>1. PICK x \in T : \A y \in T : x <= y BY NatMin
<1>2. x \in Nat /\ x # 0 BY <1>1
<1>3. x - 1 \in Nat /\ (x - 1) + 1 = x /\ ~(x <= x - 1) BY SMTT(30), <1>2
<1>4. x - 1 \in S BY <1>1, <1>3
<1> QED BY <1>1, <1>3, <1>4

-----------------------------------------------------------------------------
(* Sums. SumFunctionOnSet of the module Functions, for functions into the    *)
(* natural numbers and finite sets of indices. The sum is the number of unit *)
(* cells of a bar chart: that gives the recursive function behind it a       *)
(* solution, and makes the order of the summands irrelevant.                 *)

(* The bar of index p, and the chart of the indices in S. *)
Bar(f, p) == {p} \X (1..f[p])
Bars(f, S) == UNION {Bar(f, p) : p \in S}

(* A bar has as many cells as it is high. *)
LEMMA BarSize ==
  ASSUME NEW f, NEW p, f[p] \in Nat
  PROVE  IsFiniteSet(Bar(f, p)) /\ Cardinality(Bar(f, p)) = f[p]
<1>1. IsFiniteSet(1..f[p]) /\ Cardinality(1..f[p]) = f[p]
  <2>1. /\ IsFiniteSet(1..f[p])
        /\ Cardinality(1..f[p]) = IF 1 > f[p] THEN 0 ELSE f[p] - 1 + 1
    <3>1. f[p] \in Int /\ 1 \in Int
      BY SMTT(30)
    <3> QED BY <3>1, FS_Interval
  <2> QED BY SMTT(30), <2>1
<1>2. IsFiniteSet({p}) /\ Cardinality({p}) = 1
  BY FS_Singleton
<1>3. IsFiniteSet(Bar(f, p)) /\ Cardinality(Bar(f, p)) = 1 * f[p]
  BY <1>1, <1>2, FS_Product DEF Bar
<1> QED BY SMTT(30), <1>3

(* A chart of finitely many bars is finite. *)
LEMMA BarsFinite ==
  ASSUME NEW f, NEW S, IsFiniteSet(S), \A p \in S : f[p] \in Nat
  PROVE  IsFiniteSet(Bars(f, S)) /\ Cardinality(Bars(f, S)) \in Nat
<1> DEFINE B == {Bar(f, p) : p \in S}
           h == [p \in S |-> Bar(f, p)]
<1>1. h \in Surjection(S, B)
  BY DEF Surjection
<1>2. IsFiniteSet(B)
  BY <1>1, FS_Surjection
<1>3. \A T \in B : IsFiniteSet(T)
  BY BarSize
<1>4. IsFiniteSet(Bars(f, S))
  BY <1>2, <1>3, FS_UNION DEF Bars
<1> QED BY <1>4, FS_CardinalityType

(* The charts of disjoint sets of indices have no cell in common. *)
LEMMA BarsUnion ==
  ASSUME NEW f, NEW S, NEW T, IsFiniteSet(S), IsFiniteSet(T), S \cap T = {},
         \A p \in S \cup T : f[p] \in Nat
  PROVE  Cardinality(Bars(f, S \cup T)) = Cardinality(Bars(f, S)) + Cardinality(Bars(f, T))
<1>1. Bars(f, S \cup T) = Bars(f, S) \cup Bars(f, T)
  BY DEF Bars
<1>2. Bars(f, S) \cap Bars(f, T) = {}
  <2> SUFFICES ASSUME NEW c \in Bars(f, S), c \in Bars(f, T) PROVE FALSE
    OBVIOUS
  <2>1. PICK p \in S : c \in Bar(f, p)
    BY DEF Bars
  <2>2. PICK q \in T : c \in Bar(f, q)
    BY DEF Bars
  <2>3. p = q
    BY SMTT(30), <2>1, <2>2 DEF Bar
  <2> QED BY <2>3
<1>3. /\ IsFiniteSet(Bars(f, S)) /\ Cardinality(Bars(f, S)) \in Nat
      /\ IsFiniteSet(Bars(f, T)) /\ Cardinality(Bars(f, T)) \in Nat
  BY BarsFinite
<1> DEFINE a == Cardinality(Bars(f, S))
           b == Cardinality(Bars(f, T))
           n == Cardinality(Bars(f, S) \cap Bars(f, T))
<1>4. Cardinality(Bars(f, S) \cup Bars(f, T)) = a + b - n
  BY <1>3, FS_Union
<1>5. n = 0 /\ a \in Nat /\ b \in Nat
  BY <1>2, <1>3, FS_EmptySet
<1> HIDE DEF a, b, n
<1>6. a + b - n = a + b
  BY SMTT(30), <1>5
<1> QED BY <1>1, <1>4, <1>6 DEF a, b

(* One index. *)
LEMMA BarsRemove ==
  ASSUME NEW f, NEW S, IsFiniteSet(S), \A p \in S : f[p] \in Nat, NEW x \in S
  PROVE  Cardinality(Bars(f, S)) = f[x] + Cardinality(Bars(f, S \ {x}))
<1>1. S = {x} \cup (S \ {x}) /\ {x} \cap (S \ {x}) = {}
  OBVIOUS
<1>2. IsFiniteSet({x}) /\ IsFiniteSet(S \ {x})
  BY FS_Singleton, FS_RemoveElement
<1>3. Cardinality(Bars(f, {x} \cup (S \ {x}))) =
        Cardinality(Bars(f, {x})) + Cardinality(Bars(f, S \ {x}))
  BY <1>1, <1>2, BarsUnion
<1>4. Bars(f, {x}) = Bar(f, x)
  BY DEF Bars
<1> QED BY <1>1, <1>3, <1>4, BarSize

(* The sum is the size of the chart. *)
LEMMA SumIsBars ==
  ASSUME NEW f, NEW S, IsFiniteSet(S), \A p \in S : f[p] \in Nat
  PROVE  SumFunctionOnSet(f, S) = Cardinality(Bars(f, S))
<1> DEFINE first(s) == CHOOSE x \in s : TRUE
           Step(g) == [s \in SUBSET S |->
                         IF s = {} THEN 0 ELSE f[first(s)] + g[s \ {first(s)}]]
           size == [s \in SUBSET S |-> Cardinality(Bars(f, s))]
           iter == CHOOSE g : g = Step(g)
<1>1. SumFunctionOnSet(f, S) = iter[S]
  BY DEF SumFunctionOnSet, FoldFunctionOnSet, MapThenFoldSet
<1>2. ASSUME NEW s \in SUBSET S PROVE IsFiniteSet(s) /\ \A p \in s : f[p] \in Nat
  BY FS_Subset
<1>3. ASSUME NEW s \in SUBSET S, s # {}
      PROVE  first(s) \in s /\ s \ {first(s)} \in SUBSET S
  BY <1>3
<1> HIDE DEF first
<1>4. ASSUME NEW s \in SUBSET S, s # {}
      PROVE  Cardinality(Bars(f, s)) = f[first(s)] + Cardinality(Bars(f, s \ {first(s)}))
  <2>1. IsFiniteSet(s) /\ (\A p \in s : f[p] \in Nat) /\ first(s) \in s
    BY <1>2, <1>3, <1>4
  <2> QED BY <2>1, BarsRemove
<1>5. Cardinality(Bars(f, {})) = 0
  <2>1. Bars(f, {}) = {}
    BY DEF Bars
  <2> QED BY <2>1, FS_EmptySet
<1>6. size = Step(size)
  <2> SUFFICES ASSUME NEW s \in SUBSET S
               PROVE  size[s] = IF s = {} THEN 0
                                ELSE f[first(s)] + size[s \ {first(s)}]
    OBVIOUS
  <2> QED BY <1>3, <1>4, <1>5
<1>7. iter = Step(iter)
  BY <1>6
<1> HIDE DEF iter
<1>8. \A s \in SUBSET S : iter[s] = size[s]
  <2> DEFINE Bad == {s \in SUBSET S : iter[s] # size[s]}
  <2> SUFFICES ASSUME Bad # {} PROVE FALSE
    OBVIOUS
  <2>1. Bad \subseteq FiniteSubsetsOf(S)
    BY <1>2 DEF FiniteSubsetsOf
  <2>2. PICK s \in Bad : \A t \in Bad : ~(<<t, s>> \in StrictSubsetOrdering(S))
    <3> HIDE DEF Bad
    <3> QED BY <2>1, FS_StrictSubsetOrderingWellFounded, WFMin
  <2>3. iter[s] = IF s = {} THEN 0 ELSE f[first(s)] + iter[s \ {first(s)}]
    BY <1>7
  <2>4. size[s] = IF s = {} THEN 0 ELSE f[first(s)] + size[s \ {first(s)}]
    BY <1>6
  <2>5. s # {} /\ iter[s \ {first(s)}] # size[s \ {first(s)}]
    BY <2>3, <2>4
  <2>6. first(s) \in s /\ s \ {first(s)} \in Bad
    BY <1>3, <2>5
  <2>7. <<s \ {first(s)}, s>> \in StrictSubsetOrdering(S)
    BY <2>6 DEF StrictSubsetOrdering
  <2> QED BY <2>2, <2>6, <2>7
<1> QED BY <1>1, <1>8

-----------------------------------------------------------------------------
(* The facts about sums that other proofs use *)

(* A sum of naturals is a natural. *)
LEMMA SumNat ==
  ASSUME NEW f, NEW S, IsFiniteSet(S), \A p \in S : f[p] \in Nat
  PROVE  SumFunctionOnSet(f, S) \in Nat
BY SumIsBars, BarsFinite

(* A sum splits along any subset of its indices. *)
LEMMA SumSplit ==
  ASSUME NEW f, NEW S, IsFiniteSet(S), \A p \in S : f[p] \in Nat, NEW D \in SUBSET S
  PROVE  SumFunctionOnSet(f, S) = SumFunctionOnSet(f, D) + SumFunctionOnSet(f, S \ D)
<1>1. /\ IsFiniteSet(D) /\ IsFiniteSet(S \ D) /\ D \cap (S \ D) = {} /\ D \cup (S \ D) = S
      /\ \A p \in D : f[p] \in Nat
      /\ \A p \in S \ D : f[p] \in Nat
  BY FS_Subset
<1>2. Cardinality(Bars(f, S)) = Cardinality(Bars(f, D)) + Cardinality(Bars(f, S \ D))
  BY <1>1, BarsUnion
<1> QED BY <1>1, <1>2, SumIsBars

(* Functions that agree on the indices have the same sum. *)
LEMMA SumSame ==
  ASSUME NEW f, NEW g, NEW S, IsFiniteSet(S), \A p \in S : f[p] \in Nat,
         \A p \in S : g[p] = f[p]
  PROVE  SumFunctionOnSet(g, S) = SumFunctionOnSet(f, S)
<1>1. \A p \in S : Bar(g, p) = Bar(f, p)
  BY DEF Bar
<1>2. Bars(g, S) = Bars(f, S)
  BY <1>1 DEF Bars
<1>3. \A p \in S : g[p] \in Nat
  OBVIOUS
<1> QED BY <1>2, <1>3, SumIsBars

(* Smaller summands have the smaller sum. *)
LEMMA SumMonotonic ==
  ASSUME NEW f, NEW g, NEW S, IsFiniteSet(S), \A p \in S : f[p] \in Nat /\ g[p] \in Nat,
         \A p \in S : g[p] <= f[p]
  PROVE  SumFunctionOnSet(g, S) <= SumFunctionOnSet(f, S)
<1>1. \A p \in S : Bar(g, p) \subseteq Bar(f, p)
  BY SMTT(30) DEF Bar
<1>2. Bars(g, S) \in SUBSET Bars(f, S)
  BY <1>1 DEF Bars
<1>3. IsFiniteSet(Bars(f, S))
  BY BarsFinite
<1>4. Cardinality(Bars(g, S)) <= Cardinality(Bars(f, S))
  BY <1>2, <1>3, FS_Subset
<1> QED BY <1>4, SumIsBars

(* The sum of one index, and of zeros. *)
LEMMA SumOne ==
  ASSUME NEW f, NEW p, f[p] \in Nat
  PROVE  SumFunctionOnSet(f, {p}) = f[p]
<1>1. Bars(f, {p}) = Bar(f, p)
  BY DEF Bars
<1>2. IsFiniteSet({p}) /\ \A q \in {p} : f[q] \in Nat
  BY FS_Singleton
<1>3. SumFunctionOnSet(f, {p}) = Cardinality(Bars(f, {p}))
  BY <1>2, SumIsBars
<1> QED BY <1>1, <1>3, BarSize

(* Zeros add up to nothing.                                                *)
LEMMA SumZeros ==
  ASSUME NEW f, NEW S, IsFiniteSet(S), \A p \in S : f[p] = 0
  PROVE  SumFunctionOnSet(f, S) = 0
<1>1. \A p \in S : Bar(f, p) = {} /\ f[p] \in Nat
  BY SMTT(30) DEF Bar
<1>2. Bars(f, S) = {}
  BY <1>1 DEF Bars
<1> QED BY <1>1, <1>2, SumIsBars, FS_EmptySet

(* Changing one summand changes the sum by as much. *)
LEMMA SumChange ==
  ASSUME NEW f, NEW g, NEW S, IsFiniteSet(S), NEW p \in S,
         \A q \in S : f[q] \in Nat /\ g[q] \in Nat,
         \A q \in S : q # p => g[q] = f[q]
  PROVE  SumFunctionOnSet(g, S) = SumFunctionOnSet(f, S) - f[p] + g[p]
<1> DEFINE rest == SumFunctionOnSet(f, S \ {p})
<1>1. IsFiniteSet(S \ {p}) /\ {p} \in SUBSET S /\ \A q \in S \ {p} : f[q] \in Nat
  BY FS_RemoveElement
<1>2. (\A q \in S : f[q] \in Nat) /\ (\A q \in S : g[q] \in Nat)
  OBVIOUS
<1>3. f[p] \in Nat /\ g[p] \in Nat /\ rest \in Nat
  BY <1>1, <1>2, SumNat
<1>4. SumFunctionOnSet(f, S) = f[p] + rest
  <2>1. SumFunctionOnSet(f, S) = SumFunctionOnSet(f, {p}) + rest
    BY <1>1, <1>2, SumSplit
  <2> QED BY <2>1, <1>3, SumOne
<1>5. SumFunctionOnSet(g, S \ {p}) = rest
  BY <1>1, SumSame
<1>6. SumFunctionOnSet(g, S) = g[p] + rest
  <2>1. SumFunctionOnSet(g, S) = SumFunctionOnSet(g, {p}) + SumFunctionOnSet(g, S \ {p})
    BY <1>1, <1>2, SumSplit
  <2> QED BY <2>1, <1>3, <1>5, SumOne
<1> HIDE DEF rest
<1> QED BY SMTT(30), <1>3, <1>4, <1>6

(* A sum of ones counts the indices.                                         *)
LEMMA SumOnes ==
  ASSUME NEW f, NEW S, IsFiniteSet(S), \A p \in S : f[p] = 1
  PROVE  SumFunctionOnSet(f, S) = Cardinality(S)
<1>1. \A p \in S : f[p] \in Nat /\ 1..f[p] = {1} BY SMTT(30)
<1>2. Bars(f, S) = S \X {1}
  <2>1. \A p \in S : Bar(f, p) = {p} \X {1} BY <1>1 DEF Bar
  <2>2. \A c : (\E p \in S : c \in Bar(f, p)) <=> (\E p \in S : c \in {p} \X {1}) BY <2>1
  <2>3. \A c : (\E p \in S : c \in {p} \X {1}) <=> c \in S \X {1} BY SMTT(30)
  <2> QED BY <2>2, <2>3 DEF Bars
<1>3. IsFiniteSet({1}) /\ Cardinality({1}) = 1 BY FS_Singleton
<1>4. Cardinality(S \X {1}) = Cardinality(S) * 1 BY <1>3, FS_Product
<1>5. Cardinality(S) \in Nat BY FS_CardinalityType
<1>6. Cardinality(S) * 1 = Cardinality(S) BY SMTT(30), <1>5
<1> QED BY <1>1, <1>2, <1>4, <1>6, SumIsBars

-----------------------------------------------------------------------------
(* Remainders.                                                               *)
LEMMA ModRange ==
    ASSUME NEW a \in Nat, NEW n \in Nat \ {0}
    PROVE  a % n \in 0..(n - 1) /\ a \div n \in Nat /\ a = n * (a \div n) + (a % n)
BY SMTT(30)

(* A positive multiple of n is at least n.                                 *)
LEMMA MultipleLarge ==
    ASSUME NEW n \in Nat \ {0}, NEW q \in Int, NEW d \in Int, d = n * q, d < n
    PROVE  q <= 0
BY SMTT(30)

(* The remainder is the only number below n that differs by a multiple.      *)
LEMMA ModUnique ==
    ASSUME NEW a \in Nat, NEW n \in Nat \ {0}, NEW q \in Int, NEW r \in 0..(n - 1), a = n * q + r
    PROVE  a % n = r
<1> DEFINE d == a \div n
           m == a % n
<1>0. a % n \in 0..(n - 1) /\ a \div n \in Nat /\ a = n * (a \div n) + (a % n) BY ModRange
<1>1. m \in 0..(n - 1) /\ d \in Nat /\ a = n * d + m BY <1>0
<1> HIDE DEF d, m
<1>2. r - m = n * (d - q) /\ m - r = n * (q - d) BY SMTT(30), <1>1
<1>3. r - m < n /\ m - r < n /\ r - m \in Int /\ m - r \in Int /\ d - q \in Int /\ q - d \in Int BY SMTT(30), <1>1
<1>4. d - q <= 0 BY <1>2, <1>3, MultipleLarge
<1>5. q - d <= 0 BY <1>2, <1>3, MultipleLarge
<1>6. d = q BY SMTT(30), <1>1, <1>4, <1>5
<1>7. n * d = n * q BY <1>6
<1> QED BY SMTT(30), <1>1, <1>7 DEF m

(* The remainder of a number below 2n.                                     *)
LEMMA ModSmall ==
    ASSUME NEW n \in Nat \ {0}, NEW a \in 0..(2 * n - 1)
    PROVE  a % n = IF a < n THEN a ELSE a - n
<1>1. CASE a < n
  <2>1. a \in Nat /\ 0 \in Int /\ a \in 0..(n - 1) /\ a = n * 0 + a BY SMTT(30), <1>1
  <2> QED BY <1>1, <2>1, ModUnique
<1>2. CASE ~(a < n)
  <2>1. a \in Nat /\ 1 \in Int /\ a - n \in 0..(n - 1) /\ a = n * 1 + (a - n) BY SMTT(30), <1>2
  <2> QED BY <1>2, <2>1, ModUnique
<1> QED BY <1>1, <1>2

(* Numbers less than n apart have different remainders.                      *)
LEMMA ModNear ==
    ASSUME NEW n \in Nat \ {0}, NEW a \in Nat, NEW b \in Nat, a < b, b < a + n
    PROVE  a % n # b % n
<1> SUFFICES ASSUME a % n = b % n PROVE FALSE OBVIOUS
<1> DEFINE q == b \div n - a \div n
<1>1. a % n \in 0..(n - 1) /\ a \div n \in Nat /\ a = n * (a \div n) + (a % n) BY ModRange
<1>2. b % n \in 0..(n - 1) /\ b \div n \in Nat /\ b = n * (b \div n) + (b % n) BY ModRange
<1>3. b - a = n * q /\ q \in Int /\ b - a \in Int /\ b - a < n BY SMTT(30), <1>1, <1>2
<1> HIDE DEF q
<1>4. q <= 0 BY <1>3, MultipleLarge
<1>5. n * q <= 0 BY SMTT(30), <1>3, <1>4
<1> QED BY SMTT(30), <1>3, <1>5

(* The remainder of a successor is that of the successor of the remainder. *)
LEMMA ModNext ==
    ASSUME NEW a \in Nat, NEW n \in Nat \ {0}
    PROVE  (a + 1) % n = ((a % n) + 1) % n
<1> DEFINE m == a % n
           d == a \div n
           k == m + 1
<1>1. a % n \in 0..(n - 1) /\ a \div n \in Nat /\ a = n * (a \div n) + (a % n) BY ModRange
<1>2. m \in 0..(n - 1) /\ d \in Nat /\ a = n * d + m BY <1>1
<1> HIDE DEF m, d
<1>3. k \in 0..(2 * n - 1) /\ a + 1 \in Nat BY SMTT(30), <1>2
<1> HIDE DEF k
<1>4. k % n = IF k < n THEN k ELSE k - n BY <1>3, ModSmall
<1>5. CASE k < n
  <2>1. a + 1 = n * d + k /\ k \in 0..(n - 1) /\ d \in Int BY SMTT(30), <1>2, <1>5 DEF k
  <2>2. (a + 1) % n = k BY <1>3, <2>1, ModUnique
  <2> QED BY <1>4, <1>5, <2>2 DEF m, k
<1>6. CASE ~(k < n)
  <2>1. k - n = 0 BY SMTT(30), <1>2, <1>6 DEF k
  <2>2. n * (d + 1) = n * d + n /\ n * d \in Int BY SMTT(30), <1>2
  <2>3. a + 1 = n * (d + 1) + 0 /\ 0 \in 0..(n - 1) /\ d + 1 \in Int
    BY SMTT(30), <1>2, <2>1, <2>2 DEF k
  <2>4. (a + 1) % n = 0 BY <1>3, <2>3, ModUnique
  <2> QED BY <1>4, <1>6, <2>1, <2>4 DEF m, k
<1> QED BY <1>5, <1>6
=============================================================================
