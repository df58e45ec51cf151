---------------------------- MODULE ScoringProofs ---------------------------
(***************************************************************************)
(* What one scoring run says, of any finite frames and any stored rows:    *)
(* sums, order statistics and the robust z-score are whole numbers, every  *)
(* module finds finitely many components, and whatever it says of one is   *)
(* on the scale: score, tier, projected time and confidence.               *)
(***************************************************************************)
EXTENDS Gate, Lift, Shuttle, Tracker, Conveyor, BinMech, Controller, Network, GtpStation,
        DecantStation, Meta, FiniteSetTheorems, WellFoundedInduction, TLAPS

-----------------------------------------------------------------------------
(* Induction, stated of the set for whose members a fact is good *)

LEMMA NatGood ==
    ASSUME NEW Good, 0 \in Good, \A n \in Nat : n \in Good => n + 1 \in Good
    PROVE  Nat \subseteq Good
<1> DEFINE Bad == {n \in Nat : n \notin Good}
<1> SUFFICES ASSUME Bad # {} PROVE FALSE
  OBVIOUS
<1>1. PICK n \in Bad : \A k \in Bad : ~(<<k, n>> \in OpToRel(<, Nat))
  <2>1. Bad \in SUBSET Nat
    OBVIOUS
  <2> HIDE DEF Bad
  <2> QED
    BY <2>1, WFMin, NatLessThanWellFounded, Zenon
<1>2. n \in Nat /\ n \notin Good /\ \A k \in Bad : ~(k < n)
  BY <1>1 DEF OpToRel
<1>3. n # 0 /\ n - 1 \in Nat /\ n - 1 < n /\ n = (n - 1) + 1
  BY <1>2
<1>4. n - 1 \in Good
  BY <1>2, <1>3
<1> QED
  BY <1>2, <1>3, <1>4

(* A set is good when the empty set is, and every set without the member the *)
(* fold takes first being good makes it good.                                *)
Pick(S) == CHOOSE x \in S : TRUE

LEMMA WithoutPick ==
    ASSUME NEW D, IsFiniteSet(D), NEW S \in SUBSET D
    PROVE  /\ IsFiniteSet(S) /\ Cardinality(S) \in Nat
           /\ S = {} <=> Cardinality(S) = 0
           /\ S # {} => /\ Pick(S) \in S
                        /\ S \ {Pick(S)} \in SUBSET D
                        /\ Cardinality(S \ {Pick(S)}) = Cardinality(S) - 1
                        /\ Cardinality(S \ {Pick(S)}) \in Nat
<1>1. IsFiniteSet(S) /\ Cardinality(S) \in Nat
  BY FS_Subset, FS_CardinalityType
<1>2. S = {} <=> Cardinality(S) = 0
  BY <1>1, FS_EmptySet
<1>3. ASSUME S # {}
      PROVE  /\ Pick(S) \in S
             /\ Cardinality(S \ {Pick(S)}) = Cardinality(S) - 1
             /\ Cardinality(S \ {Pick(S)}) \in Nat
  <2>1. Pick(S) \in S
    BY <1>3 DEF Pick
  <2>2. Cardinality(S \ {Pick(S)}) = Cardinality(S) - 1 /\ IsFiniteSet(S \ {Pick(S)})
    BY <1>1, <2>1, FS_RemoveElement
  <2> QED
    BY <2>1, <2>2, FS_CardinalityType
<1> QED
  BY <1>1, <1>2, <1>3

LEMMA SetGood ==
    ASSUME NEW D, IsFiniteSet(D), NEW Good, {} \in Good,
           \A S \in SUBSET D : S # {} /\ S \ {Pick(S)} \in Good => S \in Good
    PROVE  SUBSET D \subseteq Good
<1> DEFINE Done == {n \in Nat : \A S \in SUBSET D : Cardinality(S) = n => S \in Good}
<1>1. 0 \in Done
  <2> SUFFICES ASSUME NEW S \in SUBSET D, Cardinality(S) = 0 PROVE S \in Good
    OBVIOUS
  <2>1. IsFiniteSet(S)
    BY FS_Subset
  <2> QED
    BY <2>1, FS_EmptySet
<1>2. ASSUME NEW n \in Nat, n \in Done PROVE n + 1 \in Done
  <2> SUFFICES ASSUME NEW S \in SUBSET D, Cardinality(S) = n + 1 PROVE S \in Good
    OBVIOUS
  <2>1. S # {} /\ Cardinality(S \ {Pick(S)}) = Cardinality(S) - 1
    BY WithoutPick
  <2>2. Cardinality(S \ {Pick(S)}) = n
    BY <2>1
  <2>3. S \ {Pick(S)} \in Good
    BY <1>2, <2>2
  <2> QED
    BY <2>1, <2>3
<1> HIDE DEF Done
<1>3. Nat \subseteq Done
  BY <1>1, <1>2, NatGood
<1> SUFFICES ASSUME NEW S \in SUBSET D PROVE S \in Good
  OBVIOUS
<1>4. Cardinality(S) \in Nat
  BY FS_Subset, FS_CardinalityType
<1> QED
  BY <1>3, <1>4 DEF Done

-----------------------------------------------------------------------------
(* Sums *)

(* g sums f over the subsets of D, one member after the other. *)
Sums(g, f, D) ==
    \A S \in SUBSET D : g[S] = IF S = {} THEN 0 ELSE f[Pick(S)] + g[S \ {Pick(S)}]

LEMMA SumTable ==
    ASSUME NEW f, NEW D, IsFiniteSet(D)
    PROVE  \E g : Sums(g, f, D) /\ SumFunctionOnSet(f, D) = g[D]
<1> DEFINE UpTo(n) == {S \in SUBSET D : Cardinality(S) <= n}
           Body(g, S) == IF S = {} THEN 0 ELSE f[Pick(S)] + g[S \ {Pick(S)}]
           Done == {n \in Nat : \E g : g = [S \in UpTo(n) |-> Body(g, S)]}
<1>0. ASSUME NEW n \in Nat
      PROVE  /\ \A S \in UpTo(n) : S \in UpTo(n + 1)
             /\ \A S \in UpTo(n + 1) : S # {} => S \ {Pick(S)} \in UpTo(n)
             /\ \A S \in UpTo(n) : S # {} => S \ {Pick(S)} \in UpTo(n)
  <2>1. ASSUME NEW S \in SUBSET D, NEW k \in Nat
        PROVE  /\ Cardinality(S) <= k => Cardinality(S) <= k + 1
               /\ S # {} /\ Cardinality(S) <= k + 1 =>
                    Cardinality(S \ {Pick(S)}) <= k /\ S \ {Pick(S)} \in SUBSET D
    <3>1. Cardinality(S) \in Nat
      BY WithoutPick, Zenon
    <3>2. S # {} => /\ Cardinality(S \ {Pick(S)}) = Cardinality(S) - 1
                    /\ S \ {Pick(S)} \in SUBSET D
      BY WithoutPick, Zenon
    <3> QED
      BY <3>1, <3>2
  <2>2. n + 1 \in Nat
    OBVIOUS
  <2>3. ASSUME NEW S \in UpTo(n) PROVE S \in UpTo(n + 1)
    BY <2>1
  <2>4. ASSUME NEW S \in UpTo(n + 1), S # {} PROVE S \ {Pick(S)} \in UpTo(n)
    BY <2>1, <2>4
  <2>5. ASSUME NEW S \in UpTo(n), S # {} PROVE S \ {Pick(S)} \in UpTo(n)
    BY <2>3, <2>4, <2>5
  <2> HIDE DEF UpTo
  <2> QED
    BY <2>3, <2>4, <2>5, Zenon
<1>1. 0 \in Done
  <2> DEFINE g == [S \in UpTo(0) |-> 0]
  <2>1. ASSUME NEW S \in UpTo(0) PROVE S = {}
    <3>1. Cardinality(S) \in Nat /\ (S = {} <=> Cardinality(S) = 0)
      BY WithoutPick
    <3> QED
      BY <3>1
  <2>2. g = [S \in UpTo(0) |-> Body(g, S)]
    BY <2>1
  <2> QED
    BY <2>2
<1>2. ASSUME NEW n \in Nat, n \in Done PROVE n + 1 \in Done
  <2>1. PICK g : g = [S \in UpTo(n) |-> Body(g, S)]
    BY <1>2
  <2> DEFINE h == [S \in UpTo(n + 1) |-> Body(g, S)]
  <2>2. ASSUME NEW S \in UpTo(n) PROVE h[S] = g[S]
    <3>1. g[S] = Body(g, S)
      BY <2>1, Zenon
    <3>2. S \in UpTo(n + 1)
      BY <1>0
    <3> HIDE DEF UpTo, Body
    <3> QED
      BY <3>1, <3>2
  <2>3. ASSUME NEW S \in UpTo(n + 1) PROVE h[S] = Body(h, S)
    <3>1. S # {} => h[S \ {Pick(S)}] = g[S \ {Pick(S)}]
      BY <1>0, <2>2, Zenon
    <3> HIDE DEF UpTo
    <3> QED
      BY <3>1
  <2>4. h = [S \in UpTo(n + 1) |-> Body(h, S)]
    BY <2>3, Zenon
  <2>5. \E k : k = [S \in UpTo(n + 1) |-> Body(k, S)]
    <3> HIDE DEF h
    <3> QED
      BY <2>4
  <2>6. n + 1 \in Nat
    OBVIOUS
  <2> HIDE DEF UpTo, Body
  <2> QED
    BY <2>5, <2>6
<1>3. Cardinality(D) \in Nat /\ Cardinality(D) \in Done
  <2> HIDE DEF Done
  <2> QED
    BY <1>1, <1>2, NatGood, FS_CardinalityType
<1>4. UpTo(Cardinality(D)) = SUBSET D
  BY FS_Subset
<1>5. \E g : g = [S \in SUBSET D |-> Body(g, S)]
  BY <1>3, <1>4
<1> DEFINE g == CHOOSE iter : iter = [S \in SUBSET D |-> Body(iter, S)]
<1>6. g = [S \in SUBSET D |-> Body(g, S)]
  BY <1>5
<1>7. SumFunctionOnSet(f, D) = g[D]
  BY DEF SumFunctionOnSet, FoldFunctionOnSet, MapThenFoldSet, Pick
<1> HIDE DEF g
<1>8. Sums(g, f, D)
  BY <1>6 DEF Sums
<1> QED
  BY <1>7, <1>8

LEMMA SumInt ==
    ASSUME NEW f, IsFiniteSet(DOMAIN f), \A i \in DOMAIN f : f[i] \in Int
    PROVE  SumFunction(f) \in Int
<1> DEFINE D == DOMAIN f
<1>1. PICK g : Sums(g, f, D) /\ SumFunctionOnSet(f, D) = g[D]
  BY SumTable
<1> DEFINE Good == {S \in SUBSET D : g[S] \in Int}
<1>2. {} \in Good
  <2>1. g[{}] = 0
    BY <1>1 DEF Sums
  <2> QED
    BY <2>1
<1>3. ASSUME NEW S \in SUBSET D, S # {}, S \ {Pick(S)} \in Good PROVE S \in Good
  <2>1. Pick(S) \in D
    BY <1>3, WithoutPick, Zenon
  <2>2. g[S] = f[Pick(S)] + g[S \ {Pick(S)}]
    BY <1>1, <1>3 DEF Sums
  <2> QED
    BY <1>3, <2>1, <2>2
<1>4. D \in Good
  <2> HIDE DEF Good
  <2> QED
    BY <1>2, <1>3, SetGood
<1> QED
  BY <1>1, <1>4 DEF SumFunction

LEMMA SumNat ==
    ASSUME NEW f, IsFiniteSet(DOMAIN f), \A i \in DOMAIN f : f[i] \in Nat
    PROVE  SumFunction(f) \in Nat
<1> DEFINE D == DOMAIN f
<1>1. PICK g : Sums(g, f, D) /\ SumFunctionOnSet(f, D) = g[D]
  BY SumTable
<1> DEFINE Good == {S \in SUBSET D : g[S] \in Nat}
<1>2. {} \in Good
  <2>1. g[{}] = 0
    BY <1>1 DEF Sums
  <2> QED
    BY <2>1
<1>3. ASSUME NEW S \in SUBSET D, S # {}, S \ {Pick(S)} \in Good PROVE S \in Good
  <2>1. Pick(S) \in D
    BY <1>3, WithoutPick, Zenon
  <2>2. g[S] = f[Pick(S)] + g[S \ {Pick(S)}]
    BY <1>1, <1>3 DEF Sums
  <2> QED
    BY <1>3, <2>1, <2>2
<1>4. D \in Good
  <2> HIDE DEF Good
  <2> QED
    BY <1>2, <1>3, SetGood
<1> QED
  BY <1>1, <1>4 DEF SumFunction

(* The sum of the squares is at least the square of the sum over how many.  *)
LEMMA SquareStep ==
    ASSUME NEW k \in Nat, NEW q \in Nat, NEW s \in Int, NEW x \in Int, s * s <= k * q
    PROVE  (s + x) * (s + x) <= (k + 1) * (q + x * x)
<1>1. CASE k = 0
  <2>1. s * s <= 0 /\ s * s >= 0
    BY <1>1
  <2>2. s = 0
    BY <2>1
  <2> QED
    BY <1>1, <2>2
<1>2. CASE k # 0
  <2> DEFINE d == q + k * (x * x) - 2 * (s * x)
  <2>1. d \in Int /\ (s - k * x) * (s - k * x) \in Nat
    BY SMT
  <2>2. k * d = k * q + (k * x) * (k * x) - 2 * (s * (k * x))
    BY SMT
  <2>3. (s - k * x) * (s - k * x) = s * s + (k * x) * (k * x) - 2 * (s * (k * x))
    BY SMT
  <2>4. k * d >= 0
    BY <2>1, <2>2, <2>3
  <2>5. d >= 0
    <3> HIDE DEF d
    <3> QED
      BY <1>2, <2>1, <2>4
  <2>6. (k + 1) * (q + x * x) - (s + x) * (s + x) = (k * q - s * s) + d
    BY SMT
  <2> HIDE DEF d
  <2> QED
    BY <2>1, <2>5, <2>6
<1> QED
  BY <1>1, <1>2

LEMMA SquaresOfSums ==
    ASSUME NEW f, IsFiniteSet(DOMAIN f), \A i \in DOMAIN f : f[i] \in Int
    PROVE  LET squares == SumFunction([i \in DOMAIN f |-> f[i] * f[i]])
           IN  /\ squares \in Nat
               /\ SumFunction(f) \in Int
               /\ SumFunction(f) * SumFunction(f) <= Cardinality(DOMAIN f) * squares
<1> DEFINE D == DOMAIN f
           e == [i \in D |-> f[i] * f[i]]
<1>1. PICK g : Sums(g, f, D) /\ SumFunctionOnSet(f, D) = g[D]
  BY SumTable
<1>2. PICK h : Sums(h, e, D) /\ SumFunctionOnSet(e, D) = h[D]
  BY SumTable
<1> DEFINE Good == {S \in SUBSET D : /\ g[S] \in Int /\ h[S] \in Nat
                                     /\ g[S] * g[S] <= Cardinality(S) * h[S]}
<1>3. {} \in Good
  <2>1. g[{}] = 0 /\ h[{}] = 0
    BY <1>1, <1>2 DEF Sums
  <2>2. Cardinality({}) = 0
    BY FS_EmptySet
  <2> QED
    BY <2>1, <2>2
<1>4. ASSUME NEW S \in SUBSET D, S # {}, S \ {Pick(S)} \in Good PROVE S \in Good
  <2> DEFINE x == Pick(S)
             T == S \ {Pick(S)}
  <2>1. /\ x \in D /\ Cardinality(S) = Cardinality(T) + 1 /\ Cardinality(T) \in Nat
    <3>1. x \in S /\ Cardinality(T) = Cardinality(S) - 1 /\ Cardinality(T) \in Nat
      BY <1>4, WithoutPick, Zenon
    <3>2. Cardinality(S) \in Nat
      BY WithoutPick, Zenon
    <3> QED
      BY <3>1, <3>2
  <2>2. g[S] = f[x] + g[T] /\ h[S] = e[x] + h[T]
    BY <1>1, <1>2, <1>4 DEF Sums
  <2>3. f[x] \in Int /\ e[x] = f[x] * f[x]
    BY <2>1
  <2>4. g[T] \in Int /\ h[T] \in Nat /\ g[T] * g[T] <= Cardinality(T) * h[T]
    BY <1>4
  <2>5. (g[T] + f[x]) * (g[T] + f[x]) <= (Cardinality(T) + 1) * (h[T] + f[x] * f[x])
    <3> HIDE DEF T, x
    <3> QED
      BY <2>1, <2>3, <2>4, SquareStep
  <2>6. g[S] = g[T] + f[x] /\ h[S] = h[T] + f[x] * f[x] /\ f[x] * f[x] \in Nat
    <3> HIDE DEF T, x, e
    <3> QED
      BY <2>2, <2>3, <2>4
  <2>7. g[S] * g[S] <= Cardinality(S) * h[S]
    <3> HIDE DEF T, x, e
    <3> QED
      BY <2>1, <2>5, <2>6, Zenon
  <2>8. g[S] \in Int /\ h[S] \in Nat
    <3> HIDE DEF T, x, e
    <3> QED
      BY <2>3, <2>4, <2>6
  <2> QED
    BY <2>7, <2>8
<1>5. D \in Good
  <2> HIDE DEF Good
  <2> QED
    BY <1>3, <1>4, SetGood
<1>6. SumFunction(f) = g[D] /\ SumFunction(e) = h[D]
  BY <1>1, <1>2 DEF SumFunction
<1> QED
  BY <1>5, <1>6

-----------------------------------------------------------------------------
(* Least and greatest members *)

LEMMA MinMax ==
    ASSUME NEW D, IsFiniteSet(D), D \subseteq Int, D # {}
    PROVE  /\ Min(D) \in D /\ \A x \in D : Min(D) <= x
           /\ Max(D) \in D /\ \A x \in D : x <= Max(D)
<1> DEFINE Good == {S \in SUBSET D : S # {} => /\ \E m \in S : \A x \in S : m <= x
                                               /\ \E m \in S : \A x \in S : m >= x}
<1>1. {} \in Good
  OBVIOUS
<1>2. ASSUME NEW S \in SUBSET D, S # {}, S \ {Pick(S)} \in Good PROVE S \in Good
  <2> DEFINE p == Pick(S)
  <2>1. p \in S
    BY <1>2 DEF Pick
  <2>2. CASE S \ {p} = {}
    <3>1. \A x \in S : p <= x /\ p >= x
      BY <2>1, <2>2
    <3> QED
      BY <2>1, <3>1
  <2>3. CASE S \ {p} # {}
    <3>1. PICK l \in S \ {p} : \A x \in S \ {p} : l <= x
      BY <1>2, <2>3
    <3>2. PICK h \in S \ {p} : \A x \in S \ {p} : h >= x
      BY <1>2, <2>3
    <3> HIDE DEF p
    <3>3. \E m \in S : \A x \in S : m <= x
      <4>1. CASE p <= l
        BY <2>1, <3>1, <4>1
      <4>2. CASE l <= p
        BY <2>1, <3>1, <4>2
      <4>3. p <= l \/ l <= p
        BY <2>1
      <4> QED
        BY <4>1, <4>2, <4>3
    <3>4. \E m \in S : \A x \in S : m >= x
      <4>1. CASE p <= h
        BY <2>1, <3>2, <4>1
      <4>2. CASE h <= p
        BY <2>1, <3>2, <4>2
      <4>3. p <= h \/ h <= p
        BY <2>1
      <4> QED
        BY <4>1, <4>2, <4>3
    <3> QED
      BY <3>3, <3>4
  <2> QED
    BY <2>2, <2>3
<1>3. D \in Good
  <2> HIDE DEF Good
  <2> QED
    BY <1>1, <1>2, SetGood
<1>4. (\E m \in D : \A x \in D : m <= x) /\ (\E m \in D : \A x \in D : m >= x)
  BY <1>3
<1>5. Min(D) \in D /\ \A x \in D : Min(D) <= x
  BY <1>4 DEF Min
<1>6. Max(D) \in D /\ \A x \in D : Max(D) >= x
  BY <1>4 DEF Max
<1> QED
  BY <1>5, <1>6

(* The values of a function on a finite set are finitely many. *)
LEMMA RangeFinite ==
    ASSUME NEW f, IsFiniteSet(DOMAIN f)
    PROVE  /\ IsFiniteSet({f[i] : i \in DOMAIN f})
           /\ Range(f) = {f[i] : i \in DOMAIN f}
           /\ Cardinality(Range(f)) <= Cardinality(DOMAIN f)
           /\ Cardinality(Range(f)) \in Nat
<1> DEFINE R == {f[i] : i \in DOMAIN f}
           g == [i \in DOMAIN f |-> f[i]]
<1>1. g \in Surjection(DOMAIN f, R)
  BY DEF Surjection
<1>2. IsFiniteSet(R) /\ Cardinality(R) <= Cardinality(DOMAIN f)
  <2> HIDE DEF R, g
  <2> QED
    BY <1>1, FS_Surjection
<1>3. Range(f) = R
  BY DEF Range
<1> QED
  BY <1>2, <1>3, FS_CardinalityType

-----------------------------------------------------------------------------
(* Order statistics *)

(* A function that has whole numbers for finitely many places. *)
Whole(vals) == IsFiniteSet(DOMAIN vals) /\ \A i \in DOMAIN vals : vals[i] \in Int

LEMMA NthIsThere ==
    ASSUME NEW vals, Whole(vals), NEW k \in 1..Cardinality(DOMAIN vals)
    PROVE  Nth(vals, k) \in {vals[i] : i \in DOMAIN vals}
<1> DEFINE R == {vals[i] : i \in DOMAIN vals}
           below(v) == {i \in DOMAIN vals : vals[i] <= v}
           S == {v \in R : k <= Cardinality(below(v))}
<1>1. IsFiniteSet(R) /\ Range(vals) = R
  BY RangeFinite DEF Whole
<1>2. R # {}
  <2>1. DOMAIN vals # {}
    BY FS_EmptySet
  <2> QED
    BY <2>1
<1>3. R \subseteq Int
  BY DEF Whole
<1>4. Max(R) \in R /\ \A x \in R : x <= Max(R)
  <2> HIDE DEF R
  <2> QED
    BY <1>1, <1>2, <1>3, MinMax
<1>5. below(Max(R)) = DOMAIN vals
  BY <1>4
<1>6. Max(R) \in S
  <2>1. k <= Cardinality(below(Max(R)))
    <3>1. Cardinality(DOMAIN vals) \in Nat
      BY FS_CardinalityType DEF Whole
    <3> QED
      BY <1>5, <3>1
  <2> HIDE DEF R, below
  <2> QED
    BY <1>4, <2>1
<1>7. IsFiniteSet(S) /\ S \subseteq R
  BY <1>1, FS_Subset
<1>8. Min(S) \in S
  <2> HIDE DEF S, R
  <2> QED
    BY <1>3, <1>6, <1>7, MinMax
<1>9. Nth(vals, k) = Min(S)
  BY <1>1 DEF Nth
<1> QED
  BY <1>7, <1>8, <1>9

LEMMA MedianInt ==
    ASSUME NEW vals, Whole(vals), DOMAIN vals # {}
    PROVE  Median(vals) \in Int
<1> DEFINE n == Cardinality(DOMAIN vals)
<1>1. n \in Nat /\ n # 0
  BY FS_CardinalityType, FS_EmptySet DEF Whole
<1>2. (n + 1) \div 2 \in 1..n /\ n \div 2 + 1 \in 1..n
  <2> HIDE DEF n
  <2> QED
    BY <1>1
<1>3. Nth(vals, (n + 1) \div 2) \in Int /\ Nth(vals, n \div 2 + 1) \in Int
  <2>1. \A k \in 1..n : Nth(vals, k) \in Int
    BY NthIsThere DEF Whole
  <2> HIDE DEF n
  <2> QED
    BY <1>2, <2>1
<1> QED
  BY <1>3 DEF Median

LEMMA MeanNat ==
    ASSUME NEW vals, IsFiniteSet(DOMAIN vals),
           \A i \in DOMAIN vals : vals[i] \in Nat
    PROVE  Mean(vals) \in Nat
<1>1. CASE DOMAIN vals = {}
  BY <1>1 DEF Mean
<1>2. CASE DOMAIN vals # {}
  <2>1. Cardinality(DOMAIN vals) \in Nat \ {0}
    BY <1>2, FS_CardinalityType, FS_EmptySet
  <2>2. SumFunction(vals) \in Nat
    BY SumNat
  <2>3. \A s \in Nat, c \in Nat \ {0} : (s + c \div 2) \div c \in Nat
    OBVIOUS
  <2> QED
    BY <1>2, <2>1, <2>2, <2>3 DEF Mean, Rounded
<1> QED
  BY <1>1, <1>2

(* A part of a whole, in units. *)
LEMMA RoundedPart ==
    ASSUME NEW x \in Nat, NEW unit \in Nat \ {0}
    PROVE  Rounded(x, unit) \in Nat
BY DEF Rounded

LEMMA RepeatsNat ==
    ASSUME NEW vals, IsFiniteSet(DOMAIN vals)
    PROVE  Repeats(vals) \in Nat
<1> DEFINE same == [i \in DOMAIN vals |-> Cardinality({j \in DOMAIN vals : vals[j] = vals[i]})]
           S    == {0} \cup {same[i] : i \in DOMAIN same}
<1>1. \A i \in DOMAIN vals : same[i] \in Nat
  BY FS_Subset, FS_CardinalityType
<1>2. IsFiniteSet(S) /\ S \subseteq Nat
  <2>1. IsFiniteSet({same[i] : i \in DOMAIN same})
    <3> HIDE DEF same
    <3>1. DOMAIN same = DOMAIN vals
      BY DEF same
    <3> QED
      BY <3>1, RangeFinite
  <2>2. S \subseteq Nat
    <3> HIDE DEF same
    <3>1. DOMAIN same = DOMAIN vals
      BY DEF same
    <3> QED
      BY <1>1, <3>1
  <2>3. IsFiniteSet({0})
    BY FS_Singleton
  <2> HIDE DEF same
  <2>4. IsFiniteSet(S)
    BY <2>1, <2>3, FS_Union
  <2> QED
    BY <2>2, <2>4
<1>3. Max(S) \in S
  <2> HIDE DEF S
  <2>1. S # {} /\ S \subseteq Int
    BY <1>2 DEF S
  <2> QED
    BY <1>2, <2>1, MinMax
<1>4. Repeats(vals) = Max(S)
  BY DEF Repeats
<1> QED
  BY <1>2, <1>3, <1>4

-----------------------------------------------------------------------------
(* The robust z-score *)

LEMMA SquareRoots == \A x \in Nat : \E r \in Nat : r * r <= x /\ x < (r + 1) * (r + 1)
<1> DEFINE Good == {x \in Nat : \E r \in Nat : r * r <= x /\ x < (r + 1) * (r + 1)}
<1>1. 0 \in Good
  <2>1. 0 \in Nat /\ 0 * 0 <= 0 /\ 0 < (0 + 1) * (0 + 1)
    OBVIOUS
  <2> QED
    BY <2>1
<1>2. ASSUME NEW x \in Nat, x \in Good PROVE x + 1 \in Good
  <2>1. PICK r \in Nat : r * r <= x /\ x < (r + 1) * (r + 1)
    BY <1>2
  <2>2. CASE x + 1 < (r + 1) * (r + 1)
    <3>1. r * r <= x + 1
      BY <2>1
    <3> QED
      BY <2>2, <3>1
  <2>3. CASE ~(x + 1 < (r + 1) * (r + 1))
    <3>1. (r + 1) * (r + 1) <= x + 1
      BY <2>1, <2>3
    <3>2. (r + 1 + 1) * (r + 1 + 1) = (r + 1) * (r + 1) + 2 * r + 3
      OBVIOUS
    <3>3. x + 1 < (r + 1 + 1) * (r + 1 + 1)
      BY <2>1, <3>2
    <3>4. \E k \in Nat : k * k <= x + 1 /\ x + 1 < (k + 1) * (k + 1)
      <4>1. r + 1 \in Nat
        OBVIOUS
      <4> QED
        BY <3>1, <3>3, <4>1, Zenon
    <3> QED
      BY <3>4
  <2> QED
    BY <2>2, <2>3
<1>3. Nat \subseteq Good
  <2> HIDE DEF Good
  <2> QED
    BY <1>1, <1>2, NatGood
<1> QED
  BY <1>3

LEMMA SquaresGrow ==
    ASSUME NEW a \in Nat, NEW b \in Nat
    PROVE  /\ a <= b => a * a <= b * b
           /\ a * a < b * b => a < b
<1>1. ASSUME NEW x \in Nat, NEW y \in Nat, x <= y PROVE x * x <= y * y
  <2>1. PICK d \in Nat : y = x + d
    <3>1. y - x \in Nat /\ y = x + (y - x)
      BY <1>1
    <3> QED
      BY <3>1
  <2>2. y * y = x * x + (2 * (x * d) + d * d)
    BY <2>1
  <2>3. x * d \in Nat /\ d * d \in Nat
    OBVIOUS
  <2> QED
    BY <2>2, <2>3
<1>2. a <= b => a * a <= b * b
  BY <1>1
<1>3. b <= a => b * b <= a * a
  BY <1>1
<1>4. a * a \in Nat /\ b * b \in Nat
  OBVIOUS
<1> QED
  BY <1>2, <1>3, <1>4

LEMMA SqrtNat ==
    ASSUME NEW x \in Nat
    PROVE  Sqrt(x) \in Nat
<1> DEFINE root(r, step) == r * r <= x /\ x < (r + step) * (r + step)
           top  == x \div 1024
           k    == CHOOSE n \in 0..top : root(32 * n, 32)
           most == 32 * k
<1>1. PICK r \in Nat : r * r <= x /\ x < (r + 1) * (r + 1)
  BY SquareRoots
<1>2. top \in Nat /\ \A z \in Nat : 1024 * z <= x => z <= top
  BY SMT
<1>3. k \in 0..top /\ root(32 * k, 32)
  <2> DEFINE n == r \div 32
  <2>1. n \in Nat /\ 32 * n <= r /\ r + 1 <= 32 * n + 32
    OBVIOUS
  <2> HIDE DEF n
  <2>2. 32 * n \in Nat /\ r + 1 \in Nat /\ 32 * n + 32 \in Nat
    BY <2>1
  <2>3. (32 * n) * (32 * n) <= r * r
    BY <2>1, <2>2, SquaresGrow
  <2>4. (r + 1) * (r + 1) <= (32 * n + 32) * (32 * n + 32)
    BY <2>1, <2>2, SquaresGrow
  <2> DEFINE a == (32 * n) * (32 * n)
             c == (32 * n + 32) * (32 * n + 32)
             d == r * r
             e == (r + 1) * (r + 1)
  <2>5. a \in Nat /\ c \in Nat /\ d \in Nat /\ e \in Nat
    BY <2>1
  <2>6. a <= d /\ d <= x /\ x < e /\ e <= c
    BY <1>1, <2>3, <2>4
  <2>7. a <= x /\ x < c
    <3> HIDE DEF a, c, d, e
    <3> QED
      BY <2>5, <2>6
  <2>8. root(32 * n, 32)
    BY <2>7
  <2>9. n \in 0..top
    <3>1. a = 1024 * (n * n) /\ n * n \in Nat /\ n <= n * n
      BY <2>1, SMT
    <3>2. 1024 * n <= x
      <4> DEFINE m == n * n
      <4>1. a = 1024 * m /\ m \in Nat /\ n <= m
        BY <3>1
      <4> HIDE DEF a, m
      <4> QED
        BY <2>1, <2>7, <4>1
    <3> HIDE DEF top
    <3> QED
      BY <1>2, <2>1, <3>2
  <2> HIDE DEF root, top, n
  <2> QED
    BY <2>8, <2>9
<1>4. most \in Nat
  <2> HIDE DEF k, top, root
  <2> QED
    BY <1>2, <1>3
<1>5. \E n \in 0..31 : root(most + n, 1)
  <2> HIDE DEF k
  <2>1. most * most <= x /\ x < (most + 32) * (most + 32)
    BY <1>3
  <2> HIDE DEF most
  <2>2. most < r + 1
    <3>1. most * most < (r + 1) * (r + 1)
      <4> DEFINE a == most * most
                 e == (r + 1) * (r + 1)
      <4>1. a \in Nat /\ e \in Nat /\ a <= x /\ x < e
        BY <1>1, <1>4, <2>1
      <4> HIDE DEF a, e
      <4>2. a < e
        BY <4>1
      <4> QED
        BY <4>2 DEF a, e
    <3> QED
      BY <1>4, <3>1, SquaresGrow
  <2>3. r < most + 32
    <3>1. r * r < (most + 32) * (most + 32)
      <4> DEFINE d == r * r
                 c == (most + 32) * (most + 32)
      <4>1. d \in Nat /\ c \in Nat /\ d <= x /\ x < c
        BY <1>1, <1>4, <2>1
      <4> HIDE DEF c, d
      <4>2. d < c
        BY <4>1
      <4> QED
        BY <4>2 DEF c, d
    <3> QED
      BY <1>4, <3>1, SquaresGrow
  <2>4. r - most \in 0..31 /\ most + (r - most) = r
    BY <1>4, <2>2, <2>3
  <2>5. root(most + (r - most), 1)
    BY <1>1, <2>4
  <2> HIDE DEF root
  <2> QED
    BY <2>4, <2>5
<1> DEFINE rest == CHOOSE n \in 0..31 : root(most + n, 1)
<1>6. Sqrt(x) = most + rest
  BY DEF Sqrt
<1>7. rest \in 0..31
  <2> HIDE DEF root, most
  <2> QED
    BY <1>5
<1> HIDE DEF most, rest, k, top, root
<1> QED
  BY <1>4, <1>6, <1>7

LEMMA RobustZInt ==
    ASSUME NEW v \in Int, NEW vals, Whole(vals)
    PROVE  RobustZ(v, vals) \in Int
<1> DEFINE n   == Cardinality(DOMAIN vals)
           med == Median(vals)
           off == [i \in DOMAIN vals |-> Abs(vals[i] - med)]
           mad == Median(off)
           avg == SumFunction(vals) \div n
           away == [i \in DOMAIN vals |-> Abs(vals[i] - avg)]
           far == Max({Abs(vals[i] - avg) : i \in DOMAIN vals})
           dev(x) == ((x - avg) * 1000) \div far
           sq  == [i \in DOMAIN vals |-> dev(vals[i]) * dev(vals[i])]
           std == Sqrt(SumFunction(sq) \div n)
<1>1. RobustZ(v, vals) = IF n < 2 THEN 0
                         ELSE IF mad > 0 THEN ((v - med) * 6745) \div (10 * mad)
                         ELSE IF far <= 0 \/ std = 0 THEN 0
                         ELSE (dev(v) * 1000) \div std
  BY DEF RobustZ
<1>2. n \in Nat
  BY FS_CardinalityType DEF Whole
<1> SUFFICES ASSUME n >= 2 PROVE RobustZ(v, vals) \in Int
  BY <1>1, <1>2
<1>3. DOMAIN vals # {}
  BY <1>2, FS_EmptySet
<1>4. med \in Int
  BY <1>3, MedianInt
<1>5. mad \in Int
  <2>1. Whole(off)
    BY <1>4 DEF Whole, Abs
  <2>2. DOMAIN off # {}
    BY <1>3
  <2> HIDE DEF off
  <2> QED
    BY <2>1, <2>2, MedianInt
<1>6. avg \in Int
  <2>1. SumFunction(vals) \in Int
    BY SumInt DEF Whole
  <2> HIDE DEF n
  <2> QED
    BY <1>2, <2>1
<1>7. far \in Int /\ \A i \in DOMAIN vals : Abs(vals[i] - avg) <= far
  <2> DEFINE A == {away[i] : i \in DOMAIN away}
  <2>1. IsFiniteSet(A)
    <3>1. IsFiniteSet(DOMAIN away)
      BY DEF Whole
    <3> HIDE DEF away
    <3> QED
      BY <3>1, RangeFinite
  <2>2. A = {Abs(vals[i] - avg) : i \in DOMAIN vals}
    OBVIOUS
  <2>3. A \subseteq Int /\ A # {}
    <3> HIDE DEF avg
    <3> QED
      BY <1>3, <1>6 DEF Whole, Abs
  <2>4. Max(A) \in A /\ \A x \in A : x <= Max(A)
    <3> HIDE DEF A
    <3> QED
      BY <2>1, <2>3, MinMax
  <2>5. far = Max(A)
    BY <2>2
  <2> HIDE DEF far
  <2> QED
    BY <2>3, <2>4, <2>5
<1>8. ASSUME far > 0 PROVE std \in Nat
  <2>1. ASSUME NEW i \in DOMAIN vals PROVE sq[i] \in Nat
    <3>1. dev(vals[i]) \in Int
      <4>1. vals[i] \in Int
        BY DEF Whole
      <4> HIDE DEF far, avg
      <4> QED
        BY <1>6, <1>7, <1>8, <4>1
    <3>2. \A d \in Int : d * d \in Nat
      BY SMT
    <3> HIDE DEF dev
    <3> QED
      BY <3>1, <3>2
  <2>2. SumFunction(sq) \in Nat
    <3>1. DOMAIN sq = DOMAIN vals
      OBVIOUS
    <3> HIDE DEF sq
    <3> QED
      BY <2>1, <3>1, SumNat DEF Whole
  <2>3. SumFunction(sq) \div n \in Nat
    <3> HIDE DEF n, sq
    <3> QED
      BY <1>2, <2>2
  <2> HIDE DEF sq, n
  <2> QED
    BY <2>3, SqrtNat
<1> HIDE DEF n, med, off, mad, avg, far, std
<1> QED
  BY <1>1, <1>2, <1>4, <1>5, <1>6, <1>7, <1>8

-----------------------------------------------------------------------------
(* Trends *)

LEMMA LenIs ==
    ASSUME NEW n \in Nat, NEW S, NEW f \in [1..n -> S]
    PROVE  f \in Seq(S) /\ Len(f) = n
OBVIOUS

(* Numbers for the places 1 to n. *)
LEMMA SlopeOK ==
    ASSUME NEW n \in Nat \ {0}, NEW xs \in [1..n -> Int], NEW ys \in [1..n -> Int]
    PROVE  Slope(xs, ys)[1] \in Int /\ Slope(xs, ys)[2] \in Nat
<1> DEFINE x0 == [i \in 1..n |-> xs[i] - xs[n]]
           xy == [i \in 1..n |-> x0[i] * ys[i]]
           xx == [i \in 1..n |-> x0[i] * x0[i]]
<1>1. Len(xs) = n
  BY LenIs
<1>2. Slope(xs, ys) = << n * SumFunction(xy) - SumFunction(x0) * SumFunction(ys),
                         n * SumFunction(xx) - SumFunction(x0) * SumFunction(x0) >>
  BY <1>1, Zenon DEF Slope
<1>3. IsFiniteSet(1..n) /\ Cardinality(1..n) = n
  BY FS_Interval
<1>4. DOMAIN x0 = 1..n /\ \A i \in 1..n : x0[i] \in Int
  OBVIOUS
<1>5. SumFunction(xy) \in Int
  <2>1. DOMAIN xy = 1..n /\ \A i \in 1..n : xy[i] \in Int
    <3> HIDE DEF x0
    <3> QED
      BY <1>4
  <2> HIDE DEF xy
  <2> QED
    BY <1>3, <2>1, SumInt
<1>6. SumFunction(ys) \in Int
  BY <1>3, SumInt
<1>7. /\ SumFunction(xx) \in Nat
      /\ SumFunction(x0) \in Int
      /\ SumFunction(x0) * SumFunction(x0) <= n * SumFunction(xx)
  <2> HIDE DEF x0
  <2>1. xx = [i \in DOMAIN x0 |-> x0[i] * x0[i]]
    BY <1>4
  <2> HIDE DEF xx
  <2> QED
    BY <1>3, <1>4, <2>1, SquaresOfSums
<1> HIDE DEF x0, xy, xx
<1>8. n * SumFunction(xy) - SumFunction(x0) * SumFunction(ys) \in Int
  BY <1>5, <1>6, <1>7
<1>9. n * SumFunction(xx) - SumFunction(x0) * SumFunction(x0) \in Nat
  BY <1>7
<1> QED
  BY <1>2, <1>8, <1>9

(* What remains: a number of hours, or none. *)
Hours == {None} \cup 0..Year

LEMMA Limits == Year \in Nat /\ Full \in Nat
BY DEF Year, Full

LEMMA InHours ==
    ASSUME NEW x \in Nat
    PROVE  AtMost(x, Year) \in Hours /\ 0 \in Hours /\ None \in Hours
<1> HIDE DEF Year
<1> QED
  BY Limits DEF AtMost, Hours

LEMMA CrossingOK ==
    ASSUME NEW score \in 0..Full, NEW slope, slope[1] \in Int, slope[2] \in Nat
    PROVE  Crossing(score, slope) \in Hours
<1>1. CASE score <= Critical
  BY <1>1, InHours DEF Crossing
<1>2. CASE ~(score <= Critical) /\ 100 * slope[1] < -slope[2]
  <2>1. -slope[1] \in Nat \ {0}
    BY <1>2
  <2>2. score - Critical \in Nat
    BY <1>2, Limits DEF Critical
  <2>3. (score - Critical) * slope[2] \in Nat
    BY <2>2
  <2>4. ((score - Critical) * slope[2]) \div (-slope[1]) \in Nat
    BY <2>1, <2>3
  <2> QED
    BY <1>2, <2>4, InHours, Zenon DEF Crossing
<1>3. CASE ~(score <= Critical) /\ ~(100 * slope[1] < -slope[2])
  BY <1>3, InHours DEF Crossing
<1> QED
  BY <1>1, <1>2, <1>3

(* The rows of a component: their ages in hours, their scores in hundredths. *)
RowsOK(hist) ==
    /\ Len(hist) \in Nat
    /\ DOMAIN hist = 1..Len(hist) /\ hist = [i \in DOMAIN hist |-> hist[i]]
    /\ \A i \in DOMAIN hist : hist[i].age \in Nat /\ hist[i].score \in 0..Full

TrendOK(trend) == trend.used \in BOOLEAN /\ trend.ttm \in Hours

LEMMA SomeRows ==
    ASSUME NEW hist, RowsOK(hist), hist # <<>>
    PROVE  Len(hist) \in Nat \ {0}
<1> SUFFICES ASSUME Len(hist) = 0 PROVE FALSE
  BY DEF RowsOK
<1>1. DOMAIN hist = {}
  BY DEF RowsOK
<1>2. hist = [i \in {} |-> hist[i]]
  BY <1>1 DEF RowsOK
<1>3. [i \in {} |-> hist[i]] = <<>>
  OBVIOUS
<1> QED
  BY <1>2, <1>3

LEMMA TimesScores ==
    ASSUME NEW hist, RowsOK(hist)
    PROVE  /\ Times(hist) \in [1..Len(hist) -> Int]
           /\ Scores(hist) \in [1..Len(hist) -> Int]
BY DEF Times, Scores, RowsOK

LEMMA TrendIsOK ==
    ASSUME NEW hist, RowsOK(hist), NEW score \in 0..Full
    PROVE  TrendOK(Trend(hist, score)) /\ TrendOK(FittedTrend(hist, score))
<1> DEFINE slope == Slope(Times(hist), Scores(hist))
           trend == Trend(hist, score)
<1>1. TrendOK(trend)
  <2>1. CASE Len(hist) < MinRunsForTrend
    BY <2>1, InHours DEF Trend, TrendOK
  <2>2. CASE ~(Len(hist) < MinRunsForTrend)
    <3>1. Len(hist) \in Nat \ {0}
      BY <2>2, HealthAssumption DEF RowsOK
    <3>2. slope[1] \in Int /\ slope[2] \in Nat
      BY <3>1, TimesScores, SlopeOK
    <3>3. Crossing(score, slope) \in Hours
      <4> HIDE DEF slope
      <4> QED
        BY <3>2, CrossingOK
    <3>4. trend = [used |-> TRUE, ttm |-> IF slope[2] # 0 THEN Crossing(score, slope)
                                          ELSE IF score <= Critical THEN 0 ELSE None]
      BY <2>2 DEF Trend
    <3> HIDE DEF slope, trend
    <3> QED
      BY <3>3, <3>4, InHours DEF TrendOK
  <2> QED
    BY <2>1, <2>2
<1>2. FittedTrend(hist, score) = [trend EXCEPT !.used = @ /\ slope[2] # 0]
  BY DEF FittedTrend
<1>3. trend = [used |-> trend.used, ttm |-> trend.ttm]
  BY DEF Trend
<1> HIDE DEF trend, slope
<1>4. FittedTrend(hist, score) = [used |-> trend.used /\ slope[2] # 0, ttm |-> trend.ttm]
  BY <1>2, <1>3
<1>5. TrendOK(FittedTrend(hist, score))
  BY <1>1, <1>4 DEF TrendOK
<1> QED
  BY <1>1, <1>5 DEF trend

-----------------------------------------------------------------------------
(* Scores and tiers *)

(* No penalty is negative, and none takes more than its cap. *)
LEMMA CappedBounds ==
    ASSUME NEW points \in Int, NEW cap \in Nat
    PROVE  Capped(points, cap) \in 0..cap * U
BY SMT DEF Capped, AtMost, Positive, U

(* A penalty for more is not smaller. *)
LEMMA CappedGrows ==
    ASSUME NEW x \in Int, NEW y \in Int, NEW cap \in Nat, x <= y
    PROVE  Capped(x, cap) <= Capped(y, cap)
BY SMT DEF Capped, AtMost, Positive, U

(* A raw score is at most a hundred points, and falls with what is taken.   *)
LEMMA RawScore ==
    ASSUME NEW x \in Nat, NEW y \in Nat, x <= y
    PROVE  ScoreOf(y) \in Nat /\ ScoreOf(y) <= ScoreOf(x) /\ ScoreOf(x) <= 100 * U
BY SMT DEF ScoreOf, Positive, U

(* Rounding keeps the order of raw scores, and stays below a hundred points. *)
LEMMA StoredGrows ==
    ASSUME NEW r \in Nat, NEW s \in Nat, r <= s
    PROVE  Stored(r) \in Nat /\ Stored(r) <= Stored(s) /\ Stored(s) <= 10000
<1>1. (r + 50) \div 100 \in Nat /\ (r + 50) \div 100 <= (s + 50) \div 100
  BY SMT
<1>2. Rounded(r, 100) = (r + 50) \div 100 /\ Rounded(s, 100) = (s + 50) \div 100
  BY SMT DEF Rounded
<1> QED
  BY <1>1, <1>2, SMT DEF Stored, AtMost, Full

LEMMA RankIs ==
    /\ Rank("critical") = 1
    /\ Rank("warn") = 2
    /\ Rank("watch") = 3
    /\ Rank("ok") = 4
BY SMT DEF Rank, Tiers

LEMMA TierGrows ==
    ASSUME NEW r \in Nat, NEW s \in Nat, r <= s
    PROVE  Rank(TierOf(r)) <= Rank(TierOf(s))
BY RankIs, SMT DEF TierOf, U

(* Whatever the penalties add up to, the stored score is 0 to 100 points, and *)
(* more points taken store neither a better score nor a better tier.         *)
THEOREM ScoreBounds ==
    ASSUME NEW x \in Nat, NEW y \in Nat, x <= y
    PROVE  /\ Stored(ScoreOf(x)) \in Nat
           /\ Stored(ScoreOf(x)) <= 10000
           /\ Stored(ScoreOf(y)) <= Stored(ScoreOf(x))
           /\ Rank(TierOf(ScoreOf(y))) <= Rank(TierOf(ScoreOf(x)))
<1>1. ScoreOf(x) \in Nat /\ ScoreOf(y) \in Nat /\ ScoreOf(y) <= ScoreOf(x)
  BY RawScore
<1>2. Stored(ScoreOf(x)) \in Nat /\ Stored(ScoreOf(x)) <= 10000
  BY <1>1, StoredGrows
<1>3. Stored(ScoreOf(y)) <= Stored(ScoreOf(x))
  BY <1>1, StoredGrows
<1>4. Rank(TierOf(ScoreOf(y))) <= Rank(TierOf(ScoreOf(x)))
  BY <1>1, TierGrows
<1> QED
  BY <1>2, <1>3, <1>4

(* The tier of a verdict, which is cut from the score before it is rounded,  *)
(* is the one that the stored score shows: rounding crosses no boundary.     *)
THEOREM TierAgreesWithScore ==
    ASSUME NEW raw \in Nat, raw <= 100 * U
    PROVE  /\ TierOf(raw) = "ok"       => 8500 <= Stored(raw)
           /\ TierOf(raw) = "watch"    => 6500 <= Stored(raw) /\ Stored(raw) <= 8500
           /\ TierOf(raw) = "warn"     => 4000 <= Stored(raw) /\ Stored(raw) <= 6500
           /\ TierOf(raw) = "critical" => Stored(raw) <= 4000
<1>1. /\ Stored(850000) = 8500
      /\ Stored(650000) = 6500
      /\ Stored(400000) = 4000
  BY SMT DEF Stored, AtMost, Rounded, Full
<1>2. /\ 850000 <= raw => 8500 <= Stored(raw)
      /\ 650000 <= raw => 6500 <= Stored(raw)
      /\ 400000 <= raw => 4000 <= Stored(raw)
      /\ raw <= 850000 => Stored(raw) <= 8500
      /\ raw <= 650000 => Stored(raw) <= 6500
      /\ raw <= 400000 => Stored(raw) <= 4000
  BY <1>1, StoredGrows, SMT
<1>3. /\ TierOf(raw) = "ok"       => 850000 <= raw
      /\ TierOf(raw) = "watch"    => 650000 <= raw /\ raw <= 850000
      /\ TierOf(raw) = "warn"     => 400000 <= raw /\ raw <= 650000
      /\ TierOf(raw) = "critical" => raw <= 400000
  BY SMT DEF TierOf, U
<1> QED
  BY <1>2, <1>3, SMT

-----------------------------------------------------------------------------
(* Verdicts *)

LEMMA CappedNat ==
    ASSUME NEW points \in Int, NEW cap \in Nat
    PROVE  Capped(points, cap) \in Nat
BY SMT DEF Capped, AtMost, Positive, U

(* Every factor takes a whole number of points, or none. *)
Points(pen) == \A i \in DOMAIN pen : pen[i][2] \in Nat

LEMMA TotalNat ==
    ASSUME NEW pen, Points(pen)
    PROVE  Total(pen) \in Nat
<1> DEFINE of(i) == IF i \in DOMAIN pen THEN pen[i][2] ELSE 0
<1>1. \A i \in 1..10 : of(i) \in Nat
  BY DEF Points
<1>2. Total(pen) = of(1) + of(2) + of(3) + of(4) + of(5) + of(6) + of(7) + of(8) + of(9) + of(10)
  BY DEF Total
<1> HIDE DEF of
<1> QED
  BY <1>1, <1>2

RawOK(raw) == raw \in Nat /\ raw <= 100 * U /\ Stored(raw) \in 0..Full

LEMMA RawIsOK ==
    ASSUME NEW pen, Points(pen)
    PROVE  RawOK(ScoreOf(Total(pen)))
<1>1. Total(pen) \in Nat
  BY TotalNat
<1>2. ScoreOf(Total(pen)) \in Nat /\ ScoreOf(Total(pen)) <= 100 * U
  BY <1>1, RawScore
<1>3. Stored(ScoreOf(Total(pen))) \in Nat /\ Stored(ScoreOf(Total(pen))) <= 10000
  BY <1>2, StoredGrows
<1>4. Stored(ScoreOf(Total(pen))) <= Full
  BY <1>3 DEF Full
<1>5. \A x \in Nat : x <= Full => x \in 0..Full
  BY Limits
<1>6. Stored(ScoreOf(Total(pen))) \in 0..Full
  BY <1>3, <1>4, <1>5
<1> QED
  BY <1>2, <1>6 DEF RawOK

(* Confidences are at most 0.97. *)
Confidence(conf) == conf \in Nat /\ conf <= 970

LEMMA ConfidenceIs ==
    ASSUME NEW x \in Nat
    PROVE  /\ Confidence(AtMost(x, 970)) /\ Confidence(AtMost(x, 950))
           /\ Confidence(AtMost(x, 920)) /\ Confidence(AtMost(x, 900))
           /\ Confidence(AtMost(x, 880)) /\ Confidence(AtMost(x, 850))
           /\ Confidence(AtMost(x, 750))
BY DEF Confidence, AtMost

LEMMA TrendConfidenceOK ==
    ASSUME NEW hist, RowsOK(hist), NEW base \in Nat
    PROVE  Confidence(TrendConfidence(base, hist))
<1> DEFINE q == (200 * Len(hist)) \div (3 * MinRunsForTrend)
<1>1. q \in Nat
  <2>1. 200 * Len(hist) \in Nat /\ 3 * MinRunsForTrend \in Nat \ {0}
    BY HealthAssumption DEF RowsOK
  <2>2. \A x \in Nat, y \in Nat \ {0} : x \div y \in Nat
    OBVIOUS
  <2> QED
    BY <2>1, <2>2
<1>2. TrendConfidence(base, hist) = AtMost(base + AtMost(q, 200), 970)
  BY DEF TrendConfidence
<1> HIDE DEF q
<1>3. base + AtMost(q, 200) \in Nat
  BY <1>1 DEF AtMost
<1> QED
  BY <1>2, <1>3, ConfidenceIs

LEMMA ShareOK ==
    ASSUME NEW part \in Nat, NEW whole \in Nat \ {0}
    PROVE  Share(part, whole) \in Nat /\ Share(part, whole) <= 1000
<1>1. (1000 * part) \div whole \in Nat
  OBVIOUS
<1> QED
  BY <1>1 DEF Share, AtMost

LEMMA ScaledOK ==
    ASSUME NEW conf, Confidence(conf), NEW data \in Nat, data <= 1000
    PROVE  Confidence(Scaled(conf, data))
<1>1. (400 * data) \div 1000 \in Nat /\ (400 * data) \div 1000 <= 400
  BY SMT
<1>2. \A c, p \in Nat : p <= 1000 => (c * p) \div 1000 \in Nat /\ (c * p) \div 1000 <= c
  <2> SUFFICES ASSUME NEW c \in Nat, NEW p \in Nat, p <= 1000
               PROVE  (c * p) \div 1000 \in Nat /\ (c * p) \div 1000 <= c
    OBVIOUS
  <2>1. c * p <= c * 1000 /\ c * p \in Nat
    BY SMT
  <2>2. \A x \in Nat : x <= c * 1000 => x \div 1000 <= c /\ x \div 1000 \in Nat
    BY SMT
  <2> QED
    BY <2>1, <2>2
<1>3. 600 + (400 * data) \div 1000 \in Nat /\ 600 + (400 * data) \div 1000 <= 1000
  BY <1>1
<1>4. Scaled(conf, data) \in Nat /\ Scaled(conf, data) <= conf
  BY <1>2, <1>3 DEF Scaled, Confidence
<1> QED
  BY <1>4 DEF Confidence

(* What a module may say of a component. *)
VerdictOK(v) ==
    /\ RawOK(v.raw)
    /\ v.score = Stored(v.raw)
    /\ v.tier = TierOf(v.raw)
    /\ v.ttm \in Hours
    /\ Confidence(v.conf)

BandsOK(bands) == bands[1] \in Hours /\ bands[2] \in Hours /\ bands[3] \in Hours

LEMMA BandsAre ==
    BandsOK(<<24, 96, 336>>) /\ BandsOK(<<48, 240, 720>>)
<1>1. Year >= 720 /\ Year \in Nat
  BY DEF Year
<1> HIDE DEF Year
<1> QED
  BY <1>1 DEF BandsOK, Hours

LEMMA TierCases ==
    ASSUME NEW raw
    PROVE  TierOf(raw) \in {"critical", "warn", "watch", "ok"}
BY DEF TierOf

(* What a verdict owes to the score and to the regime. *)
Judged(v, raw, trend, bands, trendConf, coldConf) ==
    /\ v.raw = raw /\ v.score = Stored(raw) /\ v.tier = TierOf(raw)
    /\ v.ttm = IF trend.used THEN trend.ttm ELSE Band(bands, TierOf(raw))
    /\ v.conf = IF trend.used THEN trendConf ELSE coldConf

LEMMA JudgedOK ==
    ASSUME NEW raw, RawOK(raw), NEW trend, TrendOK(trend), NEW bands, BandsOK(bands),
           NEW trendConf, Confidence(trendConf), NEW coldConf, Confidence(coldConf),
           NEW v, Judged(v, raw, trend, bands, trendConf, coldConf)
    PROVE  VerdictOK(v)
<1>1. Band(bands, TierOf(raw)) \in Hours
  BY TierCases, RankIs, InHours DEF Band, BandsOK
<1> QED
  BY <1>1 DEF VerdictOK, TrendOK, Judged

(* The stored rows of the components of a module. *)
StoreOK(stored) == \A id \in DOMAIN stored : RowsOK(stored[id])

LEMMA HistoryOK ==
    ASSUME NEW stored, StoreOK(stored), NEW id
    PROVE  RowsOK(History(stored, id))
<1>1. RowsOK(<<>>)
  BY DEF RowsOK
<1> QED
  BY <1>1 DEF History, StoreOK

(* How many, of finitely many. *)
LEMMA CountNat ==
    ASSUME NEW D, IsFiniteSet(D), NEW S \in SUBSET D
    PROVE  IsFiniteSet(S) /\ Cardinality(S) \in Nat /\ Cardinality(S) <= Cardinality(D)
BY FS_Subset, FS_CardinalityType

LEMMA CountRows ==
    ASSUME NEW hist, RowsOK(hist), NEW S \in SUBSET DOMAIN hist
    PROVE  /\ IsFiniteSet(S) /\ Cardinality(S) \in Nat
           /\ Min(S \cup {Len(hist) + 1}) \in Nat
<1>1. IsFiniteSet(S) /\ Cardinality(S) \in Nat
  <2>1. IsFiniteSet(DOMAIN hist)
    BY FS_Interval DEF RowsOK
  <2> QED
    BY <2>1, CountNat
<1> DEFINE D == S \cup {Len(hist) + 1}
<1>2. IsFiniteSet(D) /\ D \subseteq Nat /\ D # {}
  BY <1>1, FS_AddElement DEF RowsOK
<1>3. Min(D) \in D
  <2>1. D \subseteq Int
    BY <1>2
  <2> HIDE DEF D
  <2> QED
    BY <1>2, <2>1, MinMax
<1> QED
  BY <1>1, <1>2, <1>3

(* The part that some make of all, in units. *)
LEMMA PartNat ==
    ASSUME NEW D, IsFiniteSet(D), D # {}, NEW S \in SUBSET D
    PROVE  Rounded(U * Cardinality(S), Cardinality(D)) \in Nat
<1>1. Cardinality(D) \in Nat \ {0}
  BY FS_CardinalityType, FS_EmptySet
<1>2. Cardinality(S) \in Nat
  BY CountNat
<1>3. U * Cardinality(S) \in Nat
  BY <1>2 DEF U
<1> QED
  BY <1>1, <1>3, RoundedPart

(* The share of a confidence that evidence gives, and the one stored runs do. *)
LEMMA ColdPart ==
    ASSUME NEW evidence \in Nat
    PROVE  (300 * AtMost(evidence, 1000)) \div 1000 \in Nat
           /\ (400 * AtMost(evidence, 1000)) \div 1000 \in Nat
<1>1. AtMost(evidence, 1000) \in Nat
  BY DEF AtMost
<1> QED
  BY <1>1

LEMMA ColdRuns ==
    ASSUME NEW hist, RowsOK(hist)
    PROVE  /\ (250 * AtMost(Len(hist), MinRunsForTrend)) \div MinRunsForTrend \in Nat
           /\ (300 * AtMost(Len(hist), MinRunsForTrend)) \div MinRunsForTrend \in Nat
<1>1. AtMost(Len(hist), MinRunsForTrend) \in Nat
  BY HealthAssumption DEF AtMost, RowsOK
<1>2. \A x \in Nat, y \in Nat \ {0} : (250 * x) \div y \in Nat /\ (300 * x) \div y \in Nat
  OBVIOUS
<1> QED
  BY <1>1, <1>2, HealthAssumption


(* No factor takes more points than all of them together. *)
LEMMA TotalAtLeast ==
    ASSUME NEW pen, Points(pen), NEW k \in DOMAIN pen, k \in 1..10
    PROVE  pen[k][2] <= Total(pen)
<1> DEFINE of(i) == IF i \in DOMAIN pen THEN pen[i][2] ELSE 0
<1>1. \A i \in 1..10 : of(i) \in Nat
  BY DEF Points
<1>2. Total(pen) = of(1) + of(2) + of(3) + of(4) + of(5) + of(6) + of(7) + of(8) + of(9) + of(10)
  BY DEF Total
<1>3. of(k) = pen[k][2]
  OBVIOUS
<1> HIDE DEF of
<1>4. of(k) <= of(1) + of(2) + of(3) + of(4) + of(5) + of(6) + of(7) + of(8) + of(9) + of(10)
  BY <1>1
<1> QED
  BY <1>2, <1>3, <1>4


-----------------------------------------------------------------------------
(* The gate module *)

GateFeature(f) == f.excess \in Nat /\ f.nonClosed \in BOOLEAN

LEMMA GateFeaturesOK ==
    ASSUME NEW b, GateBundle(b), NEW g \in DOMAIN GateFeatures(b)
    PROVE  GateFeature(GateFeatures(b)[g]) /\ IsFiniteSet(DOMAIN GateFeatures(b))
<1> DEFINE opened == {h \in DOMAIN b.gates : b.gates[h] \in {2, 3}}
           mine   == {x \in b.alerts : x.gate = g}
           minutes == [a \in mine |-> a.minutes]
           S      == {0} \cup {a.minutes : a \in mine}
<1>1. g \in DOMAIN b.gates /\ DOMAIN GateFeatures(b) = DOMAIN b.gates
  BY DEF GateFeatures
<1>2. /\ GateFeatures(b)[g].excess = IF g \in opened THEN Positive(Max(S) - 2) ELSE 0
      /\ GateFeatures(b)[g].nonClosed = (g \in opened)
  BY <1>1 DEF GateFeatures
<1>3. IsFiniteSet(mine)
  BY FS_Subset DEF GateBundle
<1>4. IsFiniteSet(S) /\ S \subseteq Int /\ S # {}
  <2>1. IsFiniteSet({minutes[a] : a \in DOMAIN minutes})
    <3>1. DOMAIN minutes = mine
      OBVIOUS
    <3> HIDE DEF minutes, mine
    <3> QED
      BY <1>3, <3>1, RangeFinite
  <2>2. S = {0} \cup {minutes[a] : a \in DOMAIN minutes}
    OBVIOUS
  <2>3. IsFiniteSet(S)
    <3> HIDE DEF minutes
    <3> QED
      BY <2>1, <2>2, FS_Singleton, FS_Union
  <2>4. S \subseteq Int
    BY DEF GateBundle
  <2> QED
    BY <2>3, <2>4
<1>5. Max(S) \in Int
  <2> HIDE DEF S
  <2> QED
    BY <1>4, MinMax
<1> HIDE DEF opened, S
<1> QED
  BY <1>1, <1>2, <1>5 DEF GateFeature, Positive, GateBundle

GatePriorOK(prior) ==
    prior.runs \in Nat /\ prior.nonClosed \in Nat /\ prior.stuck \in Nat /\ prior.inARow \in Nat

LEMMA GatePriorIsOK ==
    ASSUME NEW f, f.nonClosed \in BOOLEAN, NEW hist, RowsOK(hist)
    PROVE  GatePriorOK(GatePrior(f, hist))
<1> DEFINE quiet == {i \in DOMAIN hist : ~hist[i].facts.nonClosed}
           stuck == {i \in DOMAIN hist : hist[i].facts.stuck}
           rate(S) == IF hist = <<>> THEN 0 ELSE Rounded(Cardinality(S) * U, Len(hist))
<1>1. \A S \in SUBSET DOMAIN hist : rate(S) \in Nat
  <2> SUFFICES ASSUME NEW S \in SUBSET DOMAIN hist, hist # <<>> PROVE rate(S) \in Nat
    BY Zenon
  <2>1. Len(hist) \in Nat \ {0}
    BY SomeRows
  <2>2. Cardinality(S) * U \in Nat
    <3>1. Cardinality(S) \in Nat
      BY CountRows
    <3> QED
      BY <3>1 DEF U
  <2> QED
    BY <2>1, <2>2, RoundedPart
<1>2. Min(quiet \cup {Len(hist) + 1}) \in Nat
  BY CountRows
<1> QED
  BY <1>1, <1>2 DEF GatePrior, GatePriorOK, RowsOK

LEMMA GatePoints ==
    ASSUME NEW f, GateFeature(f), NEW prior, GatePriorOK(prior), NEW pool, Whole(pool)
    PROVE  Points(GatePenalties(f, prior, pool))
<1>1. RobustZ(prior.nonClosed, pool) \in Int
  BY RobustZInt DEF GatePriorOK
<1> DEFINE rated(x) == IF prior.runs >= 3 THEN x ELSE 0
<1>2. /\ Capped(3 * U * f.excess, 62) \in Nat
      /\ Capped(IF f.code = 2 THEN 8 * U ELSE 0, 8) \in Nat
      /\ Capped(12 * U * (prior.inARow - 1), 36) \in Nat
      /\ Capped(rated(40 * prior.stuck), 20) \in Nat
      /\ Capped(rated(35 * prior.nonClosed), 22) \in Nat
      /\ Capped(rated(50 * RobustZ(prior.nonClosed, pool)), 18) \in Nat
  BY <1>1 DEF Capped, AtMost, Positive, U, GateFeature, GatePriorOK
<1> HIDE DEF rated
<1> QED
  BY <1>2 DEF GatePenalties, Points, rated

LEMMA GateScoreOK ==
    ASSUME NEW feats, IsFiniteSet(DOMAIN feats), \A g \in DOMAIN feats : GateFeature(feats[g]),
           NEW stored, StoreOK(stored), NEW g \in DOMAIN GateScore(feats, stored)
    PROVE  VerdictOK(GateScore(feats, stored)[g])
<1> DEFINE prior == [h \in DOMAIN feats |-> GatePrior(feats[h], History(stored, h))]
           known == {h \in DOMAIN feats : prior[h].runs >= 3}
           pool  == [h \in known |-> prior[h].nonClosed]
           hist  == History(stored, g)
           pen   == GatePenalties(feats[g], prior[g], pool)
           raw   == ScoreOf(Total(pen))
           cold  == 420 + (330 * AtMost(prior[g].runs, 3)) \div 3
                        + (IF hist = <<>> THEN 0 ELSE 50)
<1>1. g \in DOMAIN feats
  BY DEF GateScore
<1>2. RowsOK(hist)
  BY HistoryOK
<1>3. \A h \in DOMAIN feats : GatePriorOK(prior[h])
  BY HistoryOK, GatePriorIsOK DEF GateFeature
<1>4. Whole(pool)
  <2>1. IsFiniteSet(known)
    BY FS_Subset
  <2> HIDE DEF prior
  <2> QED
    BY <1>3, <2>1 DEF Whole, GatePriorOK
<1>5. RawOK(raw)
  <2>1. Points(pen)
    <3> HIDE DEF pool, prior
    <3> QED
      BY <1>1, <1>3, <1>4, GatePoints
  <2> HIDE DEF pen
  <2> QED
    BY <2>1, RawIsOK
<1>6. Confidence(AtMost(cold, 850))
  <2>1. prior[g].runs \in Nat
    BY <1>1, <1>3 DEF GatePriorOK
  <2>2. cold \in Nat
    <3> HIDE DEF prior, hist
    <3> QED
      BY <2>1 DEF AtMost
  <2> HIDE DEF cold
  <2> QED
    BY <2>2, ConfidenceIs
<1>7. Judged(GateScore(feats, stored)[g], raw, Trend(hist, Stored(raw)), <<48, 240, 720>>,
             TrendConfidence(720, hist), AtMost(cold, 850))
  BY <1>1 DEF GateScore, Judge, Judged
<1> HIDE DEF raw, hist, cold
<1>8. TrendOK(Trend(hist, Stored(raw))) /\ Confidence(TrendConfidence(720, hist))
  BY <1>2, <1>5, TrendIsOK, TrendConfidenceOK DEF RawOK
<1> QED
  BY <1>5, <1>6, <1>7, <1>8, JudgedOK, BandsAre


-----------------------------------------------------------------------------
(* The lift module *)

LEMMA LiftSeverity ==
    ASSUME NEW code
    PROVE  LiftCatalog(code).severity \in Nat
BY SMT DEF LiftCatalog

LiftFeature(f) ==
    /\ f.errors \in Nat /\ f.rate \in Nat /\ f.z \in Int /\ f.severity \in Nat
    /\ f.mechanical \in Nat /\ f.repeats \in Nat /\ f.distinct \in Nat

LEMMA LiftFeaturesOK ==
    ASSUME NEW b, LiftBundle(b), NEW l \in DOMAIN LiftFeatures(b)
    PROVE  LiftFeature(LiftFeatures(b)[l])
<1> DEFINE rows    == {i \in DOMAIN b.errors : b.errors[i].age # None}
           lifts   == {b.errors[i].lift : i \in rows}
           newest  == Min({b.errors[i].age : i \in rows})
           mine(k) == {i \in rows : b.errors[i].lift = k
                                  /\ b.errors[i].age - newest <= 24 * b.days}
           rate(k) == Rounded(Cardinality(mine(k)) * U, b.days)
           rates   == [k \in lifts |-> rate(k)]
           c       == [i \in mine(l) |-> b.errors[i].code]
           sev     == [i \in mine(l) |-> LiftCatalog(c[i]).severity]
           of(kind) == {i \in DOMAIN c : LiftCatalog(c[i]).category = kind}
           f       == LiftFeatures(b)[l]
<1>1. l \in lifts
  BY DEF LiftFeatures
<1>2. /\ f.errors = Cardinality(mine(l)) /\ f.rate = rate(l)
      /\ f.z = RobustZ(rate(l), rates) /\ f.severity = Mean(sev)
      /\ f.mechanical = IF DOMAIN c = {} THEN 0
                        ELSE Rounded(U * Cardinality(of("mechanical")), Cardinality(DOMAIN c))
      /\ f.repeats = Repeats(c) /\ f.distinct = Cardinality(Range(c))
  BY <1>1 DEF LiftFeatures
<1>3. \A k : IsFiniteSet(mine(k)) /\ Cardinality(mine(k)) \in Nat
  BY CountNat DEF LiftBundle
<1>4. \A k : rate(k) \in Nat
  <2> SUFFICES ASSUME NEW k PROVE rate(k) \in Nat
    OBVIOUS
  <2> HIDE DEF mine
  <2>1. Cardinality(mine(k)) * U \in Nat
    BY <1>3 DEF U
  <2> QED
    BY <2>1, RoundedPart DEF LiftBundle
<1>5. RobustZ(rate(l), rates) \in Int
  <2>1. IsFiniteSet(lifts)
    <3> DEFINE g == [i \in rows |-> b.errors[i].lift]
    <3>1. IsFiniteSet(rows)
      BY CountNat DEF LiftBundle
    <3>2. DOMAIN g = rows /\ lifts = {g[i] : i \in DOMAIN g}
      OBVIOUS
    <3> HIDE DEF g, rows
    <3> QED
      BY <3>1, <3>2, RangeFinite
  <2>2. Whole(rates)
    <3> HIDE DEF rate, lifts
    <3> QED
      BY <1>4, <2>1 DEF Whole
  <2> HIDE DEF rate, rates
  <2>3. rate(l) \in Int
    BY <1>4
  <2> QED
    BY <2>2, <2>3, RobustZInt
<1>6. Mean(sev) \in Nat
  <2>1. DOMAIN sev = mine(l) /\ \A i \in mine(l) : sev[i] \in Nat
    <3> HIDE DEF mine, c
    <3> QED
      BY LiftSeverity
  <2> HIDE DEF sev, mine
  <2> QED
    BY <1>3, <2>1, MeanNat
<1>7. DOMAIN c = mine(l) /\ IsFiniteSet(DOMAIN c)
  BY <1>3
<1>8. f.mechanical \in Nat
  <2>1. Cardinality(of("mechanical")) \in Nat
    <3> HIDE DEF c, mine
    <3> QED
      BY <1>7, CountNat
  <2>2. U * Cardinality(of("mechanical")) \in Nat
    <3> HIDE DEF of
    <3> QED
      BY <2>1 DEF U
  <2>3. DOMAIN c # {} => Cardinality(DOMAIN c) \in Nat \ {0}
    <3> HIDE DEF c
    <3> QED
      BY <1>7, FS_CardinalityType, FS_EmptySet
  <2> DEFINE part == Rounded(U * Cardinality(of("mechanical")), Cardinality(DOMAIN c))
  <2>4. DOMAIN c # {} => part \in Nat
    <3> HIDE DEF of, c
    <3> QED
      BY <2>2, <2>3, RoundedPart
  <2>5. f.mechanical = IF DOMAIN c = {} THEN 0 ELSE part
    BY <1>2
  <2> HIDE DEF part, f, c
  <2> QED
    BY <2>4, <2>5
<1>9. Repeats(c) \in Nat /\ Cardinality(Range(c)) \in Nat
  <2> HIDE DEF c
  <2> QED
    BY <1>7, RepeatsNat, RangeFinite
<1>10. LiftFeature(f)
  <2> HIDE DEF f, c, sev, rate, rates, mine
  <2> QED
    BY <1>2, <1>3, <1>4, <1>5, <1>6, <1>8, <1>9 DEF LiftFeature
<1> QED
  BY <1>10

LEMMA LiftPoints ==
    ASSUME NEW f, LiftFeature(f)
    PROVE  Points(LiftPenalties(f))
<1> DEFINE gated(x) == (x * AtMost(f.errors, 5)) \div 5
<1>1. \A x \in Nat : gated(x) \in Nat
  BY SMT DEF LiftFeature, AtMost
<1>2. gated(f.severity) \in Nat /\ gated(f.mechanical) \in Nat
  BY <1>1 DEF LiftFeature
<1> HIDE DEF gated
<1>3. /\ Capped(90 * f.z, 40) \in Nat
      /\ Capped(2 * f.rate, 20) \in Nat
      /\ Capped(30 * gated(f.severity), 30) \in Nat
      /\ Capped(22 * gated(f.mechanical), 22) \in Nat
      /\ Capped((3 * U * (f.repeats - 2)) \div 2, 18) \in Nat
      /\ Capped(2 * U * (f.distinct - 2), 12) \in Nat
      /\ Capped(IF f.inError THEN 12 * U ELSE 0, 12) \in Nat
  BY <1>2 DEF Capped, AtMost, Positive, U, LiftFeature
<1> QED
  BY <1>3 DEF LiftPenalties, Points, gated

LEMMA LiftScoreOK ==
    ASSUME NEW feats, NEW stored, StoreOK(stored), NEW l \in DOMAIN LiftScore(feats, stored),
           LiftFeature(feats[l])
    PROVE  VerdictOK(LiftScore(feats, stored)[l])
<1> DEFINE hist == History(stored, l)
           f    == feats[l]
           raw  == ScoreOf(Total(LiftPenalties(f)))
           data == Share(f.errors, 30)
           cold == 350 + (350 * data) \div 1000 + (IF hist = <<>> THEN 0 ELSE 100)
<1>1. l \in DOMAIN feats
  BY DEF LiftScore
<1>2. RowsOK(hist)
  BY HistoryOK
<1>3. RawOK(raw)
  BY LiftPoints, RawIsOK
<1>4. data \in Nat /\ data <= 1000
  BY ShareOK DEF LiftFeature
<1>5. Confidence(AtMost(cold, 850))
  <2>1. cold \in Nat
    <3> HIDE DEF data, hist
    <3> QED
      BY <1>4
  <2> HIDE DEF cold
  <2> QED
    BY <2>1, ConfidenceIs
<1>6. Judged(LiftScore(feats, stored)[l], raw, FittedTrend(hist, Stored(raw)), <<24, 96, 336>>,
             Scaled(TrendConfidence(700, hist), data), AtMost(cold, 850))
  BY <1>1 DEF LiftScore, Judge, Judged
<1> HIDE DEF raw, hist, cold, data
<1>7. TrendOK(FittedTrend(hist, Stored(raw))) /\ Confidence(Scaled(TrendConfidence(700, hist), data))
  BY <1>2, <1>3, <1>4, TrendIsOK, TrendConfidenceOK, ScaledOK DEF RawOK
<1> QED
  BY <1>3, <1>5, <1>6, <1>7, JudgedOK, BandsAre


-----------------------------------------------------------------------------
(* The shuttle module *)

LEMMA ShuttleSeverity ==
    ASSUME NEW kind
    PROVE  ShuttleCatalog(kind).severity \in Nat
BY SMT DEF ShuttleCatalog

ShuttleFeature(f) ==
    /\ f.total \in Nat /\ f.errors \in Nat /\ f.epc \in Nat /\ f.z \in Int
    /\ f.severity \in Nat /\ f.mechanical \in Nat /\ f.repeats \in Nat /\ f.distinct \in Nat
    /\ f.reshuffle \in Nat /\ f.daily \in Nat

LEMMA ShuttleFeaturesOK ==
    ASSUME NEW b, ShuttleBundle(b), NEW s \in DOMAIN ShuttleFeatures(b)
    PROVE  ShuttleFeature(ShuttleFeatures(b)[s])
<1> DEFINE rows   == {i \in DOMAIN b.errors : b.errors[i].age # None}
           newest == Min({b.errors[i].age : i \in rows})
           win    == {i \in rows : b.errors[i].age - newest <= 24 * b.days}
           bad    == {r.shuttle : r \in b.bad}
           units  == IF b.cycles = <<>> /\ b.errors = <<>> THEN {}
                     ELSE DOMAIN b.cycles \cup DOMAIN b.daily \cup bad \cup b.alerts
                              \cup {b.errors[i].shuttle : i \in win}
           mine(t)  == {i \in win : b.errors[i].shuttle = t}
           total(t) == IF t \in DOMAIN b.cycles THEN b.cycles[t].total ELSE 0
           share(t) == IF total(t) = 0 THEN 0 ELSE Rounded(b.cycles[t].reshuffled * U, total(t))
           epc(t)   == (Cardinality(mine(t)) * PerMillion) \div total(t)
           today(t) == IF t \in DOMAIN b.daily THEN b.daily[t] ELSE 0
           used   == {t \in units : total(t) > 0}
           epcs   == [t \in used |-> epc(t)]
           shares == [t \in used |-> share(t)]
           usual  == IF used = {} THEN 0 ELSE Median(shares)
           k      == [i \in mine(s) |-> b.errors[i].kind]
           cat    == [i \in mine(s) |-> ShuttleCatalog(k[i])]
           sev    == [i \in mine(s) |-> cat[i].severity]
           hard   == {i \in mine(s) : cat[i].category \in ShuttleMechanical}
           f      == ShuttleFeatures(b)[s]
<1>1. s \in units
  BY DEF ShuttleFeatures
<1>2. /\ f.total = total(s) /\ f.errors = Cardinality(mine(s))
      /\ f.epc = IF total(s) = 0 THEN 0 ELSE epc(s)
      /\ f.z = IF total(s) = 0 THEN 0 ELSE RobustZ(epc(s), epcs)
      /\ f.severity = Mean(sev) /\ f.repeats = Repeats(k) /\ f.distinct = Cardinality(Range(k))
  BY <1>1 DEF ShuttleFeatures
<1>3. /\ f.mechanical = IF mine(s) = {} THEN 0
                        ELSE Rounded(U * Cardinality(hard), Cardinality(mine(s)))
      /\ f.reshuffle = Positive(share(s) - usual)
      /\ f.daily = Positive(today(s) - Cardinality(mine(s)))
  BY <1>1 DEF ShuttleFeatures
<1>4. \A t : total(t) \in Nat /\ (total(t) > 0 => t \in DOMAIN b.cycles)
  BY DEF ShuttleBundle
<1>5. \A t : IsFiniteSet(mine(t)) /\ Cardinality(mine(t)) \in Nat
  BY CountNat DEF ShuttleBundle
<1>6. \A t : total(t) # 0 => epc(t) \in Nat /\ share(t) \in Nat
  <2> SUFFICES ASSUME NEW t, total(t) # 0 PROVE epc(t) \in Nat /\ share(t) \in Nat
    OBVIOUS
  <2>1. total(t) \in Nat \ {0} /\ b.cycles[t].reshuffled \in Nat
    BY <1>4 DEF ShuttleBundle
  <2> HIDE DEF mine, total
  <2>2. epc(t) \in Nat
    <3>1. \A x \in Nat, y \in Nat \ {0} : (x * PerMillion) \div y \in Nat
      BY SMT DEF PerMillion
    <3> QED
      BY <1>5, <2>1, <3>1
  <2>3. b.cycles[t].reshuffled * U \in Nat
    BY <2>1 DEF U
  <2>4. share(t) \in Nat
    <3>1. Rounded(b.cycles[t].reshuffled * U, total(t)) \in Nat
      BY <2>1, <2>3, RoundedPart
    <3> QED
      BY <3>1
  <2> QED
    BY <2>2, <2>4
<1>7. IsFiniteSet(used) /\ \A t \in used : epc(t) \in Int /\ share(t) \in Int
  <2>1. used \subseteq DOMAIN b.cycles /\ \A t \in used : total(t) # 0
    <3> HIDE DEF total
    <3> QED
      BY <1>4
  <2>2. IsFiniteSet(used)
    BY <2>1, FS_Subset DEF ShuttleBundle
  <2> HIDE DEF used, epc, share, total
  <2> QED
    BY <1>6, <2>1, <2>2
<1>8. RobustZ(epc(s), epcs) \in Int \/ total(s) = 0
  <2>1. Whole(epcs)
    <3> HIDE DEF used, epc
    <3> QED
      BY <1>7 DEF Whole
  <2>2. total(s) # 0 => epc(s) \in Int
    <3> HIDE DEF epc, total
    <3> QED
      BY <1>6
  <2> HIDE DEF epc, epcs, total
  <2> QED
    BY <2>1, <2>2, RobustZInt
<1>9. usual \in Int
  <2>1. Whole(shares) /\ DOMAIN shares = used
    <3> HIDE DEF used, share
    <3> QED
      BY <1>7 DEF Whole
  <2> HIDE DEF shares, used
  <2> QED
    BY <2>1, MedianInt
<1>10. share(s) \in Int
  <2> HIDE DEF total
  <2>1. total(s) = 0 => share(s) = 0
    OBVIOUS
  <2>2. total(s) # 0 => share(s) \in Nat
    BY <1>6, Zenon
  <2> HIDE DEF share
  <2> QED
    BY <2>1, <2>2
<1>11. today(s) \in Int
  BY DEF ShuttleBundle
<1>12. Mean(sev) \in Nat
  <2>1. DOMAIN sev = mine(s) /\ \A i \in mine(s) : sev[i] \in Nat
    <3>1. \A i \in mine(s) : sev[i] = ShuttleCatalog(k[i]).severity
      <4> HIDE DEF mine, k
      <4> QED
        OBVIOUS
    <3> HIDE DEF k, cat, sev, mine
    <3> QED
      BY <3>1, ShuttleSeverity DEF sev
  <2> HIDE DEF sev, mine
  <2> QED
    BY <1>5, <2>1, MeanNat
<1>13. Repeats(k) \in Nat /\ Cardinality(Range(k)) \in Nat
  <2>1. IsFiniteSet(DOMAIN k)
    <3> HIDE DEF mine
    <3> QED
      BY <1>5
  <2> HIDE DEF k
  <2> QED
    BY <2>1, RepeatsNat, RangeFinite
<1> DEFINE part == Rounded(U * Cardinality(hard), Cardinality(mine(s)))
<1>14. mine(s) # {} => part \in Nat
  <2>1. hard \in SUBSET mine(s)
    OBVIOUS
  <2> HIDE DEF mine, hard
  <2> QED
    BY <1>5, <2>1, PartNat
<1>15. f.mechanical \in Nat
  <2>1. f.mechanical = IF mine(s) = {} THEN 0 ELSE part
    BY <1>3
  <2> HIDE DEF f, mine, part
  <2> QED
    BY <1>14, <2>1
<1>16. f.reshuffle \in Nat /\ f.daily \in Nat
  <2> HIDE DEF f, share, usual, today, mine
  <2> QED
    BY <1>3, <1>5, <1>9, <1>10, <1>11 DEF Positive
<1>17. f.epc \in Nat /\ f.z \in Int /\ f.total \in Nat
  <2> HIDE DEF f, total, epc, epcs
  <2>1. total(s) # 0 => epc(s) \in Nat
    BY <1>6, Zenon
  <2>2. total(s) \in Nat
    BY <1>4, Zenon
  <2> HIDE DEF mine, sev, k
  <2> QED
    BY <1>2, <1>8, <2>1, <2>2
<1>18. ShuttleFeature(f)
  <2> HIDE DEF f, mine, sev, k, total, epc, epcs
  <2> QED
    BY <1>2, <1>5, <1>12, <1>13, <1>15, <1>16, <1>17 DEF ShuttleFeature
<1> QED
  BY <1>18

LEMMA ShuttlePoints ==
    ASSUME NEW f, ShuttleFeature(f)
    PROVE  Points(ShuttlePenalties(f))
<1> DEFINE flag(x, points) == IF x THEN points * U ELSE 0
<1>1. f.epc \div 5 \in Nat /\ (3 * U * (f.repeats - 2)) \div 2 \in Int
  BY DEF ShuttleFeature, U
<1>2. flag(f.pickError, 12) \in Nat /\ flag(f.alert, 8) \in Nat
  BY DEF U
<1>3. /\ 60 * f.z \in Int /\ 28 * f.severity \in Int /\ 20 * f.mechanical \in Int
      /\ 2 * U * (f.distinct - 2) \in Int /\ 18 * f.reshuffle \in Int /\ 3 * U * f.daily \in Int
  BY DEF ShuttleFeature, U
<1> HIDE DEF flag
<1>4. /\ Capped(60 * f.z, 36) \in Nat
      /\ Capped(f.epc \div 5, 18) \in Nat
      /\ Capped(28 * f.severity, 28) \in Nat
      /\ Capped(20 * f.mechanical, 20) \in Nat
      /\ Capped((3 * U * (f.repeats - 2)) \div 2, 16) \in Nat
      /\ Capped(2 * U * (f.distinct - 2), 10) \in Nat
      /\ Capped(18 * f.reshuffle, 8) \in Nat
      /\ Capped(flag(f.pickError, 12), 12) \in Nat
      /\ Capped(flag(f.alert, 8), 8) \in Nat
      /\ Capped(3 * U * f.daily, 9) \in Nat
  <2>1. \A points \in Int, cap \in Nat : Capped(points, cap) \in Nat
    BY CappedNat
  <2>2. flag(f.pickError, 12) \in Int /\ flag(f.alert, 8) \in Int /\ f.epc \div 5 \in Int
    BY <1>1, <1>2
  <2> QED
    BY <1>1, <1>3, <2>1, <2>2
<1> QED
  BY <1>4 DEF ShuttlePenalties, Points, flag

(* The stored rows of a shuttle have the cycles it had. *)
CyclesOK(hist) == \A i \in DOMAIN hist : hist[i].facts.cycles \in Nat

LEMMA ShuttleTrendOK ==
    ASSUME NEW hist, RowsOK(hist), CyclesOK(hist), NEW score \in 0..Full
    PROVE  TrendOK(ShuttleTrend(hist, score))
<1> DEFINE cycles == [i \in DOMAIN hist |-> hist[i].facts.cycles]
           wear   == Slope(cycles, Scores(hist))
           pace   == Slope(Times(hist), cycles)
           left   == ((score - Critical) * wear[2]) \div (-wear[1])
           hours  == IF score <= Critical THEN 0
                     ELSE IF wear[1] >= 0 THEN None
                     ELSE IF pace[1] <= 0 THEN None
                     ELSE AtMost((left * pace[2]) \div pace[1], Year)
           short  == Len(hist) < MinRunsForTrend \/ wear[2] = 0
<1>1. TrendOK(FittedTrend(hist, score))
  BY TrendIsOK
<1>2. ShuttleTrend(hist, score) =
        IF short THEN FittedTrend(hist, score) ELSE [used |-> TRUE, ttm |-> hours]
  BY DEF ShuttleTrend
<1>3. ASSUME ~short PROVE hours \in Hours
  <2>1. Len(hist) \in Nat \ {0}
    <3> HIDE DEF wear
    <3> QED
      BY <1>3, HealthAssumption, SomeRows DEF RowsOK
  <2>2. /\ cycles \in [1..Len(hist) -> Int]
        /\ Times(hist) \in [1..Len(hist) -> Int]
        /\ Scores(hist) \in [1..Len(hist) -> Int]
    BY TimesScores DEF CyclesOK, RowsOK
  <2>3. wear[1] \in Int /\ wear[2] \in Nat /\ pace[1] \in Int /\ pace[2] \in Nat
    <3> HIDE DEF cycles
    <3> QED
      BY <2>1, <2>2, SlopeOK
  <2> HIDE DEF wear, pace
  <2>4. score \in Nat
    BY Limits
  <2>5. score > Critical /\ wear[1] < 0 => left \in Nat
    <3>1. \A x \in Nat, y \in Nat, z \in Int : z < 0 => (x * y) \div (-z) \in Nat
      BY SMT
    <3>2. score > Critical => score - Critical \in Nat
      BY <2>4 DEF Critical
    <3> QED
      BY <2>3, <3>1, <3>2
  <2> HIDE DEF left
  <2>6. left \in Nat /\ pace[1] > 0 => (left * pace[2]) \div pace[1] \in Nat
    <3>1. \A x \in Nat, y \in Nat, z \in Int : z > 0 => (x * y) \div z \in Nat
      BY SMT
    <3> QED
      BY <2>3, <3>1
  <2> DEFINE far == AtMost((left * pace[2]) \div pace[1], Year)
  <2>7. left \in Nat /\ pace[1] > 0 => far \in Hours
    BY <2>6, InHours
  <2>8. 0 \in Hours /\ None \in Hours
    BY InHours
  <2>9. score > Critical /\ wear[1] < 0 /\ pace[1] > 0 => far \in Hours
    BY <2>5, <2>7
  <2> HIDE DEF far
  <2>10. hours = IF score <= Critical THEN 0
                 ELSE IF wear[1] >= 0 THEN None
                 ELSE IF pace[1] <= 0 THEN None
                 ELSE far
    BY DEF far
  <2> HIDE DEF hours
  <2> QED
    BY <2>3, <2>4, <2>8, <2>9, <2>10 DEF Critical
<1> DEFINE own == [used |-> TRUE, ttm |-> hours]
<1>4. ~short => TrendOK(own)
  <2> HIDE DEF short, hours
  <2> QED
    BY <1>3 DEF TrendOK
<1>5. ShuttleTrend(hist, score) = IF short THEN FittedTrend(hist, score) ELSE own
  BY <1>2
<1> HIDE DEF short, own
<1> QED
  BY <1>1, <1>4, <1>5

LEMMA ShuttleScoreOK ==
    ASSUME NEW feats, NEW stored, StoreOK(stored), NEW s \in DOMAIN ShuttleScore(feats, stored),
           CyclesOK(History(stored, s)), ShuttleFeature(feats[s])
    PROVE  /\ VerdictOK(ShuttleScore(feats, stored)[s])
           /\ ShuttleScore(feats, stored)[s].facts.cycles \in Nat
<1> DEFINE hist == History(stored, s)
           f    == feats[s]
           raw  == ScoreOf(Total(ShuttlePenalties(f)))
           data == Share(f.errors, 20)
           cold == 400 + (250 * data) \div 1000 + (IF f.total > 0 THEN 150 ELSE 0)
                       + (IF hist = <<>> THEN 0 ELSE 100)
<1>1. s \in DOMAIN feats
  BY DEF ShuttleScore
<1>2. RowsOK(hist) /\ CyclesOK(hist)
  BY HistoryOK
<1>3. RawOK(raw)
  BY ShuttlePoints, RawIsOK
<1>4. data \in Nat /\ data <= 1000
  BY ShareOK DEF ShuttleFeature
<1>5. Confidence(AtMost(cold, 850))
  <2>1. cold \in Nat
    <3> HIDE DEF data, hist
    <3> QED
      BY <1>4
  <2> HIDE DEF cold
  <2> QED
    BY <2>1, ConfidenceIs
<1>6. Judged(ShuttleScore(feats, stored)[s], raw, ShuttleTrend(hist, Stored(raw)), <<48, 240, 720>>,
             Scaled(TrendConfidence(720, hist), data), AtMost(cold, 850))
  BY <1>1 DEF ShuttleScore, Judge, Judged
<1>7. ShuttleScore(feats, stored)[s].facts.cycles \in Nat
  BY <1>1 DEF ShuttleScore, Judge, ShuttleFeature
<1> HIDE DEF raw, hist, cold, data
<1>8. TrendOK(ShuttleTrend(hist, Stored(raw)))
  BY <1>2, <1>3, ShuttleTrendOK DEF RawOK
<1>9. Confidence(Scaled(TrendConfidence(720, hist), data))
  BY <1>2, <1>4, TrendConfidenceOK, ScaledOK
<1>10. VerdictOK(ShuttleScore(feats, stored)[s])
  BY <1>3, <1>5, <1>6, <1>8, <1>9, JudgedOK, BandsAre
<1> QED
  BY <1>7, <1>10


-----------------------------------------------------------------------------
(* The tracker module *)

TrackerFeature(f) ==
    /\ f.bad \in Nat /\ f.recent \in Nat /\ f.shuttles \in Nat /\ f.liftErrors \in Nat
    /\ f.z \in Int

LEMMA TrackerFeaturesOK ==
    ASSUME NEW b, TrackerBundle(b), NEW p \in DOMAIN TrackerFeatures(b)
    PROVE  TrackerFeature(TrackerFeatures(b)[p])
<1> DEFINE rows   == {i \in DOMAIN b.rows : b.rows[i].place # ""}
           places == {b.rows[i].place : i \in rows}
           ages   == {b.rows[i].age : i \in rows} \ {None}
           active == AtMost(7, b.days)
           at(q)  == {i \in rows : b.rows[i].place = q}
           recent == {i \in rows : b.rows[i].age # None /\ b.rows[i].age - Min(ages) <= active}
           counts == [q \in places |-> Cardinality(at(q))]
           named  == {i \in at(p) : b.rows[i].shuttle # ""}
           units  == [i \in named |-> b.rows[i].shuttle]
           lifts  == {i \in at(p) : b.rows[i].liftError}
           f      == TrackerFeatures(b)[p]
<1>1. p \in places
  BY DEF TrackerFeatures
<1>2. /\ f.bad = counts[p]
      /\ f.recent = Cardinality(at(p) \cap recent)
      /\ f.shuttles = Cardinality(Range(units))
      /\ f.liftErrors = Cardinality(lifts)
      /\ f.z = RobustZ(counts[p], counts)
  BY <1>1 DEF TrackerFeatures
<1>3. \A q : IsFiniteSet(at(q)) /\ Cardinality(at(q)) \in Nat
  BY CountNat DEF TrackerBundle
<1>4. Whole(counts) /\ counts[p] \in Nat
  <2>1. IsFiniteSet(places)
    <3> DEFINE g == [i \in rows |-> b.rows[i].place]
    <3>1. IsFiniteSet(rows)
      BY CountNat DEF TrackerBundle
    <3>2. DOMAIN g = rows /\ places = {g[i] : i \in DOMAIN g}
      OBVIOUS
    <3> HIDE DEF g, rows
    <3> QED
      BY <3>1, <3>2, RangeFinite
  <2> HIDE DEF places, at
  <2> QED
    BY <1>1, <1>3, <2>1 DEF Whole
<1>5. /\ Cardinality(at(p) \cap recent) \in Nat
      /\ Cardinality(lifts) \in Nat
      /\ IsFiniteSet(named)
  <2>1. at(p) \cap recent \in SUBSET at(p) /\ lifts \in SUBSET at(p) /\ named \in SUBSET at(p)
    OBVIOUS
  <2> HIDE DEF at, recent, lifts, named
  <2> QED
    BY <1>3, <2>1, CountNat
<1>6. Cardinality(Range(units)) \in Nat
  <2>1. DOMAIN units = named
    OBVIOUS
  <2> HIDE DEF units, named
  <2> QED
    BY <1>5, <2>1, RangeFinite
<1>7. TrackerFeature(f)
  <2> HIDE DEF f, at, recent, lifts, units, counts
  <2>1. RobustZ(counts[p], counts) \in Int
    BY <1>4, RobustZInt
  <2> QED
    BY <1>2, <1>4, <1>5, <1>6, <2>1 DEF TrackerFeature
<1> QED
  BY <1>7

LEMMA TrackerPoints ==
    ASSUME NEW f, TrackerFeature(f), NEW runs \in Nat
    PROVE  Points(TrackerPenalties(f, runs))
<1>1. /\ Capped(8 * U * (f.bad - f.recent), 34) \in Nat
      /\ Capped(9 * U * f.recent, 30) \in Nat
      /\ Capped(7 * U * runs, 30) \in Nat
      /\ Capped(5 * U * (f.shuttles - 1), 15) \in Nat
      /\ Capped(6 * U * f.liftErrors, 12) \in Nat
      /\ Capped(50 * f.z, 12) \in Nat
  BY DEF Capped, AtMost, Positive, U, TrackerFeature
<1> QED
  BY <1>1 DEF TrackerPenalties, Points

LEMMA TrackerScoreOK ==
    ASSUME NEW feats, NEW stored, StoreOK(stored), NEW p \in DOMAIN TrackerScore(feats, stored),
           TrackerFeature(feats[p])
    PROVE  VerdictOK(TrackerScore(feats, stored)[p])
<1> DEFINE hist == History(stored, p)
           f    == feats[p]
           runs == Len(hist)
           raw  == ScoreOf(Total(TrackerPenalties(f, runs)))
           cold == 420 + (300 * AtMost(f.bad, 4)) \div 4 + (IF runs = 0 THEN 0 ELSE 120)
<1>1. p \in DOMAIN feats
  BY DEF TrackerScore
<1>2. RowsOK(hist)
  BY HistoryOK
<1>3. RawOK(raw)
  BY <1>2, TrackerPoints, RawIsOK DEF RowsOK
<1>4. Confidence(AtMost(cold, 850))
  <2>1. cold \in Nat
    <3>1. AtMost(f.bad, 4) \in Nat
      BY DEF TrackerFeature, AtMost
    <3>2. \A x \in Nat : (300 * x) \div 4 \in Nat
      OBVIOUS
    <3> HIDE DEF runs
    <3> QED
      BY <3>1, <3>2
  <2> HIDE DEF cold
  <2> QED
    BY <2>1, ConfidenceIs
<1>5. Judged(TrackerScore(feats, stored)[p], raw, Trend(hist, Stored(raw)), <<48, 240, 720>>,
             TrendConfidence(720, hist), AtMost(cold, 850))
  BY <1>1 DEF TrackerScore, Judge, Judged
<1> HIDE DEF raw, hist, cold
<1>6. TrendOK(Trend(hist, Stored(raw))) /\ Confidence(TrendConfidence(720, hist))
  BY <1>2, <1>3, TrendIsOK, TrendConfidenceOK DEF RawOK
<1> QED
  BY <1>3, <1>4, <1>5, <1>6, JudgedOK, BandsAre


-----------------------------------------------------------------------------
(* The conveyor module *)

ConveyorFeature(f) ==
    /\ f.samples \in Nat /\ f.mean \in Nat /\ f.peak \in Nat /\ f.p90 \in Nat
    /\ f.severe \in Nat /\ f.buffer \in Nat /\ f.idle \in Nat
    /\ f.z \in Int /\ f.idleZ \in Int

(* How many rows there are per sample does not move the 90th percentile out  *)
(* of the samples.                                                           *)
LEMMA Ninetieth ==
    ASSUME NEW n \in Nat \ {0}
    PROVE  1 + (9 * (PerSample * n - 1)) \div (10 * PerSample) \in 1..n
BY SMT DEF PerSample

LEMMA ConveyorFeaturesOK ==
    ASSUME NEW b, ConveyorBundle(b), NEW z \in DOMAIN ConveyorFeatures(b)
    PROVE  ConveyorFeature(ConveyorFeatures(b)[z])
<1> DEFINE ratio(x, most) == (x * U) \div most
           load(y)  == [i \in {j \in DOMAIN b.zones[y] : b.zones[y][j].limit # 0} |->
                            ratio(b.zones[y][i].actual, b.zones[y][i].limit)]
           queue(y) == [i \in {j \in DOMAIN b.zones[y] : b.zones[y][j].bufferLimit # 0} |->
                            ratio(b.zones[y][i].buffer, b.zones[y][i].bufferLimit)]
           part(S, all) == IF all = {} THEN 0 ELSE Rounded(Cardinality(S) * U, Cardinality(all))
           idle(y)  == part({i \in DOMAIN b.zones[y] : b.zones[y][i].actual = 0}, DOMAIN b.zones[y])
           high(v)  == LET n == PerSample * Cardinality(DOMAIN v)
                       IN  IF n = 0 THEN 0 ELSE Nth(v, 1 + (9 * (n - 1)) \div (10 * PerSample))
           loads    == [y \in DOMAIN b.zones |-> Mean(load(y))]
           idles    == [y \in DOMAIN b.zones |-> idle(y)]
           v == load(z)
           heavy == {i \in DOMAIN v : 2 * v[i] >= 3 * U}
           f == ConveyorFeatures(b)[z]
<1>1. z \in DOMAIN b.zones
  BY DEF ConveyorFeatures
<1>2. /\ f.samples = PerSample * Len(b.zones[z])
      /\ f.mean = Mean(v) /\ f.peak = Max({0} \cup Range(v)) /\ f.p90 = high(v)
      /\ f.severe = part(heavy, DOMAIN v) /\ f.buffer = Mean(queue(z)) /\ f.idle = idle(z)
      /\ f.z = RobustZ(loads[z], loads) /\ f.idleZ = RobustZ(idles[z], idles)
  BY <1>1 DEF ConveyorFeatures
<1>3. ASSUME NEW y \in DOMAIN b.zones
      PROVE  /\ IsFiniteSet(DOMAIN b.zones[y]) /\ Len(b.zones[y]) \in Nat
             /\ \A i \in DOMAIN b.zones[y] : b.zones[y][i] \in Samples
  <2>1. b.zones[y] \in Seq(Samples)
    BY <1>3 DEF ConveyorBundle
  <2>2. DOMAIN b.zones[y] = 1..Len(b.zones[y]) /\ Len(b.zones[y]) \in Nat
    BY <2>1
  <2>3. IsFiniteSet(1..Len(b.zones[y]))
    BY <2>2, FS_Interval
  <2>4. \A i \in 1..Len(b.zones[y]) : b.zones[y][i] \in Samples
    BY <2>1
  <2> QED
    BY <2>2, <2>3, <2>4
<1>4. \A x \in Nat, y \in Nat : y # 0 => ratio(x, y) \in Nat
  BY SMT DEF U
<1>5. ASSUME NEW y \in DOMAIN b.zones
      PROVE  /\ IsFiniteSet(DOMAIN load(y)) /\ \A i \in DOMAIN load(y) : load(y)[i] \in Nat
             /\ IsFiniteSet(DOMAIN queue(y)) /\ \A i \in DOMAIN queue(y) : queue(y)[i] \in Nat
  <2> HIDE DEF ratio
  <2>1. \A i \in DOMAIN b.zones[y] : /\ b.zones[y][i].actual \in Nat /\ b.zones[y][i].limit \in Nat
                                     /\ b.zones[y][i].buffer \in Nat /\ b.zones[y][i].bufferLimit \in Nat
    BY <1>3, <1>5 DEF Samples
  <2>2. IsFiniteSet(DOMAIN load(y)) /\ IsFiniteSet(DOMAIN queue(y))
    BY <1>3, <1>5, CountNat
  <2> QED
    BY <1>4, <2>1, <2>2
<1>6. \A S, all : IsFiniteSet(all) /\ S \subseteq all => part(S, all) \in Nat
  <2> SUFFICES ASSUME NEW S, NEW all, IsFiniteSet(all), S \subseteq all
               PROVE  part(S, all) \in Nat
    OBVIOUS
  <2>1. Cardinality(S) \in Nat
    BY CountNat
  <2>2. Cardinality(S) * U \in Nat
    BY <2>1 DEF U
  <2>3. all # {} => Cardinality(all) \in Nat \ {0}
    BY FS_CardinalityType, FS_EmptySet
  <2> QED
    BY <2>2, <2>3, RoundedPart
<1>7. \A y \in DOMAIN b.zones : Mean(load(y)) \in Nat /\ Mean(queue(y)) \in Nat /\ idle(y) \in Nat
  <2> SUFFICES ASSUME NEW y \in DOMAIN b.zones
               PROVE  Mean(load(y)) \in Nat /\ Mean(queue(y)) \in Nat /\ idle(y) \in Nat
    OBVIOUS
  <2> HIDE DEF load, queue, part
  <2>1. Mean(load(y)) \in Nat /\ Mean(queue(y)) \in Nat
    BY <1>5, MeanNat
  <2>2. idle(y) \in Nat
    BY <1>3, <1>6
  <2> QED
    BY <2>1, <2>2
<1>8. Whole(loads) /\ Whole(idles) /\ loads[z] \in Nat /\ idles[z] \in Nat
  <2>1. IsFiniteSet(DOMAIN b.zones)
    BY DEF ConveyorBundle
  <2> DEFINE Z == DOMAIN b.zones
  <2>2. \A y \in Z : Mean(load(y)) \in Nat /\ idle(y) \in Nat
    BY <1>7
  <2>3. z \in Z /\ IsFiniteSet(Z)
    BY <1>1, <2>1
  <2>4. loads = [y \in Z |-> Mean(load(y))] /\ idles = [y \in Z |-> idle(y)]
    OBVIOUS
  <2> HIDE DEF load, idle, Z, loads, idles
  <2>5. /\ DOMAIN loads = Z /\ DOMAIN idles = Z
        /\ \A y \in Z : loads[y] \in Nat /\ idles[y] \in Nat
    BY <2>2, <2>4
  <2>6. \A y \in Z : loads[y] \in Int /\ idles[y] \in Int
    BY <2>5
  <2> QED
    BY <2>3, <2>5, <2>6 DEF Whole
<1>9. IsFiniteSet(DOMAIN v) /\ \A i \in DOMAIN v : v[i] \in Nat
  BY <1>1, <1>5
<1> HIDE DEF v
<1>10. Max({0} \cup Range(v)) \in Nat
  <2> DEFINE D == {0} \cup Range(v)
  <2>1. IsFiniteSet(Range(v)) /\ Range(v) \subseteq Nat
    <3>1. IsFiniteSet({v[i] : i \in DOMAIN v}) /\ Range(v) = {v[i] : i \in DOMAIN v}
      BY <1>9, RangeFinite
    <3>2. {v[i] : i \in DOMAIN v} \subseteq Nat
      BY <1>9
    <3> QED
      BY <3>1, <3>2
  <2>2. D = Range(v) \cup {0}
    OBVIOUS
  <2>3. IsFiniteSet(D)
    BY <2>1, <2>2, FS_AddElement
  <2>4. D \subseteq Nat /\ D # {} /\ D \subseteq Int
    BY <2>1
  <2> HIDE DEF D
  <2>5. Max(D) \in D
    BY <2>3, <2>4, MinMax
  <2> QED
    BY <2>4, <2>5 DEF D
<1>11. high(v) \in Nat
  <2> DEFINE n == Cardinality(DOMAIN v)
             k == 1 + (9 * (PerSample * n - 1)) \div (10 * PerSample)
  <2>1. n \in Nat
    BY <1>9, FS_CardinalityType
  <2>2. CASE n = 0
    <3>1. PerSample * Cardinality(DOMAIN v) = 0
      BY <2>2 DEF PerSample
    <3> QED
      BY <3>1
  <2>3. CASE n # 0
    <3>1. PerSample * n # 0
      BY <2>1, <2>3 DEF PerSample
    <3>2. high(v) = Nth(v, k)
      BY <3>1
    <3>3. k \in 1..n
      <4> HIDE DEF n
      <4> QED
        BY <2>1, <2>3, Ninetieth
    <3> HIDE DEF k
    <3>4. Whole(v)
      BY <1>9 DEF Whole
    <3>5. Nth(v, k) \in {v[i] : i \in DOMAIN v}
      BY <3>3, <3>4, NthIsThere
    <3> HIDE DEF high
    <3> QED
      BY <1>9, <3>2, <3>5
  <2> QED
    BY <2>2, <2>3
<1>12. part(heavy, DOMAIN v) \in Nat
  <2>1. heavy \subseteq DOMAIN v
    OBVIOUS
  <2> HIDE DEF heavy, part
  <2> QED
    BY <1>6, <1>9, <2>1
<1>13. Mean(v) \in Nat
  BY <1>9, MeanNat
<1>14. PerSample * Len(b.zones[z]) \in Nat
  BY <1>1, <1>3 DEF PerSample
<1>15. RobustZ(loads[z], loads) \in Int /\ RobustZ(idles[z], idles) \in Int
  <2> HIDE DEF loads, idles
  <2> QED
    BY <1>8, RobustZInt
<1>16. ConveyorFeature(f)
  <2>1. Mean(queue(z)) \in Nat /\ idle(z) \in Nat
    BY <1>1, <1>7
  <2> HIDE DEF f, loads, idles, high, part, heavy, queue, idle
  <2> QED
    BY <1>2, <1>10, <1>11, <1>12, <1>13, <1>14, <1>15, <2>1 DEF ConveyorFeature
<1> QED
  BY <1>16

LEMMA ConveyorPoints ==
    ASSUME NEW f, ConveyorFeature(f)
    PROVE  Points(ConveyorPenalties(f))
<1>1. /\ Capped(40 * (f.mean - U), 35) \in Nat
      /\ Capped(30 * f.severe, 25) \in Nat
      /\ Capped(15 * (f.peak - 2 * U), 15) \in Nat
      /\ Capped(25 * (f.buffer - 3000), 18) \in Nat
      /\ Capped(60 * f.z, 18) \in Nat
      /\ Capped(12 * (f.p90 - U), 12) \in Nat
      /\ Capped(IF f.idleZ >= 1000 THEN 100 * (f.idle - 4000) ELSE 0, 55) \in Nat
  BY DEF Capped, AtMost, Positive, U, ConveyorFeature
<1> QED
  BY <1>1 DEF ConveyorPenalties, Points

LEMMA ConveyorScoreOK ==
    ASSUME NEW feats, NEW stored, StoreOK(stored), NEW z \in DOMAIN ConveyorScore(feats, stored),
           ConveyorFeature(feats[z])
    PROVE  VerdictOK(ConveyorScore(feats, stored)[z])
<1> DEFINE hist == History(stored, z)
           f    == feats[z]
           raw  == ScoreOf(Total(ConveyorPenalties(f)))
           data == Share(f.samples, 500)
           cold == 450 + (400 * data) \div 1000 + (IF hist = <<>> THEN 0 ELSE 100)
<1>1. z \in DOMAIN feats
  BY DEF ConveyorScore
<1>2. RowsOK(hist)
  BY HistoryOK
<1>3. RawOK(raw)
  BY ConveyorPoints, RawIsOK
<1>4. data \in Nat /\ data <= 1000
  BY ShareOK DEF ConveyorFeature
<1>5. Confidence(AtMost(cold, 850))
  <2>1. cold \in Nat
    <3> HIDE DEF data, hist
    <3> QED
      BY <1>4
  <2> HIDE DEF cold
  <2> QED
    BY <2>1, ConfidenceIs
<1>6. Judged(ConveyorScore(feats, stored)[z], raw, Trend(hist, Stored(raw)), <<24, 96, 336>>,
             Scaled(TrendConfidence(720, hist), data), AtMost(cold, 850))
  BY <1>1 DEF ConveyorScore, Judge, Judged
<1> HIDE DEF raw, hist, cold, data
<1>7. TrendOK(Trend(hist, Stored(raw))) /\ Confidence(Scaled(TrendConfidence(720, hist), data))
  BY <1>2, <1>3, <1>4, TrendIsOK, TrendConfidenceOK, ScaledOK DEF RawOK
<1> QED
  BY <1>3, <1>5, <1>6, <1>7, JudgedOK, BandsAre


-----------------------------------------------------------------------------
(* The bin module *)

BinFeature(f) == f.age \in Nat /\ f.totes \in Nat /\ f.past \in Nat /\ f.z \in Int

(* The clock of the run is moved to the newest row when it is behind it, so  *)
(* no block has an age below 0.                                              *)
LEMMA BinFeaturesOK ==
    ASSUME NEW b, BinBundle(b), NEW s \in DOMAIN BinFeatures(b)
    PROVE  BinFeature(BinFeatures(b)[s])
<1> DEFINE slots  == {r.slot : r \in b.blocked}
           all    == {0} \cup {r.age : r \in b.blocked}
           ahead  == Min({0} \cup {r.age : r \in b.blocked})
           at(t)  == {r \in b.blocked : r.slot = t}
           age(t) == Max({r.age - ahead : r \in at(t)})
           ages   == [t \in slots |-> 1000 * age(t)]
           f      == BinFeatures(b)[s]
<1>1. s \in slots
  BY DEF BinFeatures
<1>2. /\ f.age = age(s)
      /\ f.totes = Cardinality({r.tote : r \in at(s)})
      /\ f.past = IF s \in DOMAIN b.past THEN b.past[s] ELSE 0
      /\ f.z = RobustZ(ages[s], ages)
  BY <1>1 DEF BinFeatures
<1>3. ahead \in Int /\ \A r \in b.blocked : ahead <= r.age
  <2> DEFINE g == [r \in b.blocked |-> r.age]
  <2>1. DOMAIN g = b.blocked /\ {r.age : r \in b.blocked} = {g[r] : r \in DOMAIN g}
    OBVIOUS
  <2> HIDE DEF g
  <2>2. IsFiniteSet({r.age : r \in b.blocked})
    BY <2>1, RangeFinite DEF BinBundle
  <2>3. all = {r.age : r \in b.blocked} \cup {0}
    OBVIOUS
  <2>4. IsFiniteSet(all)
    BY <2>2, <2>3, FS_AddElement
  <2>5. all \subseteq Int /\ all # {} /\ \A r \in b.blocked : r.age \in all
    BY DEF BinBundle
  <2>6. ahead = Min(all)
    OBVIOUS
  <2> HIDE DEF all, ahead
  <2> QED
    BY <2>4, <2>5, <2>6, MinMax
<1>4. ASSUME NEW t \in slots PROVE age(t) \in Nat
  <2> DEFINE g == [r \in at(t) |-> r.age - ahead]
             D == {r.age - ahead : r \in at(t)}
  <2>1. IsFiniteSet(at(t)) /\ at(t) # {}
    BY <1>4, CountNat DEF BinBundle
  <2>2. DOMAIN g = at(t) /\ D = {g[r] : r \in DOMAIN g}
    OBVIOUS
  <2> HIDE DEF ahead
  <2>3. D \subseteq Nat
    <3>1. \A r \in at(t) : r.age \in Int /\ ahead <= r.age
      BY <1>3 DEF BinBundle
    <3>2. \A r \in at(t) : r.age - ahead \in Nat
      BY <1>3, <3>1
    <3> QED
      BY <3>2
  <2>4. D # {}
    BY <2>1
  <2>5. age(t) = Max(D)
    OBVIOUS
  <2> HIDE DEF g, D, age, at
  <2>6. IsFiniteSet(D)
    BY <2>1, <2>2, RangeFinite
  <2>7. D \subseteq Int
    BY <2>3
  <2>8. Max(D) \in D
    BY <2>4, <2>6, <2>7, MinMax
  <2> QED
    BY <2>3, <2>5, <2>8
<1>5. RobustZ(ages[s], ages) \in Int
  <2> DEFINE g == [r \in b.blocked |-> r.slot]
  <2>1. DOMAIN g = b.blocked /\ slots = {g[r] : r \in DOMAIN g}
    OBVIOUS
  <2> HIDE DEF g
  <2>2. IsFiniteSet(slots)
    BY <2>1, RangeFinite DEF BinBundle
  <2> HIDE DEF slots, age
  <2>3. Whole(ages) /\ ages[s] \in Int
    BY <1>1, <1>4, <2>2 DEF Whole
  <2> QED
    BY <2>3, RobustZInt
<1>6. Cardinality({r.tote : r \in at(s)}) \in Nat
  <2> DEFINE g == [r \in at(s) |-> r.tote]
  <2>1. DOMAIN g = at(s) /\ {r.tote : r \in at(s)} = {g[r] : r \in DOMAIN g}
    OBVIOUS
  <2>2. IsFiniteSet(at(s))
    BY CountNat DEF BinBundle
  <2> HIDE DEF g, at
  <2>3. IsFiniteSet({r.tote : r \in at(s)})
    BY <2>1, <2>2, RangeFinite
  <2> QED
    BY <2>3, FS_CardinalityType
<1>7. (IF s \in DOMAIN b.past THEN b.past[s] ELSE 0) \in Nat
  BY DEF BinBundle
<1>8. age(s) \in Nat
  BY <1>1, <1>4
<1>9. BinFeature(f)
  <2> HIDE DEF f, age, ages, at
  <2> QED
    BY <1>2, <1>5, <1>6, <1>7, <1>8 DEF BinFeature
<1> QED
  BY <1>9

LEMMA BinPoints ==
    ASSUME NEW f, BinFeature(f), NEW runs \in Nat
    PROVE  Points(BinPenalties(f, runs))
<1>1. (4 * U * f.past) \div 10 \in Nat
  BY DEF BinFeature, U
<1> DEFINE past == (4 * U * f.past) \div 10
<1> HIDE DEF past
<1>2. /\ Capped(10 * U, 10) \in Nat
      /\ Capped(2 * U * (f.age - 2), 35) \in Nat
      /\ Capped(12 * U * (f.totes - 1), 24) \in Nat
      /\ Capped(past, 12) \in Nat
      /\ Capped(8 * U * runs, 40) \in Nat
      /\ Capped(IF f.age < 6 THEN 0 ELSE 40 * f.z, 14) \in Nat
  BY <1>1 DEF Capped, AtMost, Positive, U, BinFeature, past
<1> QED
  BY <1>2 DEF BinPenalties, Points, past

LEMMA BinScoreOK ==
    ASSUME NEW feats, NEW stored, StoreOK(stored), NEW s \in DOMAIN BinScore(feats, stored),
           BinFeature(feats[s])
    PROVE  VerdictOK(BinScore(feats, stored)[s])
<1> DEFINE hist == History(stored, s)
           f    == feats[s]
           runs == Len(hist)
           raw  == ScoreOf(Total(BinPenalties(f, runs)))
           evidence == (1000 * f.age) \div 12 + 10 * AtMost(f.past, 50)
                           + (IF runs = 0 THEN 0 ELSE 200)
           cold == 420 + (300 * AtMost(evidence, 1000)) \div 1000
                           + (IF runs = 0 THEN 0 ELSE 120)
<1>1. s \in DOMAIN feats
  BY DEF BinScore
<1>2. RowsOK(hist)
  BY HistoryOK
<1>3. RawOK(raw)
  BY <1>2, BinPoints, RawIsOK DEF RowsOK
<1>4. Confidence(AtMost(cold, 850))
  <2>1. (1000 * f.age) \div 12 \in Nat /\ AtMost(f.past, 50) \in Nat
    BY DEF BinFeature, AtMost
  <2> HIDE DEF runs
  <2>2. evidence \in Nat
    BY <2>1
  <2> HIDE DEF evidence
  <2>3. cold \in Nat
    BY <2>2, ColdPart
  <2> HIDE DEF cold
  <2> QED
    BY <2>3, ConfidenceIs
<1>5. Judged(BinScore(feats, stored)[s], raw, Trend(hist, Stored(raw)), <<48, 240, 720>>,
             TrendConfidence(720, hist), AtMost(cold, 850))
  BY <1>1 DEF BinScore, Judge, Judged
<1> HIDE DEF raw, hist, cold
<1>6. TrendOK(Trend(hist, Stored(raw))) /\ Confidence(TrendConfidence(720, hist))
  BY <1>2, <1>3, TrendIsOK, TrendConfidenceOK DEF RawOK
<1> QED
  BY <1>3, <1>4, <1>5, <1>6, JudgedOK, BandsAre


-----------------------------------------------------------------------------
(* The controller module *)

LEMMA ControllerFeaturesOK ==
    ASSUME NEW b, ControllerBundle(b), NEW n \in DOMAIN ControllerFeatures(b)
    PROVE  ControllerFeatures(b)[n].util \in Nat
<1> DEFINE cell == AtMost(Positive(b.nodes[n].idle), 100 * Percent)
<1>1. ControllerFeatures(b)[n].util = 100 * Percent - cell /\ n \in DOMAIN b.nodes
  BY DEF ControllerFeatures
<1>2. b.nodes[n].idle \in Int
  BY <1>1 DEF ControllerBundle
<1>3. 100 * Percent - cell \in Nat
  BY <1>2, SMT DEF AtMost, Positive, Percent
<1> HIDE DEF cell
<1> QED
  BY <1>1, <1>3

LEMMA ControllerPoints ==
    ASSUME NEW f, f.util \in Nat, NEW busy \in Nat
    PROVE  Points(ControllerPenalties(f, busy))
<1>1. /\ Capped(25 * (f.util - 60 * Percent), 70) \in Nat
      /\ Capped(6 * U * (busy - 1), 30) \in Nat
  BY DEF Capped, AtMost, Positive, U, Percent
<1> QED
  BY <1>1 DEF ControllerPenalties, Points

LEMMA BusyRunsNat ==
    ASSUME NEW f, NEW hist, RowsOK(hist)
    PROVE  BusyRuns(f, hist) \in Nat
<1> DEFINE S == {i \in DOMAIN hist : hist[i].facts.util < 80 * Percent}
<1>1. S \in SUBSET DOMAIN hist
  OBVIOUS
<1>2. BusyRuns(f, hist) = IF f.util < 80 * Percent THEN 0 ELSE Min(S \cup {Len(hist) + 1})
  BY DEF BusyRuns
<1> HIDE DEF S
<1>3. Min(S \cup {Len(hist) + 1}) \in Nat
  BY <1>1, CountRows
<1> QED
  BY <1>2, <1>3

(* A node asks the meta module to look exactly when it is warn or critical.  *)
LEMMA ControllerScoreOK ==
    ASSUME NEW feats, NEW stored, StoreOK(stored), NEW n \in DOMAIN ControllerScore(feats, stored),
           feats[n].util \in Nat
    PROVE  LET v == ControllerScore(feats, stored)[n]
           IN  VerdictOK(v) /\ (Escalates(v.tier) => "meta" \in v.cross)
<1> DEFINE hist == History(stored, n)
           f    == feats[n]
           raw  == ScoreOf(Total(ControllerPenalties(f, BusyRuns(f, hist))))
           cold == 550 + (250 * AtMost(Len(hist), MinRunsForTrend)) \div MinRunsForTrend
                       + (IF hist = <<>> THEN 0 ELSE 50)
           v    == ControllerScore(feats, stored)[n]
<1>1. n \in DOMAIN feats
  BY DEF ControllerScore
<1>2. RowsOK(hist)
  BY HistoryOK
<1>3. RawOK(raw)
  BY <1>2, BusyRunsNat, ControllerPoints, RawIsOK
<1>4. Confidence(AtMost(cold, 900))
  <2>1. cold \in Nat
    BY <1>2, ColdRuns
  <2> HIDE DEF cold
  <2> QED
    BY <2>1, ConfidenceIs
<1>5. Judged(v, raw, Trend(hist, Stored(raw)), <<24, 96, 336>>,
             TrendConfidence(720, hist), AtMost(cold, 900))
  BY <1>1 DEF ControllerScore, Judge, Judged
<1>6. Escalates(v.tier) => "meta" \in v.cross
  BY <1>1 DEF ControllerScore, Judge
<1> HIDE DEF raw, hist, cold, v
<1>7. TrendOK(Trend(hist, Stored(raw))) /\ Confidence(TrendConfidence(720, hist))
  BY <1>2, <1>3, TrendIsOK, TrendConfidenceOK DEF RawOK
<1>8. VerdictOK(v)
  BY <1>3, <1>4, <1>5, <1>7, JudgedOK, BandsAre
<1> QED
  BY <1>6, <1>8 DEF v


-----------------------------------------------------------------------------
(* The network module *)

NetworkFeature(f) == f.down \in Nat /\ f.today \in Int /\ f.z \in Int

LEMMA NetworkFeaturesOK ==
    ASSUME NEW b, NetworkBundle(b), NEW s \in DOMAIN NetworkFeatures(b)
    PROVE  NetworkFeature(NetworkFeatures(b)[s])
<1> DEFINE down(up) == AtMost(Positive(100000 - up), 100000)
           links    == DOMAIN b.window
           pool     == [t \in links |-> down(b.window[t])]
           f        == NetworkFeatures(b)[s]
<1>1. s \in links
  BY DEF NetworkFeatures
<1>2. /\ f.down = pool[s] /\ f.z = RobustZ(pool[s], pool)
      /\ f.today = IF s \in DOMAIN b.today THEN down(b.today[s]) ELSE None
  BY <1>1 DEF NetworkFeatures
<1>3. \A x \in Int : down(x) \in Nat
  BY SMT DEF AtMost, Positive
<1> HIDE DEF down
<1>4. \A t \in links : down(b.window[t]) \in Nat
  BY <1>3 DEF NetworkBundle
<1>5. Whole(pool) /\ pool[s] \in Nat
  <2>1. IsFiniteSet(links)
    BY DEF NetworkBundle
  <2> QED
    BY <1>1, <1>4, <2>1 DEF Whole
<1>6. (IF s \in DOMAIN b.today THEN down(b.today[s]) ELSE None) \in Int
  BY <1>3 DEF NetworkBundle, None
<1> HIDE DEF pool, f
<1>7. RobustZ(pool[s], pool) \in Int
  BY <1>5, RobustZInt
<1> QED
  BY <1>2, <1>5, <1>6, <1>7 DEF NetworkFeature, f

LEMMA NetworkPoints ==
    ASSUME NEW f, NetworkFeature(f), NEW hist, RowsOK(hist)
    PROVE  Points(NetworkPenalties(f, hist))
<1> DEFINE again == Cardinality({i \in DOMAIN hist : hist[i].facts.down >= 6000})
<1>1. again \in Nat
  <2> DEFINE S == {i \in DOMAIN hist : hist[i].facts.down >= 6000}
  <2>1. S \in SUBSET DOMAIN hist
    OBVIOUS
  <2> HIDE DEF S
  <2>2. Cardinality(S) \in Nat
    BY <2>1, CountRows
  <2> QED
    BY <2>2 DEF S
<1> HIDE DEF again
<1>2. /\ Capped(30 * (f.down - 3000), 45) \in Nat
      /\ Capped(IF f.down >= 4000 THEN 40 * f.z ELSE 0, 16) \in Nat
      /\ Capped(IF f.today > f.down THEN 15 * (f.today - 5000) ELSE 0, 20) \in Nat
      /\ Capped(6 * U * again, 30) \in Nat
  BY <1>1 DEF Capped, AtMost, Positive, U, NetworkFeature
<1> QED
  BY <1>2 DEF NetworkPenalties, Points, again

LEMMA NetworkScoreOK ==
    ASSUME NEW feats, NEW stored, StoreOK(stored), NEW s \in DOMAIN NetworkScore(feats, stored),
           NetworkFeature(feats[s])
    PROVE  VerdictOK(NetworkScore(feats, stored)[s])
<1> DEFINE hist == History(stored, s)
           f    == feats[s]
           raw  == ScoreOf(Total(NetworkPenalties(f, hist)))
           cold == 500 + AtMost(f.down \div 40, 250)
                       + (IF f.disclosed THEN 100 ELSE 0)
                       + (IF hist = <<>> THEN 0 ELSE 100)
<1>1. s \in DOMAIN feats
  BY DEF NetworkScore
<1>2. RowsOK(hist)
  BY HistoryOK
<1>3. RawOK(raw)
  BY <1>2, NetworkPoints, RawIsOK
<1>4. Confidence(AtMost(cold, 920))
  <2>1. AtMost(f.down \div 40, 250) \in Nat
    BY DEF NetworkFeature, AtMost
  <2> HIDE DEF hist
  <2>2. cold \in Nat
    BY <2>1
  <2> HIDE DEF cold
  <2> QED
    BY <2>2, ConfidenceIs
<1>5. Judged(NetworkScore(feats, stored)[s], raw, Trend(hist, Stored(raw)), <<48, 240, 720>>,
             TrendConfidence(720, hist), AtMost(cold, 920))
  BY <1>1 DEF NetworkScore, Judge, Judged
<1> HIDE DEF raw, hist, cold
<1>6. TrendOK(Trend(hist, Stored(raw))) /\ Confidence(TrendConfidence(720, hist))
  BY <1>2, <1>3, TrendIsOK, TrendConfidenceOK DEF RawOK
<1> QED
  BY <1>3, <1>4, <1>5, <1>6, JudgedOK, BandsAre


-----------------------------------------------------------------------------
(* The scan devices *)

ScannerFeature(f) == f.scans \in Nat /\ f.misread \in Nat /\ f.z \in Int

LEMMA ScannerFeaturesOK ==
    ASSUME NEW table, ScannerTable(table), NEW owned, NEW d \in DOMAIN ScannerFeatures(table, owned)
    PROVE  /\ ScannerFeature(ScannerFeatures(table, owned)[d])
           /\ ScannerFeatures(table, owned)[d].entity = "scanner"
<1> DEFINE mine     == {e \in DOMAIN table : table[e].subtype \in owned}
           total(e) == table[e].read + table[e].noRead
           misread(e) == IF total(e) = 0 THEN 0
                         ELSE Rounded(100000 * table[e].noRead, total(e))
           busy     == {e \in mine : total(e) >= 200}
           pool     == [e \in busy |-> misread(e)]
           f        == ScannerFeatures(table, owned)[d]
<1>1. d \in mine
  BY DEF ScannerFeatures
<1>2. /\ f.entity = "scanner" /\ f.scans = total(d) /\ f.misread = misread(d)
      /\ f.z = RobustZ(misread(d), pool)
  BY <1>1 DEF ScannerFeatures
<1>3. \A e \in mine : total(e) \in Nat
  BY DEF ScannerTable
<1>4. ASSUME NEW e \in mine PROVE misread(e) \in Nat
  <2>1. 100000 * table[e].noRead \in Nat
    <3>1. table[e].noRead \in Nat
      BY <1>4 DEF ScannerTable
    <3> QED
      BY <3>1, SMT
  <2>2. total(e) \in Nat
    BY <1>3, <1>4
  <2> DEFINE part == Rounded(100000 * table[e].noRead, total(e))
  <2> HIDE DEF total
  <2>3. total(e) # 0 => part \in Nat
    BY <2>1, <2>2, RoundedPart
  <2> HIDE DEF part
  <2>4. misread(e) = IF total(e) = 0 THEN 0 ELSE part
    BY DEF part
  <2> HIDE DEF misread
  <2> QED
    BY <2>3, <2>4
<1> HIDE DEF total, misread
<1>5. Whole(pool) /\ misread(d) \in Nat
  <2>1. IsFiniteSet(busy) /\ busy \subseteq mine
    BY CountNat DEF ScannerTable
  <2> HIDE DEF busy, mine
  <2> QED
    BY <1>1, <1>4, <2>1 DEF Whole
<1> HIDE DEF pool, f, mine
<1>6. RobustZ(misread(d), pool) \in Int
  BY <1>5, RobustZInt
<1> QED
  BY <1>1, <1>2, <1>3, <1>5, <1>6 DEF ScannerFeature, f

LEMMA ScannerPoints ==
    ASSUME NEW f, ScannerFeature(f), NEW hist, RowsOK(hist), NEW minScans
    PROVE  Points(ScannerPenalties(f, hist, minScans))
<1> DEFINE S == {i \in DOMAIN hist : hist[i].facts.misread >= 2000
                                      /\ hist[i].facts.scans >= minScans}
           again == Cardinality(S)
           trusted(x) == (x * AtMost(f.scans, 200)) \div 200
<1>1. again \in Nat
  <2>1. S \in SUBSET DOMAIN hist
    OBVIOUS
  <2> HIDE DEF S
  <2> QED
    BY <2>1, CountRows
<1>2. \A x \in Nat : trusted(x) \in Nat
  <2>1. AtMost(f.scans, 200) \in Nat
    BY DEF ScannerFeature, AtMost
  <2> QED
    BY <2>1
<1> HIDE DEF again, trusted
<1>3. Capped(30 * f.misread, 75) \in Nat
  BY DEF Capped, AtMost, Positive, U, ScannerFeature
<1>4. trusted(Capped(30 * f.misread, 75)) \in Nat
  BY <1>2, <1>3
<1>5. /\ Capped(IF f.scans >= 200 /\ f.misread >= 1000 THEN 40 * f.z ELSE 0, 16) \in Nat
      /\ Capped(6 * U * again, 30) \in Nat
  BY <1>1 DEF Capped, AtMost, Positive, U, ScannerFeature
<1>6. ScannerPenalties(f, hist, minScans) =
        << <<"misread",    trusted(Capped(30 * f.misread, 75))>>,
           <<"peer_z",     Capped(IF f.scans >= 200 /\ f.misread >= 1000 THEN 40 * f.z ELSE 0, 16)>>,
           <<"recurrence", Capped(6 * U * again, 30)>> >>
  BY DEF ScannerPenalties, trusted, again
<1> QED
  BY <1>4, <1>5, <1>6 DEF Points

LEMMA ScannerScoreOK ==
    ASSUME NEW f, ScannerFeature(f), NEW hist, RowsOK(hist), NEW minScans, NEW cross
    PROVE  VerdictOK(ScoreScanner(f, hist, minScans, cross))
<1> DEFINE raw  == ScoreOf(Total(ScannerPenalties(f, hist, minScans)))
           cold == 400 + 2 * AtMost(f.scans, 200) + (IF hist = <<>> THEN 0 ELSE 100)
<1>1. RawOK(raw)
  BY ScannerPoints, RawIsOK
<1>2. Confidence(AtMost(cold, 900))
  <2>1. AtMost(f.scans, 200) \in Nat
    BY DEF ScannerFeature, AtMost
  <2>2. cold \in Nat
    BY <2>1
  <2> HIDE DEF cold
  <2> QED
    BY <2>2, ConfidenceIs
<1>3. Judged(ScoreScanner(f, hist, minScans, cross), raw, Trend(hist, Stored(raw)),
             <<48, 240, 720>>, TrendConfidence(720, hist), AtMost(cold, 900))
  BY DEF ScoreScanner, Judge, Judged
<1> HIDE DEF raw, cold
<1>4. TrendOK(Trend(hist, Stored(raw))) /\ Confidence(TrendConfidence(720, hist))
  BY <1>1, TrendIsOK, TrendConfidenceOK DEF RawOK
<1> QED
  BY <1>1, <1>2, <1>3, <1>4, JudgedOK, BandsAre

LEMMA InARowNat ==
    ASSUME NEW now, NEW hist, RowsOK(hist), NEW S, NEW before \in [DOMAIN hist -> S]
    PROVE  InARow(now, before) \in Nat
<1> DEFINE R == {i \in DOMAIN before : ~before[i]}
<1>1. Len(before) = Len(hist)
  BY LenIs DEF RowsOK
<1>2. R \in SUBSET DOMAIN hist
  OBVIOUS
<1>3. InARow(now, before) = IF ~now THEN 0 ELSE Min(R \cup {Len(hist) + 1})
  BY <1>1 DEF InARow
<1> HIDE DEF R
<1>4. Min(R \cup {Len(hist) + 1}) \in Nat
  BY <1>2, CountRows
<1> QED
  BY <1>3, <1>4


-----------------------------------------------------------------------------
(* The GTP module *)

StationFeature(f) == f.perDay \in Nat /\ f.z \in Int

GtpFeature(f) ==
    IF f.entity = "station" THEN StationFeature(f) ELSE ScannerFeature(f)

LEMMA StationFeaturesOK ==
    ASSUME NEW b, GtpBundle(b), NEW s \in DOMAIN GtpStationFeatures(b)
    PROVE  /\ StationFeature(GtpStationFeatures(b)[s])
           /\ GtpStationFeatures(b)[s].entity = "station"
<1> DEFINE units     == DOMAIN b.roster \cup DOMAIN b.found
           perDay(t) == IF t \in DOMAIN b.found THEN Rounded(1000 * b.found[t], b.days) ELSE 0
           counted   == {t \in DOMAIN b.found : b.found[t] > 0}
           pool      == [t \in counted |-> perDay(t)]
           f         == GtpStationFeatures(b)[s]
<1>1. s \in units
  BY DEF GtpStationFeatures
<1>2. f.entity = "station" /\ f.perDay = perDay(s) /\ f.z = RobustZ(perDay(s), pool)
  BY <1>1 DEF GtpStationFeatures
<1>3. \A t : perDay(t) \in Nat
  <2>1. \A t \in DOMAIN b.found : 1000 * b.found[t] \in Nat
    BY DEF GtpBundle
  <2>2. \A t \in DOMAIN b.found : Rounded(1000 * b.found[t], b.days) \in Nat
    BY <2>1, RoundedPart DEF GtpBundle
  <2> QED
    BY <2>2
<1> HIDE DEF perDay
<1>4. Whole(pool)
  <2>1. IsFiniteSet(counted)
    BY CountNat DEF GtpBundle
  <2> HIDE DEF counted
  <2> QED
    BY <1>3, <2>1 DEF Whole
<1> HIDE DEF pool, f
<1>5. RobustZ(perDay(s), pool) \in Int
  BY <1>3, <1>4, RobustZInt
<1> QED
  BY <1>2, <1>3, <1>5 DEF StationFeature, f

LEMMA GtpFeaturesOK ==
    ASSUME NEW b, GtpBundle(b), NEW c \in DOMAIN GtpFeatures(b)
    PROVE  GtpFeature(GtpFeatures(b)[c])
<1> DEFINE scan == ScannerFeatures(b.scanners, GtpSubtypes)
           station == GtpStationFeatures(b)
<1>1. GtpFeatures(b)[c] = IF c \in DOMAIN station THEN station[c] ELSE scan[c]
  BY DEF GtpFeatures, Together
<1>2. c \in DOMAIN scan \/ c \in DOMAIN station
  BY DEF GtpFeatures, Together
<1>3. c \in DOMAIN scan => ScannerFeature(scan[c]) /\ scan[c].entity = "scanner"
  BY ScannerFeaturesOK DEF GtpBundle
<1>4. c \in DOMAIN station => StationFeature(station[c]) /\ station[c].entity = "station"
  BY StationFeaturesOK
<1> HIDE DEF scan, station
<1> QED
  BY <1>1, <1>2, <1>3, <1>4 DEF GtpFeature

LEMMA StationPoints ==
    ASSUME NEW f, StationFeature(f), NEW hist, RowsOK(hist)
    PROVE  Points(GtpStationPenalties(f, hist))
<1> DEFINE S == {i \in DOMAIN hist : hist[i].facts.perDay > 20000 \/ hist[i].facts.z >= 2000}
           before == [i \in DOMAIN hist |-> hist[i].facts.inactive]
           again == Cardinality(S)
           down  == InARow(f.inactive, before)
<1>1. again \in Nat
  <2>1. S \in SUBSET DOMAIN hist
    OBVIOUS
  <2> HIDE DEF S
  <2> QED
    BY <2>1, CountRows
<1>2. down \in Nat
  <2>1. before \in [DOMAIN hist -> {hist[i].facts.inactive : i \in DOMAIN hist}]
    OBVIOUS
  <2> HIDE DEF before
  <2> QED
    BY <2>1, InARowNat
<1> HIDE DEF again, down
<1>3. /\ Capped(60 * f.z, 40) \in Nat
      /\ Capped(15 * (f.perDay - 20000), 20) \in Nat
      /\ Capped(6 * U * again, 30) \in Nat
      /\ Capped(4 * U * (down - 1), 20) \in Nat
  BY <1>1, <1>2 DEF Capped, AtMost, Positive, U, StationFeature
<1>4. GtpStationPenalties(f, hist) =
        << <<"discrepancy_peer_z",  Capped(60 * f.z, 40)>>,
           <<"discrepancy_abs",     Capped(15 * (f.perDay - 20000), 20)>>,
           <<"recurrence",          Capped(6 * U * again, 30)>>,
           <<"offline_persistence", Capped(4 * U * (down - 1), 20)>> >>
  BY DEF GtpStationPenalties, again, down
<1> QED
  BY <1>3, <1>4 DEF Points

LEMMA StationScoreOK ==
    ASSUME NEW f, StationFeature(f), NEW hist, RowsOK(hist)
    PROVE  VerdictOK(ScoreGtpStation(f, hist))
<1> DEFINE pen  == GtpStationPenalties(f, hist)
           raw  == ScoreOf(Total(pen))
           evidence == f.perDay \div 20 + (IF pen[3][2] > 0 THEN 200 ELSE 0)
                           + (IF f.disclosed THEN 150 ELSE 0)
           cold == 400 + (400 * AtMost(evidence, 1000)) \div 1000
                       + (IF hist = <<>> THEN 0 ELSE 100)
<1>1. RawOK(raw)
  BY StationPoints, RawIsOK
<1>2. Confidence(AtMost(cold, 880))
  <2>1. f.perDay \div 20 \in Nat
    BY DEF StationFeature
  <2> HIDE DEF pen
  <2>2. evidence \in Nat
    BY <2>1
  <2> HIDE DEF evidence
  <2>3. cold \in Nat
    <3>1. (400 * AtMost(evidence, 1000)) \div 1000 \in Nat
      BY <2>2, ColdPart
    <3> DEFINE part == (400 * AtMost(evidence, 1000)) \div 1000
               more == IF hist = <<>> THEN 0 ELSE 100
    <3>2. more \in Nat
      OBVIOUS
    <3> HIDE DEF part, more
    <3>3. 400 + part + more \in Nat /\ 300 + part + more \in Nat
      BY <3>1, <3>2 DEF part
    <3> QED
      BY <3>3 DEF part, more
  <2> HIDE DEF cold
  <2> QED
    BY <2>3, ConfidenceIs
<1>3. Judged(ScoreGtpStation(f, hist), raw, Trend(hist, Stored(raw)),
             <<48, 240, 720>>, TrendConfidence(720, hist), AtMost(cold, 880))
  BY DEF ScoreGtpStation, Judge, Judged
<1> HIDE DEF raw, cold
<1>4. TrendOK(Trend(hist, Stored(raw))) /\ Confidence(TrendConfidence(720, hist))
  BY <1>1, TrendIsOK, TrendConfidenceOK DEF RawOK
<1> QED
  BY <1>1, <1>2, <1>3, <1>4, JudgedOK, BandsAre

(* Naming another module in a verdict leaves what it says of the component.  *)
LEMMA AlsoOK ==
    ASSUME NEW f, NEW hist, NEW minScans, NEW cross, NEW flag
    PROVE  /\ VerdictOK(ScoreScanner(f, hist, minScans, cross))
                => VerdictOK(Also(ScoreScanner(f, hist, minScans, cross), flag))
           /\ VerdictOK(ScoreGtpStation(f, hist)) => VerdictOK(Also(ScoreGtpStation(f, hist), flag))
<1>1. VerdictOK(ScoreScanner(f, hist, minScans, cross))
                => VerdictOK(Also(ScoreScanner(f, hist, minScans, cross), flag))
  BY DEF ScoreScanner, Also, Judge, VerdictOK
<1>2. VerdictOK(ScoreGtpStation(f, hist)) => VerdictOK(Also(ScoreGtpStation(f, hist), flag))
  BY DEF ScoreGtpStation, Also, Judge, VerdictOK
<1> QED
  BY <1>1, <1>2

LEMMA GtpScoreOK ==
    ASSUME NEW feats, NEW stored, StoreOK(stored), NEW c \in DOMAIN GtpScore(feats, stored),
           GtpFeature(feats[c])
    PROVE  VerdictOK(GtpScore(feats, stored)[c])
<1> DEFINE of(d) == IF feats[d].entity = "station" THEN ScoreGtpStation(feats[d], History(stored, d))
                    ELSE ScoreGtpScanner(feats[d], History(stored, d))
           alone == [d \in DOMAIN feats |-> of(d)]
           linked == CrossLinked(feats, alone)
<1>1. c \in DOMAIN feats
  BY DEF GtpScore
<1>2. GtpScore(feats, stored)[c] = IF c \in linked THEN Also(of(c), "corroboration") ELSE of(c)
  BY <1>1 DEF GtpScore
<1>3. RowsOK(History(stored, c))
  BY HistoryOK
<1>4. VerdictOK(of(c)) /\ VerdictOK(Also(of(c), "corroboration"))
  <2>1. CASE feats[c].entity = "station"
    BY <1>3, <2>1, StationScoreOK, AlsoOK DEF GtpFeature
  <2>2. CASE feats[c].entity # "station"
    BY <1>3, <2>2, ScannerScoreOK, AlsoOK DEF GtpFeature, ScoreGtpScanner
  <2> QED
    BY <2>1, <2>2
<1> HIDE DEF of, linked
<1> QED
  BY <1>2, <1>4


-----------------------------------------------------------------------------
(* The decant module *)

DecantFeature(f) == f.entity # "station" => ScannerFeature(f)

LEMMA DecantFeaturesOK ==
    ASSUME NEW b, DecantBundle(b), NEW c \in DOMAIN DecantFeatures(b)
    PROVE  DecantFeature(DecantFeatures(b)[c])
<1> DEFINE scan == DecantScannerFeatures(b)
           station == DecantStationFeatures(b)
<1>1. DecantFeatures(b)[c] = IF c \in DOMAIN station THEN station[c] ELSE scan[c]
  BY DEF DecantFeatures, Together
<1>2. c \in DOMAIN scan \/ c \in DOMAIN station
  BY DEF DecantFeatures, Together
<1>3. c \in DOMAIN scan => ScannerFeature(scan[c])
  BY ScannerFeaturesOK DEF DecantBundle, DecantScannerFeatures
<1>4. c \in DOMAIN station => station[c].entity = "station"
  BY DEF DecantStationFeatures
<1> HIDE DEF scan, station
<1> QED
  BY <1>1, <1>2, <1>3, <1>4 DEF DecantFeature

(* Naming another module in a verdict leaves what it says of the component.  *)
LEMMA AlsoKeeps ==
    ASSUME NEW raw, NEW trend, NEW bands, NEW trendConf, NEW coldConf, NEW cause, NEW cross,
           NEW facts, NEW flag,
           VerdictOK(Judge(raw, trend, bands, trendConf, coldConf, cause, cross, facts))
    PROVE  VerdictOK(Also(Judge(raw, trend, bands, trendConf, coldConf, cause, cross, facts), flag))
BY DEF Also, Judge, VerdictOK

LEMMA DecantStationScoreOK ==
    ASSUME NEW f, NEW hist, RowsOK(hist), NEW flag
    PROVE  /\ VerdictOK(ScoreDecantStation(f, hist))
           /\ VerdictOK(Also(ScoreDecantStation(f, hist), flag))
<1> DEFINE off  == [i \in DOMAIN hist |-> hist[i].facts.inactive]
           rest == [i \in DOMAIN hist |-> hist[i].facts.idle]
           down == InARow(f.inactive, off)
           idle == InARow(f.idle, rest)
           pen  == << <<"offline_persistence", Capped(4 * U * (down - 1), 20)>>,
                      <<"idle_recurrence",     Capped(6 * U * (idle - 1), 40)>> >>
           raw  == ScoreOf(Total(pen))
           evidence == 250 * Positive(down - 1) + 250 * Positive(idle - 1)
                           + (IF f.disclosed THEN 300 ELSE 0)
           cold == 300 + (400 * AtMost(evidence, 1000)) \div 1000
                       + (IF hist = <<>> THEN 0 ELSE 100)
           trend == AtMost(TrendConfidence(720, hist), 950)
           facts == [inactive |-> f.inactive, idle |-> f.idle]
<1>1. ScoreDecantStation(f, hist) = Judge(raw, Trend(hist, Stored(raw)), <<48, 240, 720>>, trend,
                                          AtMost(cold, 750), DecantCause(f, pen), {}, facts)
  BY DEF ScoreDecantStation
<1>2. down \in Nat /\ idle \in Nat
  <2>1. /\ off \in [DOMAIN hist -> {hist[i].facts.inactive : i \in DOMAIN hist}]
        /\ rest \in [DOMAIN hist -> {hist[i].facts.idle : i \in DOMAIN hist}]
    OBVIOUS
  <2> HIDE DEF off, rest
  <2> QED
    BY <2>1, InARowNat
<1> HIDE DEF down, idle
<1>3. RawOK(raw)
  <2>1. Capped(4 * U * (down - 1), 20) \in Nat /\ Capped(6 * U * (idle - 1), 40) \in Nat
    BY <1>2 DEF Capped, AtMost, Positive, U
  <2>2. Points(pen)
    BY <2>1 DEF Points
  <2> HIDE DEF pen
  <2> QED
    BY <2>2, RawIsOK
<1>4. Confidence(AtMost(cold, 750))
  <2>1. evidence \in Nat
    BY <1>2 DEF Positive
  <2> HIDE DEF evidence
  <2>2. cold \in Nat
    <3>1. (400 * AtMost(evidence, 1000)) \div 1000 \in Nat
      BY <2>1, ColdPart
    <3> DEFINE part == (400 * AtMost(evidence, 1000)) \div 1000
               more == IF hist = <<>> THEN 0 ELSE 100
    <3>2. more \in Nat
      OBVIOUS
    <3> HIDE DEF part, more
    <3>3. 400 + part + more \in Nat /\ 300 + part + more \in Nat
      BY <3>1, <3>2 DEF part
    <3> QED
      BY <3>3 DEF part, more
  <2> HIDE DEF cold
  <2> QED
    BY <2>2, ConfidenceIs
<1>5. Confidence(trend)
  <2>1. TrendConfidence(720, hist) \in Nat
    BY TrendConfidenceOK DEF Confidence
  <2> QED
    BY <2>1, ConfidenceIs
<1> HIDE DEF raw, cold, trend
<1> DEFINE cause == DecantCause(f, pen)
<1> HIDE DEF facts, cause, pen
<1>6. TrendOK(Trend(hist, Stored(raw)))
  BY <1>3, TrendIsOK DEF RawOK
<1> DEFINE v == Judge(raw, Trend(hist, Stored(raw)), <<48, 240, 720>>, trend,
                      AtMost(cold, 750), cause, {}, facts)
<1>7. Judged(v, raw, Trend(hist, Stored(raw)), <<48, 240, 720>>, trend, AtMost(cold, 750))
  BY DEF Judge, Judged
<1>8. VerdictOK(v)
  <2> HIDE DEF v
  <2> QED
    BY <1>3, <1>4, <1>5, <1>6, <1>7, JudgedOK, BandsAre
<1>9. VerdictOK(Also(v, flag))
  BY <1>8, AlsoKeeps
<1>10. ScoreDecantStation(f, hist) = v
  BY <1>1 DEF cause
<1> HIDE DEF v
<1> QED
  BY <1>8, <1>9, <1>10

LEMMA DecantScoreOK ==
    ASSUME NEW feats, NEW stored, StoreOK(stored), NEW c \in DOMAIN DecantScore(feats, stored),
           DecantFeature(feats[c])
    PROVE  VerdictOK(DecantScore(feats, stored)[c])
<1> DEFINE of(d) == IF feats[d].entity = "station" THEN ScoreDecantStation(feats[d], History(stored, d))
                    ELSE ScoreDecantScanner(feats[d], History(stored, d))
           alone == [d \in DOMAIN feats |-> of(d)]
           line  == LineTrouble(feats, alone)
<1>1. c \in DOMAIN feats
  BY DEF DecantScore
<1>2. DecantScore(feats, stored)[c] = IF c \in line THEN Also(of(c), "corroboration") ELSE of(c)
  BY <1>1 DEF DecantScore
<1>3. RowsOK(History(stored, c))
  BY HistoryOK
<1>4. VerdictOK(of(c)) /\ VerdictOK(Also(of(c), "corroboration"))
  <2>1. CASE feats[c].entity = "station"
    <3>1. /\ VerdictOK(ScoreDecantStation(feats[c], History(stored, c)))
          /\ VerdictOK(Also(ScoreDecantStation(feats[c], History(stored, c)), "corroboration"))
      BY <1>3, DecantStationScoreOK
    <3> QED
      BY <2>1, <3>1
  <2>2. CASE feats[c].entity # "station"
    <3>1. VerdictOK(ScoreDecantScanner(feats[c], History(stored, c)))
      BY <1>3, <2>2, ScannerScoreOK DEF DecantFeature, ScoreDecantScanner
    <3>2. \A f, h : VerdictOK(ScoreDecantScanner(f, h))
                      => VerdictOK(Also(ScoreDecantScanner(f, h), "corroboration"))
      BY DEF ScoreDecantScanner, ScoreScanner, Also, Judge, VerdictOK
    <3> QED
      BY <2>2, <3>1, <3>2
  <2> QED
    BY <2>1, <2>2
<1> HIDE DEF of, line
<1> QED
  BY <1>2, <1>4


-----------------------------------------------------------------------------
(* How many components a run has *)

(* Finitely many rows name finitely many components. *)
LEMMA ImageFinite ==
    ASSUME NEW D, IsFiniteSet(D), NEW f, NEW R, R = {f[i] : i \in D}, DOMAIN f = D
    PROVE  IsFiniteSet(R)
BY RangeFinite

LEMMA LiftFinite ==
    ASSUME NEW b, LiftBundle(b)
    PROVE  IsFiniteSet(DOMAIN LiftFeatures(b))
<1> DEFINE rows == {i \in DOMAIN b.errors : b.errors[i].age # None}
           R    == {b.errors[i].lift : i \in rows}
           g    == [i \in rows |-> b.errors[i].lift]
<1>1. DOMAIN LiftFeatures(b) = R
  BY DEF LiftFeatures
<1>2. IsFiniteSet(rows) /\ DOMAIN g = rows /\ R = {g[i] : i \in rows}
  BY CountNat DEF LiftBundle
<1> HIDE DEF rows, g, R
<1> QED
  BY <1>1, <1>2, ImageFinite

LEMMA ShuttleFinite ==
    ASSUME NEW b, ShuttleBundle(b)
    PROVE  IsFiniteSet(DOMAIN ShuttleFeatures(b))
<1> DEFINE rows   == {i \in DOMAIN b.errors : b.errors[i].age # None}
           newest == Min({b.errors[i].age : i \in rows})
           win    == {i \in rows : b.errors[i].age - newest <= 24 * b.days}
           bad    == {r.shuttle : r \in b.bad}
           named  == {b.errors[i].shuttle : i \in win}
           g      == [i \in win |-> b.errors[i].shuttle]
           h      == [r \in b.bad |-> r.shuttle]
           all    == DOMAIN b.cycles \cup DOMAIN b.daily \cup bad \cup b.alerts \cup named
<1>1. DOMAIN ShuttleFeatures(b) \subseteq all
  BY DEF ShuttleFeatures
<1>2. IsFiniteSet(win) /\ DOMAIN g = win /\ named = {g[i] : i \in win}
  BY CountNat DEF ShuttleBundle
<1>3. IsFiniteSet(b.bad) /\ DOMAIN h = b.bad /\ bad = {h[r] : r \in b.bad}
  BY DEF ShuttleBundle
<1> HIDE DEF win, g, h, bad, named
<1>4. IsFiniteSet(named) /\ IsFiniteSet(bad)
  BY <1>2, <1>3, ImageFinite
<1>5. IsFiniteSet(all)
  BY <1>4, FS_Union DEF ShuttleBundle
<1> QED
  BY <1>1, <1>5, FS_Subset

LEMMA TrackerFinite ==
    ASSUME NEW b, TrackerBundle(b)
    PROVE  IsFiniteSet(DOMAIN TrackerFeatures(b))
<1> DEFINE rows == {i \in DOMAIN b.rows : b.rows[i].place # ""}
           R    == {b.rows[i].place : i \in rows}
           g    == [i \in rows |-> b.rows[i].place]
<1>1. DOMAIN TrackerFeatures(b) = R
  BY DEF TrackerFeatures
<1>2. IsFiniteSet(rows) /\ DOMAIN g = rows /\ R = {g[i] : i \in rows}
  BY CountNat DEF TrackerBundle
<1> HIDE DEF rows, g, R
<1> QED
  BY <1>1, <1>2, ImageFinite

LEMMA BinFinite ==
    ASSUME NEW b, BinBundle(b)
    PROVE  IsFiniteSet(DOMAIN BinFeatures(b))
<1> DEFINE R == {r.slot : r \in b.blocked}
           g == [r \in b.blocked |-> r.slot]
<1>1. DOMAIN BinFeatures(b) = R
  BY DEF BinFeatures
<1>2. IsFiniteSet(b.blocked) /\ DOMAIN g = b.blocked /\ R = {g[i] : i \in b.blocked}
  BY DEF BinBundle
<1> HIDE DEF g, R
<1> QED
  BY <1>1, <1>2, ImageFinite

LEMMA OthersFinite ==
    ASSUME NEW b
    PROVE  /\ GateBundle(b) => IsFiniteSet(DOMAIN GateFeatures(b))
           /\ ConveyorBundle(b) => IsFiniteSet(DOMAIN ConveyorFeatures(b))
           /\ NetworkBundle(b) => IsFiniteSet(DOMAIN NetworkFeatures(b))
<1>1. GateBundle(b) => IsFiniteSet(DOMAIN GateFeatures(b))
  BY DEF GateBundle, GateFeatures
<1>2. ConveyorBundle(b) => IsFiniteSet(DOMAIN ConveyorFeatures(b))
  BY DEF ConveyorBundle, ConveyorFeatures
<1>3. NetworkBundle(b) => IsFiniteSet(DOMAIN NetworkFeatures(b))
  BY DEF NetworkBundle, NetworkFeatures
<1> QED
  BY <1>1, <1>2, <1>3

(* The nodes of a controller are in no aisle. *)
LEMMA ControllerFinite ==
    ASSUME NEW b, ControllerBundle(b)
    PROVE  /\ IsFiniteSet(DOMAIN ControllerFeatures(b))
           /\ \A n \in DOMAIN ControllerFeatures(b) : AisleOf[n] = NoAisle
<1>1. DOMAIN ControllerFeatures(b) \subseteq DOMAIN b.nodes
  BY DEF ControllerFeatures
<1> QED
  BY <1>1, FS_Subset DEF ControllerBundle

LEMMA DevicesFinite ==
    ASSUME NEW table, ScannerTable(table), NEW owned
    PROVE  IsFiniteSet(DOMAIN ScannerFeatures(table, owned))
<1>1. DOMAIN ScannerFeatures(table, owned) \subseteq DOMAIN table
  BY DEF ScannerFeatures
<1> QED
  BY <1>1, FS_Subset DEF ScannerTable

LEMMA StationsFinite ==
    ASSUME NEW b
    PROVE  /\ GtpBundle(b) => IsFiniteSet(DOMAIN GtpFeatures(b))
           /\ DecantBundle(b) => IsFiniteSet(DOMAIN DecantFeatures(b))
<1>1. ASSUME GtpBundle(b) PROVE IsFiniteSet(DOMAIN GtpFeatures(b))
  <2>1. DOMAIN GtpStationFeatures(b) = DOMAIN b.roster \cup DOMAIN b.found
    BY DEF GtpStationFeatures
  <2>2. IsFiniteSet(DOMAIN GtpStationFeatures(b))
    BY <1>1, <2>1, FS_Union DEF GtpBundle
  <2>3. IsFiniteSet(DOMAIN ScannerFeatures(b.scanners, GtpSubtypes))
    BY <1>1, DevicesFinite DEF GtpBundle
  <2>4. DOMAIN GtpFeatures(b) = DOMAIN ScannerFeatures(b.scanners, GtpSubtypes)
                                    \cup DOMAIN GtpStationFeatures(b)
    BY DEF GtpFeatures, Together
  <2> QED
    BY <2>2, <2>3, <2>4, FS_Union
<1>2. ASSUME DecantBundle(b) PROVE IsFiniteSet(DOMAIN DecantFeatures(b))
  <2>1. DOMAIN DecantStationFeatures(b) = DOMAIN b.roster \cup DOMAIN b.cartons
    BY DEF DecantStationFeatures
  <2>2. IsFiniteSet(DOMAIN DecantStationFeatures(b))
    BY <1>2, <2>1, FS_Union DEF DecantBundle
  <2>3. IsFiniteSet(DOMAIN DecantScannerFeatures(b))
    BY <1>2, DevicesFinite DEF DecantBundle, DecantScannerFeatures
  <2>4. DOMAIN DecantFeatures(b) = DOMAIN DecantScannerFeatures(b)
                                    \cup DOMAIN DecantStationFeatures(b)
    BY DEF DecantFeatures, Together
  <2> QED
    BY <2>2, <2>3, <2>4, FS_Union
<1> QED
  BY <1>1, <1>2


-----------------------------------------------------------------------------
(* The meta module *)

TierNames == {"critical", "warn", "watch", "ok"}

LEMMA TiersAre == Range(Tiers) = TierNames
BY DEF Range, Tiers, TierNames

MetaFeature(f) ==
    /\ f.breadth \in Nat /\ Cardinality(f.edges) \in Nat /\ f.compound \in Nat
    /\ f.worst \in TierNames /\ f.controller \in TierNames

LEMMA WorstIs ==
    ASSUME NEW tiers \in SUBSET TierNames, tiers # {}
    PROVE  WorstOf(tiers) \in TierNames
<1> DEFINE g == [t \in tiers |-> Rank(t)]
           D == {Rank(t) : t \in tiers}
<1>1. IsFiniteSet(tiers)
  <2>1. IsFiniteSet(TierNames)
    <3>1. TierNames = {"critical"} \cup {"warn"} \cup {"watch"} \cup {"ok"}
      BY DEF TierNames
    <3> QED
      BY <3>1, FS_Singleton, FS_Union
  <2> QED
    BY <2>1, FS_Subset
<1>2. DOMAIN g = tiers /\ D = {g[t] : t \in DOMAIN g}
  OBVIOUS
<1>3. IsFiniteSet(D)
  <2> HIDE DEF g, D
  <2> QED
    BY <1>1, <1>2, RangeFinite
<1>4. D \subseteq {1, 2, 3, 4} /\ D # {}
  <2>1. \A t \in TierNames : Rank(t) \in {1, 2, 3, 4}
    BY RankIs DEF TierNames
  <2> QED
    BY <2>1
<1>5. Min(D) \in D
  <2>1. {1, 2, 3, 4} \subseteq Int
    OBVIOUS
  <2>2. D \subseteq Int
    BY <1>4, <2>1
  <2> HIDE DEF D
  <2> QED
    BY <1>3, <1>4, <2>2, MinMax
<1>6. Min(D) \in {1, 2, 3, 4}
  <2> HIDE DEF D
  <2> QED
    BY <1>4, <1>5
<1>7. WorstOf(tiers) = Tiers[Min(D)]
  BY DEF WorstOf
<1> HIDE DEF D
<1> QED
  BY <1>6, <1>7 DEF Tiers, TierNames

LEMMA CorrelateOK ==
    ASSUME NEW here, IsFiniteSet(here), \A m \in here : m.tier \in TierNames
    PROVE  MetaFeature(Correlate(here))
<1> DEFINE bad     == {m \in here : Flagged(m.tier)}
           modules == {m.module : m \in bad}
           tiers   == {m.tier : m \in bad}
           pairs   == {<<m.module, t>> : m \in bad, t \in modules}
           cross   == UNION {{m.module} \X (m.cross \ {m.module}) : m \in bad}
           f       == Correlate(here)
<1>1. /\ f.breadth = Cardinality(modules) /\ f.edges = pairs \cap cross
      /\ f.worst = IF bad = {} THEN "ok" ELSE WorstOf(tiers)
      /\ f.controller = "ok" /\ f.compound = 0
  BY DEF Correlate
<1>2. IsFiniteSet(bad)
  BY FS_Subset
<1>3. IsFiniteSet(modules)
  <2> DEFINE g == [m \in bad |-> m.module]
  <2>1. DOMAIN g = bad /\ modules = {g[m] : m \in DOMAIN g}
    OBVIOUS
  <2> HIDE DEF g, bad
  <2> QED
    BY <1>2, <2>1, RangeFinite
<1>4. IsFiniteSet(pairs)
  <2> DEFINE all == modules \X modules
  <2>1. IsFiniteSet(all)
    <3> HIDE DEF modules
    <3> QED
      BY <1>3, FS_Product
  <2>2. pairs \subseteq all
    OBVIOUS
  <2> HIDE DEF all, pairs
  <2> QED
    BY <2>1, <2>2, FS_Subset
<1>5. Cardinality(modules) \in Nat /\ Cardinality(pairs \cap cross) \in Nat
  <2>1. IsFiniteSet(pairs \cap cross)
    <3> HIDE DEF pairs, cross
    <3> QED
      BY <1>4, FS_Subset
  <2> HIDE DEF modules, pairs, cross
  <2> QED
    BY <1>3, <2>1, FS_CardinalityType
<1>6. f.worst \in TierNames
  <2>1. tiers \in SUBSET TierNames /\ (bad # {} => tiers # {})
    OBVIOUS
  <2>2. bad # {} => WorstOf(tiers) \in TierNames
    <3> HIDE DEF tiers, bad
    <3> QED
      BY <2>1, WorstIs
  <2>3. "ok" \in TierNames
    BY DEF TierNames
  <2> HIDE DEF bad, tiers, f
  <2> QED
    BY <1>1, <2>2, <2>3
<1>7. "ok" \in TierNames
  BY DEF TierNames
<1> HIDE DEF f, modules, pairs, cross
<1> QED
  BY <1>1, <1>5, <1>6, <1>7 DEF MetaFeature, f

(* What the system is told apart from the components of its own scope.       *)
LEMMA MetaFeaturesOK ==
    ASSUME NEW b, MetaBundle(b), NEW s \in DOMAIN MetaFeatures(b)
    PROVE  MetaFeature(MetaFeatures(b)[s])
<1> DEFINE in(scope) == {m \in b.components : ScopeOf(m) = scope}
           aisles    == {ScopeOf(m) : m \in b.components} \ {System}
           aisle     == [a \in aisles |-> Correlate(in(a))]
           first     == {m \in in(System) : m.module = "controller" /\ m.id = b.first}
           broad     == {a \in aisles : aisle[a].breadth >= 2}
           of        == Correlate(in(System))
           system    == [of EXCEPT !.controller = IF first = {} THEN @ ELSE (CHOOSE m \in first : TRUE).tier,
                                   !.compound   = Cardinality(broad)]
<1>1. MetaFeatures(b)[s] = (IF s = System THEN system ELSE aisle[s]) /\ s \in aisles \cup {System}
  BY DEF MetaFeatures
<1>2. \A scope : MetaFeature(Correlate(in(scope)))
  <2>1. \A scope : IsFiniteSet(in(scope)) /\ \A m \in in(scope) : m.tier \in TierNames
    BY TiersAre, FS_Subset DEF MetaBundle
  <2> HIDE DEF in
  <2> QED
    BY <2>1, CorrelateOK
<1>3. s # System => MetaFeature(aisle[s])
  <2> HIDE DEF in, aisles
  <2> QED
    BY <1>1, <1>2
<1>4. Cardinality(broad) \in Nat
  <2> DEFINE g == [m \in b.components |-> ScopeOf(m)]
             all == {ScopeOf(m) : m \in b.components}
  <2>1. DOMAIN g = b.components /\ all = {g[m] : m \in DOMAIN g}
    OBVIOUS
  <2>2. IsFiniteSet(all)
    <3> HIDE DEF g, all
    <3> QED
      BY <2>1, RangeFinite DEF MetaBundle
  <2>3. broad \in SUBSET all
    <3> HIDE DEF aisle
    <3> QED
      OBVIOUS
  <2> HIDE DEF all, broad
  <2> QED
    BY <2>2, <2>3, CountNat
<1>5. first # {} => (CHOOSE m \in first : TRUE).tier \in TierNames
  <2>1. \A m \in first : m.tier \in TierNames
    BY TiersAre DEF MetaBundle
  <2> HIDE DEF first
  <2> QED
    BY <2>1
<1> DEFINE tier == IF first = {} THEN of.controller ELSE (CHOOSE m \in first : TRUE).tier
<1>6. system = [of EXCEPT !.controller = tier, !.compound = Cardinality(broad)]
  OBVIOUS
<1>7. MetaFeature(of)
  BY <1>2
<1>8. of = [modules |-> of.modules, breadth |-> of.breadth, worst |-> of.worst, edges |-> of.edges,
            metaFlag |-> of.metaFlag, controller |-> of.controller, compound |-> of.compound]
  BY DEF Correlate
<1>9. tier \in TierNames
  <2> HIDE DEF of, first
  <2> QED
    BY <1>5, <1>7 DEF MetaFeature
<1> HIDE DEF of, tier, broad, system
<1>10. MetaFeature(system)
  <2>1. system = [modules |-> of.modules, breadth |-> of.breadth, worst |-> of.worst,
                  edges |-> of.edges, metaFlag |-> of.metaFlag, controller |-> tier,
                  compound |-> Cardinality(broad)]
    BY <1>6, <1>8
  <2> QED
    BY <1>4, <1>7, <1>9, <2>1 DEF MetaFeature
<1> HIDE DEF aisle, aisles
<1> QED
  BY <1>1, <1>3, <1>10

(* Whoever asks for escalation in the scope of the system is heard there.    *)
LEMMA Heard ==
    ASSUME NEW b, NEW c \in b.components, ScopeOf(c) = System, Flagged(c.tier), "meta" \in c.cross
    PROVE  System \in DOMAIN MetaFeatures(b) /\ MetaFeatures(b)[System].metaFlag
<1> DEFINE in(scope) == {m \in b.components : ScopeOf(m) = scope}
           of == Correlate(in(System))
<1>1. of.metaFlag
  BY DEF Correlate
<1>2. System \in DOMAIN MetaFeatures(b) /\ MetaFeatures(b)[System].metaFlag = of.metaFlag
  <2>1. of = [modules |-> of.modules, breadth |-> of.breadth, worst |-> of.worst, edges |-> of.edges,
              metaFlag |-> of.metaFlag, controller |-> of.controller, compound |-> of.compound]
    BY DEF Correlate
  <2>2. \A x, y : [of EXCEPT !.controller = x, !.compound = y].metaFlag = of.metaFlag
    <3> HIDE DEF of
    <3> QED
      BY <2>1
  <2> DEFINE aisles == {ScopeOf(m) : m \in b.components} \ {System}
             aisle  == [a \in aisles |-> Correlate(in(a))]
             first  == {m \in in(System) : m.module = "controller" /\ m.id = b.first}
             tier   == IF first = {} THEN of.controller ELSE (CHOOSE m \in first : TRUE).tier
             many   == Cardinality({a \in aisles : aisle[a].breadth >= 2})
  <2>3. /\ System \in DOMAIN MetaFeatures(b)
        /\ MetaFeatures(b)[System] = [of EXCEPT !.controller = tier, !.compound = many]
    BY DEF MetaFeatures
  <2> HIDE DEF of, tier, many
  <2> QED
    BY <2>2, <2>3
<1> QED
  BY <1>1, <1>2

LEMMA CompoundRunsNat ==
    ASSUME NEW f, NEW hist, RowsOK(hist)
    PROVE  CompoundRuns(f, hist) \in Nat
<1> DEFINE S == {i \in DOMAIN hist : hist[i].facts.breadth < 2}
<1>1. S \in SUBSET DOMAIN hist
  OBVIOUS
<1>2. CompoundRuns(f, hist) = IF f.breadth < 2 THEN 0 ELSE Min(S \cup {Len(hist) + 1})
  BY DEF CompoundRuns
<1> HIDE DEF S
<1>3. Min(S \cup {Len(hist) + 1}) \in Nat
  BY <1>1, CountRows
<1> QED
  BY <1>2, <1>3

LEMMA MetaPoints ==
    ASSUME NEW f, MetaFeature(f), NEW compound \in Nat
    PROVE  /\ Points(MetaPenalties(f, compound))
           /\ f.metaFlag => 18 * U <= Total(MetaPenalties(f, compound))
<1> DEFINE pen == MetaPenalties(f, compound)
           by(tier, points) == IF Flagged(tier) THEN points[Rank(tier)] * U ELSE 0
<1>1. by(f.worst, <<18, 8, 2>>) \in Nat /\ by(f.controller, <<30, 15, 5>>) \in Nat
  BY RankIs DEF MetaFeature, TierNames, Flagged, U
<1> HIDE DEF by
<1> DEFINE severity == IF f.breadth >= 2 THEN by(f.worst, <<18, 8, 2>>) ELSE 0
           asked == Capped(IF f.metaFlag THEN 18 * U ELSE 0, 18)
<1>2. severity \in Nat
  BY <1>1
<1>3. asked \in Nat /\ (f.metaFlag => asked = 18 * U)
  BY DEF Capped, AtMost, Positive, U
<1> HIDE DEF severity, asked
<1>4. /\ Capped(9 * U * (f.breadth - 1), 45) \in Nat
      /\ Capped(8 * U * Cardinality(f.edges), 24) \in Nat
      /\ Capped(6 * U * (compound - 1), 24) \in Nat
      /\ AtMost(10 * U * f.compound, 40 * U) \in Nat
  BY DEF Capped, AtMost, Positive, U, MetaFeature
<1>5. pen = << <<"breadth", Capped(9 * U * (f.breadth - 1), 45)>>,
               <<"severity", severity>>,
               <<"chain", Capped(8 * U * Cardinality(f.edges), 24)>>,
               <<"persistence", Capped(6 * U * (compound - 1), 24)>>,
               <<"meta_flag", asked>>,
               <<"controller_trigger", by(f.controller, <<30, 15, 5>>)>>,
               <<"aisle_breadth", AtMost(10 * U * f.compound, 40 * U)>> >>
  BY DEF MetaPenalties, by, severity, asked
<1> HIDE DEF pen
<1>6. Points(pen)
  BY <1>1, <1>2, <1>3, <1>4, <1>5 DEF Points
<1>7. 5 \in DOMAIN pen /\ pen[5][2] = asked
  BY <1>5
<1>8. asked <= Total(pen)
  BY <1>6, <1>7, TotalAtLeast
<1> QED
  BY <1>3, <1>6, <1>8 DEF pen

(* Escalation alone takes eighteen points, so the verdict is not ok.         *)
LEMMA MetaScoreOK ==
    ASSUME NEW feats, NEW stored, StoreOK(stored), NEW s \in DOMAIN MetaScore(feats, stored),
           MetaFeature(feats[s])
    PROVE  LET v == MetaScore(feats, stored)[s]
           IN  VerdictOK(v) /\ (feats[s].metaFlag => Flagged(v.tier))
<1> DEFINE hist == History(stored, s)
           f    == feats[s]
           pen  == MetaPenalties(f, CompoundRuns(f, hist))
           raw  == ScoreOf(Total(pen))
           cold == 500 + (300 * AtMost(Len(hist), MinRunsForTrend)) \div MinRunsForTrend
                       + (IF hist = <<>> THEN 0 ELSE 50)
           v    == MetaScore(feats, stored)[s]
<1>1. s \in DOMAIN feats
  BY DEF MetaScore
<1>2. RowsOK(hist)
  BY HistoryOK
<1>3. Points(pen) /\ (f.metaFlag => 18 * U <= Total(pen))
  <2>1. CompoundRuns(f, hist) \in Nat
    BY <1>2, CompoundRunsNat
  <2> QED
    BY <2>1, MetaPoints
<1>4. Judged(v, raw, Trend(hist, Stored(raw)), <<24, 96, 336>>,
             TrendConfidence(720, hist), AtMost(cold, 850))
  BY <1>1 DEF MetaScore, Judge, Judged
<1> HIDE DEF pen
<1>5. RawOK(raw) /\ Total(pen) \in Nat
  BY <1>3, RawIsOK, TotalNat
<1>6. f.metaFlag => raw < 85 * U
  BY <1>3, <1>5 DEF ScoreOf, Positive, U
<1>7. Confidence(AtMost(cold, 850))
  <2>1. cold \in Nat
    BY <1>2, ColdRuns
  <2> HIDE DEF cold
  <2> QED
    BY <2>1, ConfidenceIs
<1> HIDE DEF raw, hist, cold, v
<1>8. TrendOK(Trend(hist, Stored(raw))) /\ Confidence(TrendConfidence(720, hist))
  BY <1>2, <1>5, TrendIsOK, TrendConfidenceOK DEF RawOK
<1>9. VerdictOK(v)
  BY <1>4, <1>5, <1>7, <1>8, JudgedOK, BandsAre
<1>10. f.metaFlag => Flagged(v.tier)
  BY <1>4, <1>5, <1>6 DEF Judged, TierOf, Flagged, U, RawOK
<1> QED
  BY <1>9, <1>10 DEF v

-----------------------------------------------------------------------------
(* The cause that is named *)

(* The factor that is named took at least the points asked for, or no factor *)
(* did.                                                                      *)
LEMMA TopIs ==
    ASSUME NEW pen, Points(pen), IsFiniteSet(DOMAIN pen), DOMAIN pen \subseteq Int,
           NEW least \in Nat
    PROVE  \/ TopFactor(pen, least) = "none" /\ \A i \in DOMAIN pen : pen[i][2] < least
           \/ \E k \in DOMAIN pen : TopFactor(pen, least) = pen[k][1] /\ least <= pen[k][2]
<1> DEFINE most == {i \in DOMAIN pen : /\ pen[i][2] >= least
                                       /\ \A j \in DOMAIN pen : pen[j][2] <= pen[i][2]}
           taken == [i \in DOMAIN pen |-> pen[i][2]]
           R == {taken[i] : i \in DOMAIN taken}
<1>1. TopFactor(pen, least) = IF most = {} THEN "none" ELSE pen[Min(most)][1]
  BY DEF TopFactor
<1>2. CASE most # {}
  <2>1. Min(most) \in most
    <3>1. IsFiniteSet(most) /\ most \subseteq Int
      BY FS_Subset
    <3> HIDE DEF most
    <3> QED
      BY <1>2, <3>1, MinMax
  <2>2. Min(most) \in DOMAIN pen /\ least <= pen[Min(most)][2]
    BY <2>1 DEF Points
  <2> HIDE DEF most
  <2> QED
    BY <1>1, <1>2, <2>2
<1>3. CASE most = {}
  <2>1. ASSUME NEW i \in DOMAIN pen, ~(pen[i][2] < least) PROVE FALSE
    <3>1. IsFiniteSet(R) /\ R \subseteq Int /\ R # {}
      <4>1. DOMAIN taken = DOMAIN pen
        OBVIOUS
      <4>2. IsFiniteSet(R)
        <5> HIDE DEF taken
        <5> QED
          BY <4>1, RangeFinite
      <4>3. R \subseteq Int
        BY DEF Points
      <4> QED
        BY <2>1, <4>2, <4>3
    <3>2. Max(R) \in R /\ \A x \in R : x <= Max(R)
      <4> HIDE DEF R
      <4> QED
        BY <3>1, MinMax
    <3>3. PICK k \in DOMAIN pen : pen[k][2] = Max(R)
      BY <3>2
    <3>4. \A j \in DOMAIN pen : pen[j][2] <= pen[k][2]
      BY <3>2, <3>3
    <3>5. pen[k][2] >= least
      BY <2>1, <3>4 DEF Points
    <3> QED
      BY <1>3, <3>4, <3>5
  <2>2. \A i \in DOMAIN pen : pen[i][2] < least
    BY <2>1
  <2> QED
    BY <1>1, <1>3, <2>2
<1> QED
  BY <1>2, <1>3

(* No factor took as much as is shown. *)
Slight(pen) == \A i \in DOMAIN pen : pen[i][2] < Material

(* The factors are these, and none is called none. *)
Factors(pen, n) ==
    DOMAIN pen = 1..n /\ Points(pen) /\ \A i \in DOMAIN pen : pen[i][1] # "none"

LEMMA NoneIsSlight ==
    ASSUME NEW n \in Nat, NEW pen, Factors(pen, n), TopFactor(pen, Material) = "none"
    PROVE  Slight(pen)
<1>1. IsFiniteSet(1..n) /\ 1..n \subseteq Int
  BY FS_Interval
<1>2. Material \in Nat
  BY SMT DEF Material, U
<1> QED
  BY <1>1, <1>2, TopIs DEF Factors, Slight

(* A penalty of several points for each of something is shown, or is none.   *)
LEMMA WholeSteps ==
    ASSUME NEW n \in Int
    PROVE  /\ Capped(5 * U * n, 15) < Material => Capped(5 * U * n, 15) = 0
           /\ Capped(6 * U * n, 12) < Material => Capped(6 * U * n, 12) = 0
           /\ Capped(6 * U * n, 30) < Material => Capped(6 * U * n, 30) = 0
           /\ Capped(6 * U * n, 40) < Material => Capped(6 * U * n, 40) = 0
           /\ Capped(7 * U * n, 30) < Material => Capped(7 * U * n, 30) = 0
           /\ Capped(8 * U * n, 34) < Material => Capped(8 * U * n, 34) = 0
           /\ Capped(9 * U * n, 30) < Material => Capped(9 * U * n, 30) = 0
           /\ Capped(12 * U * n, 36) < Material => Capped(12 * U * n, 36) = 0
           /\ Capped(4 * U * n, 20) < Material => Capped(4 * U * n, 20) <= 4 * U
           /\ Capped(3 * U * n, 62) < Material => Capped(3 * U * n, 62) <= 3 * U
BY SMT DEF Capped, AtMost, Positive, Material, U

LEMMA TotalFew ==
    ASSUME NEW pen, Points(pen)
    PROVE  /\ DOMAIN pen = 1..2 => Total(pen) = pen[1][2] + pen[2][2]
           /\ DOMAIN pen = 1..3 => Total(pen) = pen[1][2] + pen[2][2] + pen[3][2]
           /\ DOMAIN pen = 1..4 => Total(pen) = pen[1][2] + pen[2][2] + pen[3][2] + pen[4][2]
           /\ DOMAIN pen = 1..6 => Total(pen) = pen[1][2] + pen[2][2] + pen[3][2] + pen[4][2]
                                                  + pen[5][2] + pen[6][2]
<1> DEFINE of(i) == IF i \in DOMAIN pen THEN pen[i][2] ELSE 0
<1>1. Total(pen) = of(1) + of(2) + of(3) + of(4) + of(5) + of(6) + of(7) + of(8) + of(9) + of(10)
  BY DEF Total
<1>2. \A i \in DOMAIN pen : of(i) = pen[i][2] /\ pen[i][2] \in Nat
  BY DEF Points
<1>3. \A i : i \notin DOMAIN pen => of(i) = 0
  OBVIOUS
<1> HIDE DEF of
<1>4. ASSUME DOMAIN pen = 1..2
      PROVE  Total(pen) = pen[1][2] + pen[2][2]
  <2>1. /\ of(1) = pen[1][2] /\ of(2) = pen[2][2] /\ pen[1][2] \in Nat /\ pen[2][2] \in Nat
        /\ of(3) = 0 /\ of(4) = 0 /\ of(5) = 0 /\ of(6) = 0 /\ of(7) = 0 /\ of(8) = 0
        /\ of(9) = 0 /\ of(10) = 0
    BY <1>2, <1>3, <1>4
  <2> QED
    BY <1>1, <2>1
<1>5. ASSUME DOMAIN pen = 1..3
      PROVE  Total(pen) = pen[1][2] + pen[2][2] + pen[3][2]
  <2>1. /\ of(1) = pen[1][2] /\ of(2) = pen[2][2] /\ of(3) = pen[3][2]
        /\ pen[1][2] \in Nat /\ pen[2][2] \in Nat /\ pen[3][2] \in Nat
        /\ of(4) = 0 /\ of(5) = 0 /\ of(6) = 0 /\ of(7) = 0 /\ of(8) = 0
        /\ of(9) = 0 /\ of(10) = 0
    BY <1>2, <1>3, <1>5
  <2> QED
    BY <1>1, <2>1
<1>6. ASSUME DOMAIN pen = 1..4
      PROVE  Total(pen) = pen[1][2] + pen[2][2] + pen[3][2] + pen[4][2]
  <2>1. /\ of(1) = pen[1][2] /\ of(2) = pen[2][2] /\ of(3) = pen[3][2] /\ of(4) = pen[4][2]
        /\ pen[1][2] \in Nat /\ pen[2][2] \in Nat /\ pen[3][2] \in Nat /\ pen[4][2] \in Nat
        /\ of(5) = 0 /\ of(6) = 0 /\ of(7) = 0 /\ of(8) = 0
        /\ of(9) = 0 /\ of(10) = 0
    BY <1>2, <1>3, <1>6
  <2> QED
    BY <1>1, <2>1
<1>7. ASSUME DOMAIN pen = 1..6
      PROVE  Total(pen) = pen[1][2] + pen[2][2] + pen[3][2] + pen[4][2] + pen[5][2] + pen[6][2]
  <2>1. /\ of(1) = pen[1][2] /\ of(2) = pen[2][2] /\ of(3) = pen[3][2] /\ of(4) = pen[4][2]
        /\ of(5) = pen[5][2] /\ of(6) = pen[6][2]
        /\ pen[1][2] \in Nat /\ pen[2][2] \in Nat /\ pen[3][2] \in Nat /\ pen[4][2] \in Nat
        /\ pen[5][2] \in Nat /\ pen[6][2] \in Nat
        /\ of(7) = 0 /\ of(8) = 0 /\ of(9) = 0 /\ of(10) = 0
    BY <1>2, <1>3, <1>7
  <2> QED
    BY <1>1, <2>1
<1> QED
  BY <1>4, <1>5, <1>6, <1>7

(* Fifteen points leave a component ok. *)
LEMMA StaysOk ==
    ASSUME NEW pen, Points(pen), Total(pen) <= 15 * U
    PROVE  TierOf(ScoreOf(Total(pen))) = "ok"
<1>1. Total(pen) \in Nat
  BY TotalNat
<1> QED
  BY <1>1, SMT DEF TierOf, ScoreOf, Positive, U

LEMMA NamedFactor ==
    ASSUME NEW n \in Nat, NEW pen, Factors(pen, n), TopFactor(pen, Material) # "none"
    PROVE  \E k \in 1..n : TopFactor(pen, Material) = pen[k][1]
<1>1. IsFiniteSet(1..n) /\ 1..n \subseteq Int
  BY FS_Interval
<1>2. Material \in Nat
  BY SMT DEF Material, U
<1> QED
  BY <1>1, <1>2, TopIs DEF Factors

LEMMA ControllerCaused ==
    ASSUME NEW f, f.util \in Nat, NEW busy \in Nat
    PROVE  LET pen == ControllerPenalties(f, busy)
           IN  TierOf(ScoreOf(Total(pen))) = "ok" \/ ControllerCause(pen) \notin {"healthy", "unmapped"}
<1> DEFINE pen == ControllerPenalties(f, busy)
           p1 == Capped(25 * (f.util - 60 * Percent), 70)
           p2 == Capped(6 * U * (busy - 1), 30)
<1>1. pen = << <<"saturation", p1>>, <<"sustained_high", p2>> >>
  BY DEF ControllerPenalties
<1>2. Points(pen)
  BY ControllerPoints
<1>3. p2 < Material => p2 = 0
  BY WholeSteps
<1> HIDE DEF p1, p2, pen
<1>4. /\ DOMAIN pen = 1..2
      /\ pen[1] = <<"saturation", p1>> /\ pen[2] = <<"sustained_high", p2>>
  BY <1>1
<1>5. Factors(pen, 2) /\ p1 \in Nat /\ p2 \in Nat
  BY <1>2, <1>4 DEF Factors, Points
<1>6. CASE TopFactor(pen, Material) = "none"
  <2>1. p1 < Material /\ p2 < Material
    BY <1>4, <1>5, <1>6, NoneIsSlight DEF Slight
  <2>2. Total(pen) = p1 + p2
    BY <1>2, <1>4, TotalFew
  <2>3. Total(pen) <= 15 * U
    BY <1>3, <1>5, <2>1, <2>2, SMT DEF Material, U
  <2> QED
    BY <1>2, <2>3, StaysOk DEF pen
<1>7. CASE TopFactor(pen, Material) # "none"
  <2>0. PICK k \in 1..2 : TopFactor(pen, Material) = pen[k][1]
    BY <1>5, <1>7, NamedFactor
  <2>1. TopFactor(pen, Material) \in {"saturation", "sustained_high"}
    BY <1>4, <2>0
  <2>2. ControllerCause(pen) = TopFactor(pen, Material)
    BY <1>7 DEF ControllerCause
  <2> QED
    BY <2>1, <2>2 DEF pen
<1> QED
  BY <1>6, <1>7

LEMMA NetworkCaused ==
    ASSUME NEW f, NetworkFeature(f), NEW hist, RowsOK(hist)
    PROVE  LET pen == NetworkPenalties(f, hist)
           IN  TierOf(ScoreOf(Total(pen))) = "ok" \/ NetworkCause(pen) \notin {"healthy", "unmapped"}
<1> DEFINE pen == NetworkPenalties(f, hist)
           again == Cardinality({i \in DOMAIN hist : hist[i].facts.down >= 6000})
           p1 == Capped(30 * (f.down - 3000), 45)
           p2 == Capped(IF f.down >= 4000 THEN 40 * f.z ELSE 0, 16)
           p3 == Capped(IF f.today > f.down THEN 15 * (f.today - 5000) ELSE 0, 20)
           p4 == Capped(6 * U * again, 30)
<1>1. pen = << <<"downtime_abs", p1>>, <<"downtime_peer_z", p2>>, <<"recent_spike", p3>>,
               <<"recurrence", p4>> >>
  BY DEF NetworkPenalties
<1>2. Points(pen)
  BY NetworkPoints
<1>3. p4 < Material => p4 = 0
  <2>1. again \in Int
    <3> DEFINE S == {i \in DOMAIN hist : hist[i].facts.down >= 6000}
    <3>1. S \in SUBSET DOMAIN hist
      OBVIOUS
    <3> HIDE DEF S
    <3>2. Cardinality(S) \in Nat
      BY <3>1, CountRows
    <3> QED
      BY <3>2 DEF S
  <2> HIDE DEF again
  <2> QED
    BY <2>1, WholeSteps
<1> HIDE DEF p1, p2, p3, p4, pen
<1>4. /\ DOMAIN pen = 1..4
      /\ pen[1] = <<"downtime_abs", p1>> /\ pen[2] = <<"downtime_peer_z", p2>>
      /\ pen[3] = <<"recent_spike", p3>> /\ pen[4] = <<"recurrence", p4>>
  BY <1>1
<1>5. Factors(pen, 4) /\ p1 \in Nat /\ p2 \in Nat /\ p3 \in Nat /\ p4 \in Nat
  BY <1>2, <1>4 DEF Factors, Points
<1>6. CASE TopFactor(pen, Material) = "none"
  <2>1. p1 < Material /\ p2 < Material /\ p3 < Material /\ p4 < Material
    BY <1>4, <1>5, <1>6, NoneIsSlight DEF Slight
  <2>2. Total(pen) = p1 + p2 + p3 + p4
    BY <1>2, <1>4, TotalFew
  <2>3. Total(pen) <= 15 * U
    BY <1>3, <1>5, <2>1, <2>2, SMT DEF Material, U
  <2> QED
    BY <1>2, <2>3, StaysOk DEF pen
<1>7. CASE TopFactor(pen, Material) # "none"
  <2>0. PICK k \in 1..4 : TopFactor(pen, Material) = pen[k][1]
    BY <1>5, <1>7, NamedFactor
  <2>1. TopFactor(pen, Material) \in {"downtime_abs", "downtime_peer_z", "recent_spike", "recurrence"}
    BY <1>4, <2>0
  <2>2. NetworkCause(pen) = TopFactor(pen, Material)
    BY <1>7 DEF NetworkCause
  <2> QED
    BY <2>1, <2>2 DEF pen
<1> QED
  BY <1>6, <1>7

LEMMA CountInt ==
    ASSUME NEW hist, RowsOK(hist), NEW S \in SUBSET DOMAIN hist
    PROVE  Cardinality(S) \in Int
<1>1. Cardinality(S) \in Nat
  BY CountRows
<1> QED
  BY <1>1

LEMMA MaterialNamed ==
    ASSUME NEW pen, TopFactor(pen, Material) # "none"
    PROVE  MaterialCause(pen) = TopFactor(pen, Material)
BY DEF MaterialCause

LEMMA ScannerCaused ==
    ASSUME NEW f, ScannerFeature(f), NEW hist, RowsOK(hist), NEW minScans
    PROVE  LET pen == ScannerPenalties(f, hist, minScans)
           IN  TierOf(ScoreOf(Total(pen))) = "ok" \/ MaterialCause(pen) \notin {"healthy", "unmapped"}
<1> DEFINE pen == ScannerPenalties(f, hist, minScans)
           S == {i \in DOMAIN hist : hist[i].facts.misread >= 2000
                                      /\ hist[i].facts.scans >= minScans}
           p1 == (Capped(30 * f.misread, 75) * AtMost(f.scans, 200)) \div 200
           p2 == Capped(IF f.scans >= 200 /\ f.misread >= 1000 THEN 40 * f.z ELSE 0, 16)
           p3 == Capped(6 * U * Cardinality(S), 30)
<1>1. pen = << <<"misread", p1>>, <<"peer_z", p2>>, <<"recurrence", p3>> >>
  BY DEF ScannerPenalties
<1>2. Points(pen)
  BY ScannerPoints
<1>3. p3 < Material => p3 = 0
  <2>1. S \in SUBSET DOMAIN hist
    OBVIOUS
  <2> HIDE DEF S
  <2> QED
    BY <2>1, CountInt, WholeSteps
<1> HIDE DEF p1, p2, p3, pen
<1>4. /\ DOMAIN pen = 1..3
      /\ pen[1] = <<"misread", p1>> /\ pen[2] = <<"peer_z", p2>>
      /\ pen[3] = <<"recurrence", p3>>
  BY <1>1
<1>5. Factors(pen, 3) /\ p1 \in Nat /\ p2 \in Nat /\ p3 \in Nat
  BY <1>2, <1>4 DEF Factors, Points
<1>6. CASE TopFactor(pen, Material) = "none"
  <2>1. p1 < Material /\ p2 < Material /\ p3 < Material
    BY <1>4, <1>5, <1>6, NoneIsSlight DEF Slight
  <2>2. Total(pen) = p1 + p2 + p3
    BY <1>2, <1>4, TotalFew
  <2>3. Total(pen) <= 15 * U
    BY <1>3, <1>5, <2>1, <2>2, SMT DEF Material, U
  <2> QED
    BY <1>2, <2>3, StaysOk DEF pen
<1>7. CASE TopFactor(pen, Material) # "none"
  <2>1. PICK k \in 1..3 : TopFactor(pen, Material) = pen[k][1]
    BY <1>5, <1>7, NamedFactor
  <2>2. TopFactor(pen, Material) \in {"misread", "peer_z", "recurrence"}
    BY <1>4, <2>1
  <2> QED
    BY <1>7, <2>2, MaterialNamed DEF pen
<1> QED
  BY <1>6, <1>7

LEMMA StationCaused ==
    ASSUME NEW f, StationFeature(f), NEW hist, RowsOK(hist)
    PROVE  LET pen == GtpStationPenalties(f, hist)
           IN  TierOf(ScoreOf(Total(pen))) = "ok" \/ GtpStationCause(f, pen) \notin {"healthy", "unmapped"}
<1> DEFINE pen == GtpStationPenalties(f, hist)
           S == {i \in DOMAIN hist : hist[i].facts.perDay > 20000 \/ hist[i].facts.z >= 2000}
           before == [i \in DOMAIN hist |-> hist[i].facts.inactive]
           p1 == Capped(60 * f.z, 40)
           p2 == Capped(15 * (f.perDay - 20000), 20)
           p3 == Capped(6 * U * Cardinality(S), 30)
           p4 == Capped(4 * U * (InARow(f.inactive, before) - 1), 20)
<1>1. pen = << <<"discrepancy_peer_z", p1>>, <<"discrepancy_abs", p2>>, <<"recurrence", p3>>,
               <<"offline_persistence", p4>> >>
  BY DEF GtpStationPenalties
<1>2. Points(pen)
  BY StationPoints
<1>3. p3 < Material => p3 = 0
  <2>1. S \in SUBSET DOMAIN hist
    OBVIOUS
  <2> HIDE DEF S
  <2> QED
    BY <2>1, CountInt, WholeSteps
<1>4. p4 < Material => p4 <= 4 * U
  <2>1. before \in [DOMAIN hist -> {hist[i].facts.inactive : i \in DOMAIN hist}]
    OBVIOUS
  <2> HIDE DEF before
  <2>2. InARow(f.inactive, before) \in Nat
    BY <2>1, InARowNat
  <2>3. InARow(f.inactive, before) - 1 \in Int
    BY <2>2
  <2> QED
    BY <2>3, WholeSteps
<1> HIDE DEF p1, p2, p3, p4, pen
<1>5. /\ DOMAIN pen = 1..4
      /\ pen[1] = <<"discrepancy_peer_z", p1>> /\ pen[2] = <<"discrepancy_abs", p2>>
      /\ pen[3] = <<"recurrence", p3>> /\ pen[4] = <<"offline_persistence", p4>>
  BY <1>1
<1>6. Factors(pen, 4) /\ p1 \in Nat /\ p2 \in Nat /\ p3 \in Nat /\ p4 \in Nat
  BY <1>2, <1>5 DEF Factors, Points
<1>7. CASE TopFactor(pen, Material) = "none"
  <2>1. p1 < Material /\ p2 < Material /\ p3 < Material /\ p4 < Material
    BY <1>5, <1>6, <1>7, NoneIsSlight DEF Slight
  <2>2. Total(pen) = p1 + p2 + p3 + p4
    BY <1>2, <1>5, TotalFew
  <2>3. Total(pen) <= 15 * U
    BY <1>3, <1>4, <1>6, <2>1, <2>2, SMT DEF Material, U
  <2> QED
    BY <1>2, <2>3, StaysOk DEF pen
<1>8. CASE TopFactor(pen, Material) # "none"
  <2>1. PICK k \in 1..4 : TopFactor(pen, Material) = pen[k][1]
    BY <1>6, <1>8, NamedFactor
  <2>2. TopFactor(pen, Material) \in {"discrepancy_peer_z", "discrepancy_abs", "recurrence",
                                      "offline_persistence"}
    BY <1>5, <2>1
  <2>3. GtpStationCause(f, pen) = TopFactor(pen, Material)
    BY <1>8, <2>2, MaterialNamed DEF GtpStationCause
  <2> QED
    BY <2>2, <2>3 DEF pen
<1> QED
  BY <1>7, <1>8

LEMMA TrackerCaused ==
    ASSUME NEW f, TrackerFeature(f), NEW n \in Nat
    PROVE  LET pen == TrackerPenalties(f, n)
           IN  TierOf(ScoreOf(Total(pen))) = "ok" \/ TrackerCause(pen) \notin {"healthy", "unmapped"}
<1> DEFINE pen == TrackerPenalties(f, n)
           p1 == Capped(8 * U * (f.bad - f.recent), 34)
           p2 == Capped(9 * U * f.recent, 30)
           p3 == Capped(7 * U * n, 30)
           p4 == Capped(5 * U * (f.shuttles - 1), 15)
           p5 == Capped(6 * U * f.liftErrors, 12)
           p6 == Capped(50 * f.z, 12)
<1>1. pen = << <<"cluster", p1>>, <<"recent_cluster", p2>>, <<"recurrence", p3>>,
               <<"multi_shuttle", p4>>, <<"lift_involved", p5>>, <<"peer_z", p6>> >>
  BY DEF TrackerPenalties
<1>2. Points(pen)
  BY TrackerPoints
<1>3. /\ p1 < Material => p1 = 0
      /\ p2 < Material => p2 = 0
      /\ p3 < Material => p3 = 0
      /\ p4 < Material => p4 = 0
      /\ p5 < Material => p5 = 0
  <2>1. /\ f.bad - f.recent \in Int /\ f.recent \in Int /\ n \in Int /\ f.shuttles - 1 \in Int
        /\ f.liftErrors \in Int
    BY DEF TrackerFeature
  <2> QED
    BY <2>1, WholeSteps
<1> HIDE DEF p1, p2, p3, p4, p5, p6, pen
<1>4. /\ DOMAIN pen = 1..6
      /\ pen[1] = <<"cluster", p1>> /\ pen[2] = <<"recent_cluster", p2>>
      /\ pen[3] = <<"recurrence", p3>> /\ pen[4] = <<"multi_shuttle", p4>>
      /\ pen[5] = <<"lift_involved", p5>> /\ pen[6] = <<"peer_z", p6>>
  BY <1>1
<1>5. /\ Factors(pen, 6)
      /\ p1 \in Nat /\ p2 \in Nat /\ p3 \in Nat /\ p4 \in Nat /\ p5 \in Nat /\ p6 \in Nat
  BY <1>2, <1>4 DEF Factors, Points
<1>6. CASE TopFactor(pen, Material) = "none"
  <2>1. /\ p1 < Material /\ p2 < Material /\ p3 < Material /\ p4 < Material /\ p5 < Material
        /\ p6 < Material
    BY <1>4, <1>5, <1>6, NoneIsSlight DEF Slight
  <2>2. Total(pen) = p1 + p2 + p3 + p4 + p5 + p6
    BY <1>2, <1>4, TotalFew
  <2>3. Total(pen) <= 15 * U
    BY <1>3, <1>5, <2>1, <2>2, SMT DEF Material, U
  <2> QED
    BY <1>2, <2>3, StaysOk DEF pen
<1>7. CASE TopFactor(pen, Material) # "none"
  <2>1. PICK k \in 1..6 : TopFactor(pen, Material) = pen[k][1]
    BY <1>5, <1>7, NamedFactor
  <2>2. TopFactor(pen, Material) \in {"cluster", "recent_cluster", "recurrence", "multi_shuttle",
                                      "lift_involved", "peer_z"}
    BY <1>4, <2>1
  <2>3. TrackerCause(pen) \in {TopFactor(pen, Material), "cluster"}
    BY <1>7 DEF TrackerCause
  <2> QED
    BY <2>2, <2>3 DEF pen
<1> QED
  BY <1>6, <1>7

LEMMA DecantStationCaused ==
    ASSUME NEW f, NEW hist, RowsOK(hist)
    PROVE  LET v == ScoreDecantStation(f, hist)
           IN  v.tier = "ok" \/ v.cause \notin {"healthy", "unmapped"}
<1> DEFINE off  == [i \in DOMAIN hist |-> hist[i].facts.inactive]
           rest == [i \in DOMAIN hist |-> hist[i].facts.idle]
           p1 == Capped(4 * U * (InARow(f.inactive, off) - 1), 20)
           p2 == Capped(6 * U * (InARow(f.idle, rest) - 1), 40)
           pen == << <<"offline_persistence", p1>>, <<"idle_recurrence", p2>> >>
           v   == ScoreDecantStation(f, hist)
<1>1. v.tier = TierOf(ScoreOf(Total(pen))) /\ v.cause = DecantCause(f, pen)
  BY DEF ScoreDecantStation, Judge
<1>2. InARow(f.inactive, off) \in Nat /\ InARow(f.idle, rest) \in Nat
  <2>1. /\ off \in [DOMAIN hist -> {hist[i].facts.inactive : i \in DOMAIN hist}]
        /\ rest \in [DOMAIN hist -> {hist[i].facts.idle : i \in DOMAIN hist}]
    OBVIOUS
  <2> HIDE DEF off, rest
  <2> QED
    BY <2>1, InARowNat
<1> HIDE DEF off, rest, v
<1>3. /\ p1 < Material => p1 <= 4 * U
      /\ p2 < Material => p2 = 0
      /\ p1 \in Nat /\ p2 \in Nat
  <2>1. InARow(f.inactive, off) - 1 \in Int /\ InARow(f.idle, rest) - 1 \in Int
    BY <1>2
  <2>2. \A n \in Int : 4 * U * n \in Int /\ 6 * U * n \in Int
    BY DEF U
  <2> QED
    BY <2>1, <2>2, WholeSteps, CappedNat
<1> HIDE DEF p1, p2
<1>4. /\ DOMAIN pen = 1..2 /\ Points(pen) /\ Factors(pen, 2)
      /\ pen[1] = <<"offline_persistence", p1>> /\ pen[2] = <<"idle_recurrence", p2>>
  BY <1>3 DEF Factors, Points
<1> HIDE DEF pen
<1>5. CASE TopFactor(pen, Material) = "none"
  <2>1. p1 < Material /\ p2 < Material
    BY <1>4, <1>5, NoneIsSlight DEF Slight
  <2>2. Total(pen) = p1 + p2
    BY <1>4, TotalFew
  <2>3. Total(pen) <= 15 * U
    BY <1>3, <2>1, <2>2, SMT DEF U
  <2> QED
    BY <1>1, <1>4, <2>3, StaysOk DEF v
<1>6. CASE TopFactor(pen, Material) # "none"
  <2>1. PICK k \in 1..2 : TopFactor(pen, Material) = pen[k][1]
    BY <1>4, <1>6, NamedFactor
  <2>2. TopFactor(pen, Material) \in {"offline_persistence", "idle_recurrence"}
    BY <1>4, <2>1
  <2>3. DecantCause(f, pen) = TopFactor(pen, Material)
    BY <1>6, <2>2, MaterialNamed DEF DecantCause
  <2> QED
    BY <1>1, <2>2, <2>3 DEF v
<1> QED
  BY <1>5, <1>6

(* A gate that is closed, or whose status has no name, has no stuck time. *)
GateAtRest(f) == f.nonClosed = (f.code \in {2, 3}) /\ (~f.nonClosed => f.excess = 0)

LEMMA GateRests ==
    ASSUME NEW b, NEW g \in DOMAIN GateFeatures(b)
    PROVE  /\ GateAtRest(GateFeatures(b)[g])
           /\ g \in DOMAIN b.gates /\ GateFeatures(b)[g].code = b.gates[g]
<1> DEFINE opened == {h \in DOMAIN b.gates : b.gates[h] \in {2, 3}}
           S == {0} \cup {a.minutes : a \in {x \in b.alerts : x.gate = g}}
           f == GateFeatures(b)[g]
<1>1. g \in DOMAIN b.gates
  BY DEF GateFeatures
<1>2. /\ f.code = b.gates[g] /\ f.nonClosed = (g \in opened)
      /\ f.excess = IF g \in opened THEN Positive(Max(S) - 2) ELSE 0
  BY <1>1 DEF GateFeatures
<1>3. g \in opened <=> b.gates[g] \in {2, 3}
  BY <1>1
<1> HIDE DEF opened, S, f
<1>4. f.nonClosed = (f.code \in {2, 3})
  BY <1>2, <1>3
<1>5. ~f.nonClosed => f.excess = 0
  BY <1>2
<1>6. GateAtRest(f)
  BY <1>4, <1>5 DEF GateAtRest
<1> QED
  BY <1>1, <1>2, <1>6 DEF f

LEMMA GateCaused ==
    ASSUME NEW f, GateFeature(f), GateAtRest(f), NEW prior, GatePriorOK(prior),
           ~f.nonClosed => prior.inARow = 0, NEW pool, Whole(pool)
    PROVE  LET pen == GatePenalties(f, prior, pool)
           IN  TierOf(ScoreOf(Total(pen))) = "ok" \/ GateCause(f, pen) \notin {"healthy", "unmapped"}
<1> DEFINE pen == GatePenalties(f, prior, pool)
           rated(x) == IF prior.runs >= 3 THEN x ELSE 0
           p1 == Capped(3 * U * f.excess, 62)
           p2 == Capped(IF f.code = 2 THEN 8 * U ELSE 0, 8)
           p3 == Capped(12 * U * (prior.inARow - 1), 36)
           p4 == Capped(rated(40 * prior.stuck), 20)
           p5 == Capped(rated(35 * prior.nonClosed), 22)
           p6 == Capped(rated(50 * RobustZ(prior.nonClosed, pool)), 18)
<1>1. pen = << <<"stuck_latency", p1>>, <<"open_request", p2>>, <<"persistence", p3>>,
               <<"stuck_recurrence", p4>>, <<"non_closed_rate", p5>>, <<"peer_z", p6>> >>
  BY DEF GatePenalties
<1>2. Points(pen)
  BY GatePoints
<1>3. ASSUME ~f.nonClosed PROVE p1 = 0 /\ p2 = 0 /\ p3 = 0
  <2>1. f.code # 2 /\ f.excess = 0 /\ prior.inARow = 0
    BY <1>3 DEF GateAtRest
  <2> QED
    BY <2>1, SMT DEF Capped, AtMost, Positive, U
<1> HIDE DEF p1, p2, p3, p4, p5, p6, pen
<1>4. /\ DOMAIN pen = 1..6
      /\ pen[1] = <<"stuck_latency", p1>> /\ pen[2] = <<"open_request", p2>>
      /\ pen[3] = <<"persistence", p3>> /\ pen[4] = <<"stuck_recurrence", p4>>
      /\ pen[5] = <<"non_closed_rate", p5>> /\ pen[6] = <<"peer_z", p6>>
  BY <1>1
<1>5. /\ Factors(pen, 6)
      /\ p1 \in Nat /\ p2 \in Nat /\ p3 \in Nat /\ p4 \in Nat /\ p5 \in Nat /\ p6 \in Nat
  BY <1>2, <1>4 DEF Factors, Points
<1>6. CASE TopFactor(pen, Material) = "none"
  <2>1. /\ p1 < Material /\ p2 < Material /\ p3 < Material /\ p4 < Material /\ p5 < Material
        /\ p6 < Material
    BY <1>4, <1>5, <1>6, NoneIsSlight DEF Slight
  <2>2. Total(pen) = p1 + p2 + p3 + p4 + p5 + p6
    BY <1>2, <1>4, TotalFew
  <2>3. CASE f.nonClosed
    <3>1. GateCause(f, pen) \in {"aisle_common", "open_request", "in_use"}
      BY <1>6, <2>3 DEF GateCause, GateAtRest
    <3> QED
      BY <3>1 DEF pen
  <2>4. CASE ~f.nonClosed
    <3>1. Total(pen) <= 15 * U
      BY <1>3, <1>5, <2>1, <2>2, <2>4, SMT DEF Material, U
    <3> QED
      BY <1>2, <3>1, StaysOk DEF pen
  <2> QED
    BY <2>3, <2>4
<1>7. CASE TopFactor(pen, Material) # "none"
  <2>1. PICK k \in 1..6 : TopFactor(pen, Material) = pen[k][1]
    BY <1>5, <1>7, NamedFactor
  <2>2. TopFactor(pen, Material) \in {"stuck_latency", "open_request", "persistence",
                                      "stuck_recurrence", "non_closed_rate", "peer_z"}
    BY <1>4, <2>1
  <2>3. GateCause(f, pen) \in {TopFactor(pen, Material), "aisle_common"}
    BY <1>7 DEF GateCause
  <2> QED
    BY <2>2, <2>3 DEF pen
<1> QED
  BY <1>6, <1>7

(* A lift without errors has none of what is counted of them. *)
LiftQuiet(f) == f.errors = 0 => f.rate = 0 /\ f.repeats = 0 /\ f.distinct = 0

LEMMA LiftIsQuiet ==
    ASSUME NEW b, LiftBundle(b), NEW l \in DOMAIN LiftFeatures(b)
    PROVE  LiftQuiet(LiftFeatures(b)[l])
<1> DEFINE rows    == {i \in DOMAIN b.errors : b.errors[i].age # None}
           lifts   == {b.errors[i].lift : i \in rows}
           newest  == Min({b.errors[i].age : i \in rows})
           mine(k) == {i \in rows : b.errors[i].lift = k
                                  /\ b.errors[i].age - newest <= 24 * b.days}
           mine1   == mine(l)
           c       == [i \in mine(l) |-> b.errors[i].code]
           f       == LiftFeatures(b)[l]
<1>1. l \in lifts
  BY DEF LiftFeatures
<1>2. /\ f.errors = Cardinality(mine1) /\ f.rate = Rounded(Cardinality(mine1) * U, b.days)
      /\ f.repeats = Repeats(c) /\ f.distinct = Cardinality(Range(c))
  BY <1>1 DEF LiftFeatures
<1>3. IsFiniteSet(mine1) /\ DOMAIN c = mine1
  BY CountNat DEF LiftBundle
<1> HIDE DEF mine1, c, f
<1> SUFFICES ASSUME Cardinality(mine1) = 0
             PROVE  f.rate = 0 /\ f.repeats = 0 /\ f.distinct = 0
  BY <1>2 DEF LiftQuiet, f
<1>4. DOMAIN c = {}
  BY <1>3, FS_EmptySet
<1>5. Rounded(0 * U, b.days) = 0
  <2>1. b.days \in Nat \ {0}
    BY DEF LiftBundle
  <2>2. b.days \div 2 \in Nat /\ b.days \div 2 < b.days
    BY <2>1
  <2>3. \A x, d \in Nat : x < d => x \div d = 0
    BY SMT
  <2>4. (b.days \div 2) \div b.days = 0
    BY <2>1, <2>2, <2>3
  <2>5. 0 * U + b.days \div 2 = b.days \div 2
    BY <2>2 DEF U
  <2> QED
    BY <2>4, <2>5 DEF Rounded
<1>6. Cardinality(Range(c)) = 0
  <2>1. Range(c) = {}
    BY <1>4 DEF Range
  <2> QED
    BY <2>1, FS_EmptySet
<1>7. Repeats(c) = 0
  <2> DEFINE S == {0} \cup {Cardinality({j \in DOMAIN c : c[j] = c[i]}) : i \in DOMAIN c}
  <2>1. S = {0}
    BY <1>4
  <2>2. Max({0}) = 0
    <3>1. IsFiniteSet({0}) /\ {0} \subseteq Int /\ {0} # {}
      BY FS_Singleton
    <3>2. Max({0}) \in {0}
      BY <3>1, MinMax
    <3> QED
      BY <3>2
  <2>3. Repeats(c) = Max(S)
    BY DEF Repeats
  <2> HIDE DEF S
  <2> QED
    BY <2>1, <2>2, <2>3
<1> QED
  BY <1>2, <1>5, <1>6, <1>7

LEMMA LiftCaused ==
    ASSUME NEW f, LiftFeature(f), LiftQuiet(f)
    PROVE  LET pen == LiftPenalties(f)
           IN  TierOf(ScoreOf(Total(pen))) = "ok" \/ LiftCause(f, pen) \notin {"healthy", "unmapped"}
<1> DEFINE pen == LiftPenalties(f)
           p1 == Capped(90 * f.z, 40)
<1>1. Points(pen)
  BY LiftPoints
<1>2. CASE f.inError \/ f.errors # 0
  <2>1. CASE f.inError
    BY <2>1 DEF LiftCause
  <2>2. CASE ~f.inError
    <3>1. f.errors > 0
      BY <1>2, <2>2 DEF LiftFeature
    <3> HIDE DEF pen
    <3>2. LiftCause(f, pen) \in {"dominant", "rate_peer_z"}
      BY <2>2, <3>1 DEF LiftCause
    <3> QED
      BY <3>2 DEF pen
  <2> QED
    BY <2>1, <2>2
<1>3. CASE ~f.inError /\ f.errors = 0
  <2> DEFINE gated(x) == (x * AtMost(f.errors, 5)) \div 5
             p2 == Capped(2 * f.rate, 20)
             p3 == Capped(30 * gated(f.severity), 30)
             p4 == Capped(22 * gated(f.mechanical), 22)
             p5 == Capped((3 * U * (f.repeats - 2)) \div 2, 18)
             p6 == Capped(2 * U * (f.distinct - 2), 12)
             p7 == Capped(IF f.inError THEN 12 * U ELSE 0, 12)
  <2>1. pen = << <<"rate_peer_z", p1>>, <<"abs_rate", p2>>, <<"severity", p3>>,
                 <<"mechanical", p4>>, <<"recurrence", p5>>, <<"diversity", p6>>,
                 <<"current_error", p7>> >>
    BY DEF LiftPenalties
  <2>2. f.rate = 0 /\ f.repeats = 0 /\ f.distinct = 0
    BY <1>3 DEF LiftQuiet
  <2>3. gated(f.severity) = 0 /\ gated(f.mechanical) = 0
    <3>1. AtMost(f.errors, 5) = 0
      BY <1>3 DEF AtMost
    <3>2. \A x \in Nat : (x * 0) \div 5 = 0
      BY SMT
    <3> QED
      BY <3>1, <3>2 DEF LiftFeature
  <2> HIDE DEF gated
  <2>4. p2 = 0 /\ p3 = 0 /\ p4 = 0 /\ p5 = 0 /\ p6 = 0 /\ p7 = 0
    BY <1>3, <2>2, <2>3, SMT DEF Capped, AtMost, Positive, U
  <2> HIDE DEF p1, p2, p3, p4, p5, p6, p7, pen
  <2>5. /\ DOMAIN pen = 1..7 /\ pen[1] = <<"rate_peer_z", p1>>
        /\ \A i \in 2..7 : pen[i][2] = 0
    <3>1. /\ DOMAIN pen = 1..7
          /\ pen[2][2] = 0 /\ pen[3][2] = 0 /\ pen[4][2] = 0 /\ pen[5][2] = 0
          /\ pen[6][2] = 0 /\ pen[7][2] = 0
      BY <2>1, <2>4
    <3>2. \A i \in 2..7 : i = 2 \/ i = 3 \/ i = 4 \/ i = 5 \/ i = 6 \/ i = 7
      OBVIOUS
    <3> QED
      BY <2>1, <3>1, <3>2
  <2>6. p1 \in Nat
    BY <1>1, <2>5 DEF Points
  <2>7. Total(pen) = p1
    <3> DEFINE of(i) == IF i \in DOMAIN pen THEN pen[i][2] ELSE 0
    <3>1. Total(pen) = of(1) + of(2) + of(3) + of(4) + of(5) + of(6) + of(7) + of(8) + of(9)
                         + of(10)
      BY DEF Total
    <3>2. of(1) = p1
      BY <2>5
    <3>3. \A i \in 2..10 : of(i) = 0
      <4>1. \A i \in 2..10 : i \in 2..7 \/ i \notin 1..7
        OBVIOUS
      <4> QED
        BY <2>5, <4>1
    <3> HIDE DEF of
    <3> QED
      BY <2>6, <3>1, <3>2, <3>3
  <2>8. CASE p1 < Contributing
    <3>1. Total(pen) <= 15 * U
      BY <2>6, <2>7, <2>8, SMT DEF Contributing, U
    <3> QED
      BY <1>1, <3>1, StaysOk DEF pen
  <2>9. CASE ~(p1 < Contributing)
    <3>1. \/ TopFactor(pen, Contributing) = "none" /\ \A i \in DOMAIN pen : pen[i][2] < Contributing
          \/ \E k \in DOMAIN pen :
                TopFactor(pen, Contributing) = pen[k][1] /\ Contributing <= pen[k][2]
      <4>1. IsFiniteSet(1..7)
        <5>1. 1 \in Int /\ 7 \in Int
          OBVIOUS
        <5> QED
          BY <5>1, FS_Interval
      <4>2. 1..7 \subseteq Int
        OBVIOUS
      <4>3. Contributing \in Nat
        BY DEF Contributing
      <4> QED
        BY <1>1, <2>5, <4>1, <4>2, <4>3, TopIs
    <3>2. PICK k \in DOMAIN pen : TopFactor(pen, Contributing) = pen[k][1] /\ Contributing <= pen[k][2]
      BY <2>5, <2>9, <3>1
    <3>3. k = 1
      <4>1. k \in 2..7 \/ k = 1
        BY <2>5
      <4>2. ~(Contributing <= 0)
        BY DEF Contributing
      <4> QED
        BY <2>5, <3>2, <4>1, <4>2
    <3>4. LiftCause(f, pen) = "rate_peer_z"
      BY <1>3, <2>5, <3>2, <3>3 DEF LiftCause
    <3> QED
      BY <3>4 DEF pen
  <2> QED
    BY <2>8, <2>9
<1> QED
  BY <1>2, <1>3

(* A verdict that is not ok names a cause. *)
HasCause(v) == Flagged(v.tier) => v.cause \notin {"healthy", "unmapped"}

LEMMA LiftNamed ==
    ASSUME NEW b, LiftBundle(b), NEW stored, NEW id \in DOMAIN LiftScore(LiftFeatures(b), stored)
    PROVE  HasCause(LiftScore(LiftFeatures(b), stored)[id])
<1> DEFINE feats == LiftFeatures(b)
           pen == LiftPenalties(feats[id])
           v   == LiftScore(feats, stored)[id]
<1>1. id \in DOMAIN feats
  BY DEF LiftScore
<1>2. v.tier = TierOf(ScoreOf(Total(pen))) /\ v.cause = LiftCause(feats[id], pen)
  BY <1>1 DEF LiftScore, Judge
<1>3. LiftFeature(feats[id]) /\ LiftQuiet(feats[id])
  BY <1>1, LiftFeaturesOK, LiftIsQuiet
<1> HIDE DEF feats, v
<1>4. v.tier = "ok" \/ v.cause \notin {"healthy", "unmapped"}
  BY <1>2, <1>3, LiftCaused
<1> QED
  BY <1>4 DEF HasCause, Flagged, v, feats

LEMMA TrackerNamed ==
    ASSUME NEW b, TrackerBundle(b), NEW stored, StoreOK(stored),
           NEW id \in DOMAIN TrackerScore(TrackerFeatures(b), stored)
    PROVE  HasCause(TrackerScore(TrackerFeatures(b), stored)[id])
<1> DEFINE feats == TrackerFeatures(b)
           runCount == Len(History(stored, id))
           pen == TrackerPenalties(feats[id], runCount)
           v   == TrackerScore(feats, stored)[id]
<1>1. id \in DOMAIN feats
  BY DEF TrackerScore
<1>2. v.tier = TierOf(ScoreOf(Total(pen))) /\ v.cause = TrackerCause(pen)
  BY <1>1 DEF TrackerScore, Judge
<1>3. TrackerFeature(feats[id]) /\ runCount \in Nat
  BY <1>1, TrackerFeaturesOK, HistoryOK DEF RowsOK
<1> HIDE DEF feats, v, runCount
<1>4. v.tier = "ok" \/ v.cause \notin {"healthy", "unmapped"}
  BY <1>2, <1>3, TrackerCaused
<1> QED
  BY <1>4 DEF HasCause, Flagged, v, feats

LEMMA ControllerNamed ==
    ASSUME NEW b, ControllerBundle(b), NEW stored, StoreOK(stored),
           NEW id \in DOMAIN ControllerScore(ControllerFeatures(b), stored)
    PROVE  HasCause(ControllerScore(ControllerFeatures(b), stored)[id])
<1> DEFINE feats == ControllerFeatures(b)
           busy == BusyRuns(feats[id], History(stored, id))
           pen == ControllerPenalties(feats[id], busy)
           v   == ControllerScore(feats, stored)[id]
<1>1. id \in DOMAIN feats
  BY DEF ControllerScore
<1>2. v.tier = TierOf(ScoreOf(Total(pen))) /\ v.cause = ControllerCause(pen)
  BY <1>1 DEF ControllerScore, Judge
<1>3. feats[id].util \in Nat /\ busy \in Nat
  BY <1>1, ControllerFeaturesOK, HistoryOK, BusyRunsNat
<1> HIDE DEF feats, v, busy
<1>4. v.tier = "ok" \/ v.cause \notin {"healthy", "unmapped"}
  BY <1>2, <1>3, ControllerCaused
<1> QED
  BY <1>4 DEF HasCause, Flagged, v, feats

LEMMA NetworkNamed ==
    ASSUME NEW b, NetworkBundle(b), NEW stored, StoreOK(stored),
           NEW id \in DOMAIN NetworkScore(NetworkFeatures(b), stored)
    PROVE  HasCause(NetworkScore(NetworkFeatures(b), stored)[id])
<1> DEFINE feats == NetworkFeatures(b)
           hist == History(stored, id)
           pen == NetworkPenalties(feats[id], hist)
           v   == NetworkScore(feats, stored)[id]
<1>1. id \in DOMAIN feats
  BY DEF NetworkScore
<1>2. v.tier = TierOf(ScoreOf(Total(pen))) /\ v.cause = NetworkCause(pen)
  BY <1>1 DEF NetworkScore, Judge
<1>3. NetworkFeature(feats[id]) /\ RowsOK(hist)
  BY <1>1, NetworkFeaturesOK, HistoryOK
<1> HIDE DEF feats, v, hist
<1>4. v.tier = "ok" \/ v.cause \notin {"healthy", "unmapped"}
  BY <1>2, <1>3, NetworkCaused
<1> QED
  BY <1>4 DEF HasCause, Flagged, v, feats

LEMMA GateNamed ==
    ASSUME NEW b, GateBundle(b), NEW stored, StoreOK(stored),
           NEW id \in DOMAIN GateScore(GateFeatures(b), stored)
    PROVE  HasCause(GateScore(GateFeatures(b), stored)[id])
<1> DEFINE feats == GateFeatures(b)
           before(g) == GatePrior(feats[g], History(stored, g))
           prior == [g \in DOMAIN feats |-> before(g)]
           known == {h \in DOMAIN feats : prior[h].runs >= 3}
           pool  == [h \in known |-> prior[h].nonClosed]
           pen   == GatePenalties(feats[id], prior[id], pool)
           v     == GateScore(feats, stored)[id]
<1>1. id \in DOMAIN feats
  BY DEF GateScore
<1>2. v.tier = TierOf(ScoreOf(Total(pen))) /\ v.cause = GateCause(feats[id], pen)
  BY <1>1 DEF GateScore, Judge
<1>3. /\ IsFiniteSet(DOMAIN feats)
      /\ \A g \in DOMAIN feats : GateFeature(feats[g])
  BY OthersFinite, GateFeaturesOK
<1>4. GateAtRest(feats[id])
  BY <1>1, GateRests
<1> HIDE DEF feats, v
<1>5. \A g \in DOMAIN feats : GatePriorOK(prior[g])
  BY <1>3, HistoryOK, GatePriorIsOK DEF GateFeature
<1>6. Whole(pool)
  <2>1. IsFiniteSet(known)
    BY <1>3, FS_Subset
  <2> HIDE DEF prior
  <2> QED
    BY <1>5, <2>1 DEF Whole, GatePriorOK
<1>7. ~feats[id].nonClosed => prior[id].inARow = 0
  BY <1>1 DEF GatePrior
<1> HIDE DEF prior, pool
<1>8. v.tier = "ok" \/ v.cause \notin {"healthy", "unmapped"}
  BY <1>1, <1>2, <1>3, <1>4, <1>5, <1>6, <1>7, GateCaused
<1> QED
  BY <1>8 DEF HasCause, Flagged, v, feats

(* Naming another module keeps the tier and the cause. *)
LEMMA AlsoNames ==
    ASSUME NEW raw, NEW trend, NEW bands, NEW trendConf, NEW coldConf, NEW cause, NEW cross,
           NEW facts, NEW flag
    PROVE  LET v == Judge(raw, trend, bands, trendConf, coldConf, cause, cross, facts)
           IN  /\ Also(v, flag).tier = v.tier /\ Also(v, flag).cause = v.cause
               /\ Also(v, flag).facts = v.facts
BY DEF Also, Judge

LEMMA AlsoSame ==
    ASSUME NEW f, NEW hist, NEW minScans, NEW cross, NEW flag
    PROVE  LET v == ScoreScanner(f, hist, minScans, cross)
               w == ScoreGtpStation(f, hist)
               x == ScoreDecantStation(f, hist)
           IN  /\ Also(v, flag).tier = v.tier /\ Also(v, flag).cause = v.cause
               /\ Also(v, flag).facts = v.facts
               /\ Also(w, flag).tier = w.tier /\ Also(w, flag).cause = w.cause
               /\ Also(w, flag).facts = w.facts
               /\ Also(x, flag).tier = x.tier /\ Also(x, flag).cause = x.cause
               /\ Also(x, flag).facts = x.facts
<1>1. LET v == ScoreScanner(f, hist, minScans, cross)
      IN  Also(v, flag).tier = v.tier /\ Also(v, flag).cause = v.cause /\ Also(v, flag).facts = v.facts
  BY AlsoNames DEF ScoreScanner
<1>2. LET v == ScoreGtpStation(f, hist)
      IN  Also(v, flag).tier = v.tier /\ Also(v, flag).cause = v.cause /\ Also(v, flag).facts = v.facts
  BY AlsoNames DEF ScoreGtpStation
<1>3. LET v == ScoreDecantStation(f, hist)
      IN  Also(v, flag).tier = v.tier /\ Also(v, flag).cause = v.cause /\ Also(v, flag).facts = v.facts
  BY AlsoNames DEF ScoreDecantStation
<1> QED
  BY <1>1, <1>2, <1>3

LEMMA ScannerNamed ==
    ASSUME NEW f, ScannerFeature(f), NEW hist, RowsOK(hist), NEW minScans, NEW cross
    PROVE  LET v == ScoreScanner(f, hist, minScans, cross)
           IN  v.tier = "ok" \/ v.cause \notin {"healthy", "unmapped"}
<1> DEFINE pen == ScannerPenalties(f, hist, minScans)
           v   == ScoreScanner(f, hist, minScans, cross)
<1>1. v.tier = TierOf(ScoreOf(Total(pen))) /\ v.cause = MaterialCause(pen)
  BY DEF ScoreScanner, Judge
<1> HIDE DEF v
<1> QED
  BY <1>1, ScannerCaused DEF v

LEMMA StationNamed ==
    ASSUME NEW f, StationFeature(f), NEW hist, RowsOK(hist)
    PROVE  LET v == ScoreGtpStation(f, hist)
           IN  v.tier = "ok" \/ v.cause \notin {"healthy", "unmapped"}
<1> DEFINE pen == GtpStationPenalties(f, hist)
           v   == ScoreGtpStation(f, hist)
<1>1. v.tier = TierOf(ScoreOf(Total(pen))) /\ v.cause = GtpStationCause(f, pen)
  BY DEF ScoreGtpStation, Judge
<1> HIDE DEF v
<1> QED
  BY <1>1, StationCaused DEF v

LEMMA GtpNamed ==
    ASSUME NEW b, GtpBundle(b), NEW stored, StoreOK(stored),
           NEW id \in DOMAIN GtpScore(GtpFeatures(b), stored)
    PROVE  HasCause(GtpScore(GtpFeatures(b), stored)[id])
<1> DEFINE feats == GtpFeatures(b)
           of(d) == IF feats[d].entity = "station" THEN ScoreGtpStation(feats[d], History(stored, d))
                    ELSE ScoreGtpScanner(feats[d], History(stored, d))
           alone == [d \in DOMAIN feats |-> of(d)]
           linked == CrossLinked(feats, alone)
           w == of(id)
           v == GtpScore(feats, stored)[id]
<1>1. id \in DOMAIN feats
  BY DEF GtpScore
<1>2. v = IF id \in linked THEN Also(w, "corroboration") ELSE w
  BY <1>1 DEF GtpScore
<1>3. RowsOK(History(stored, id)) /\ GtpFeature(feats[id])
  BY <1>1, HistoryOK, GtpFeaturesOK
<1> HIDE DEF feats, linked
<1>4. v.tier = w.tier /\ v.cause = w.cause
  BY <1>2, AlsoSame DEF ScoreGtpScanner
<1>5. w.tier = "ok" \/ w.cause \notin {"healthy", "unmapped"}
  <2>1. CASE feats[id].entity = "station"
    BY <1>3, <2>1, StationNamed DEF GtpFeature
  <2>2. CASE feats[id].entity # "station"
    BY <1>3, <2>2, ScannerNamed DEF GtpFeature, ScoreGtpScanner
  <2> QED
    BY <2>1, <2>2
<1> HIDE DEF v, w
<1> QED
  BY <1>4, <1>5 DEF HasCause, Flagged, v, feats

LEMMA DecantNamed ==
    ASSUME NEW b, DecantBundle(b), NEW stored, StoreOK(stored),
           NEW id \in DOMAIN DecantScore(DecantFeatures(b), stored)
    PROVE  HasCause(DecantScore(DecantFeatures(b), stored)[id])
<1> DEFINE feats == DecantFeatures(b)
           of(d) == IF feats[d].entity = "station" THEN ScoreDecantStation(feats[d], History(stored, d))
                    ELSE ScoreDecantScanner(feats[d], History(stored, d))
           alone == [d \in DOMAIN feats |-> of(d)]
           line == LineTrouble(feats, alone)
           w == of(id)
           v == DecantScore(feats, stored)[id]
<1>1. id \in DOMAIN feats
  BY DEF DecantScore
<1>2. v = IF id \in line THEN Also(w, "corroboration") ELSE w
  BY <1>1 DEF DecantScore
<1>3. RowsOK(History(stored, id)) /\ DecantFeature(feats[id])
  BY <1>1, HistoryOK, DecantFeaturesOK
<1> HIDE DEF feats, line
<1>4. v.tier = w.tier /\ v.cause = w.cause
  BY <1>2, AlsoSame DEF ScoreDecantScanner
<1>5. w.tier = "ok" \/ w.cause \notin {"healthy", "unmapped"}
  <2>1. CASE feats[id].entity = "station"
    BY <1>3, <2>1, DecantStationCaused
  <2>2. CASE feats[id].entity # "station"
    BY <1>3, <2>2, ScannerNamed DEF DecantFeature, ScoreDecantScanner
  <2> QED
    BY <2>1, <2>2
<1> HIDE DEF v, w
<1> QED
  BY <1>4, <1>5 DEF HasCause, Flagged, v, feats

-----------------------------------------------------------------------------
(* Worse features: no factor takes fewer points, so the score is no better  *)

(* Factor by factor as many points or more. *)
TakesMore(pen, more) ==
    /\ Points(pen) /\ Points(more) /\ DOMAIN pen = DOMAIN more
    /\ \A i \in DOMAIN pen : pen[i][2] <= more[i][2]

LEMMA MoreTaken ==
    ASSUME NEW pen, NEW more, TakesMore(pen, more)
    PROVE  ScoreOf(Total(more)) <= ScoreOf(Total(pen))
<1> DEFINE of(i) == IF i \in DOMAIN pen THEN pen[i][2] ELSE 0
           to(i) == IF i \in DOMAIN more THEN more[i][2] ELSE 0
<1>1. \A i \in 1..10 : of(i) \in Nat /\ to(i) \in Nat /\ of(i) <= to(i)
  BY DEF TakesMore, Points
<1>2. Total(pen) = of(1) + of(2) + of(3) + of(4) + of(5) + of(6) + of(7) + of(8) + of(9) + of(10)
  BY DEF Total
<1>3. Total(more) = to(1) + to(2) + to(3) + to(4) + to(5) + to(6) + to(7) + to(8) + to(9) + to(10)
  BY DEF Total
<1> HIDE DEF of, to
<1>4. Total(pen) <= Total(more)
  BY <1>1, <1>2, <1>3
<1>5. Total(pen) \in Nat /\ Total(more) \in Nat
  BY TotalNat DEF TakesMore
<1> QED
  BY <1>4, <1>5, RawScore

(* A penalty grows from its floor on. *)
LEMMA CappedFrom ==
    ASSUME NEW x \in Int, NEW y \in Int, NEW cap \in Nat, x <= y \/ x <= 0
    PROVE  Capped(x, cap) <= Capped(y, cap)
BY SMT DEF Capped, AtMost, Positive, U

(* What counts in full only from the given number of cases on. *)
LEMMA GatedGrows ==
    ASSUME NEW x \in Nat, NEW y \in Nat, NEW a \in Nat, NEW b \in Nat, x <= y, a <= b,
           NEW n \in Nat \ {0}
    PROVE  (x * AtMost(a, n)) \div n <= (y * AtMost(b, n)) \div n
<1> DEFINE p == AtMost(a, n)
           q == AtMost(b, n)
<1>1. p \in Nat /\ q \in Nat /\ p <= q
  BY DEF AtMost
<1> HIDE DEF p, q
<1>2. x * p <= y * p
  BY <1>1
<1>3. y * p <= y * q
  BY <1>1
<1>4. x * p \in Nat /\ y * q \in Nat /\ x * p <= y * q
  BY <1>1, <1>2, <1>3
<1>5. \A s, t \in Nat : s <= t => s \div n <= t \div n
  BY SMT
<1> QED
  BY <1>4, <1>5 DEF p, q

-----------------------------------------------------------------------------

LEMMA LiftGrows ==
    ASSUME NEW f, NEW g, LiftFeature(f), LiftFeature(g), LiftNoBetter(f, g)
    PROVE  TakesMore(LiftPenalties(f), LiftPenalties(g))
<1> DEFINE of(x) == (x * AtMost(f.errors, 5)) \div 5
           to(x) == (x * AtMost(g.errors, 5)) \div 5
<1>1. /\ f.z <= g.z \/ f.z <= 0
      /\ f.rate <= g.rate
      /\ f.severity <= g.severity
      /\ f.mechanical <= g.mechanical
      /\ f.errors <= g.errors
      /\ f.repeats <= g.repeats \/ f.repeats <= 2
      /\ f.distinct <= g.distinct \/ f.distinct <= 2
      /\ f.inError => g.inError
  BY DEF LiftNoBetter, NoLower, StillUp, LiftFeature
<1>2. /\ of(f.severity) \in Nat /\ to(g.severity) \in Nat
      /\ of(f.mechanical) \in Nat /\ to(g.mechanical) \in Nat
  BY SMT DEF LiftFeature, AtMost
<1>3. of(f.severity) <= to(g.severity) /\ of(f.mechanical) <= to(g.mechanical)
  BY <1>1, GatedGrows DEF LiftFeature
<1> HIDE DEF of, to
<1>4. /\ Capped(90 * f.z, 40) <= Capped(90 * g.z, 40)
      /\ Capped(2 * f.rate, 20) <= Capped(2 * g.rate, 20)
      /\ Capped(30 * of(f.severity), 30) <= Capped(30 * to(g.severity), 30)
      /\ Capped(22 * of(f.mechanical), 22) <= Capped(22 * to(g.mechanical), 22)
  BY <1>1, <1>2, <1>3, CappedFrom DEF LiftFeature
<1>5. /\ Capped((3 * U * (f.repeats - 2)) \div 2, 18) <= Capped((3 * U * (g.repeats - 2)) \div 2, 18)
      /\ Capped(2 * U * (f.distinct - 2), 12) <= Capped(2 * U * (g.distinct - 2), 12)
  BY <1>1 DEF LiftFeature, Capped, AtMost, Positive, U
<1>6. Capped(IF f.inError THEN 12 * U ELSE 0, 12) <= Capped(IF g.inError THEN 12 * U ELSE 0, 12)
  BY <1>1 DEF Capped, AtMost, Positive, U
<1>7. Points(LiftPenalties(f)) /\ Points(LiftPenalties(g))
  BY LiftPoints
<1> QED
  BY <1>4, <1>5, <1>6, <1>7 DEF TakesMore, LiftPenalties, of, to

LEMMA ShuttleGrows ==
    ASSUME NEW f, NEW g, ShuttleFeature(f), ShuttleFeature(g), ShuttleNoBetter(f, g)
    PROVE  TakesMore(ShuttlePenalties(f), ShuttlePenalties(g))
<1> DEFINE flag(x, points) == IF x THEN points * U ELSE 0
<1>1. /\ f.z <= g.z \/ f.z <= 0
      /\ f.epc <= g.epc
      /\ f.severity <= g.severity
      /\ f.mechanical <= g.mechanical
      /\ f.repeats <= g.repeats \/ f.repeats <= 2
      /\ f.distinct <= g.distinct \/ f.distinct <= 2
      /\ f.reshuffle <= g.reshuffle
      /\ f.daily <= g.daily
      /\ f.pickError => g.pickError
      /\ f.alert => g.alert
  BY DEF ShuttleNoBetter, NoLower, StillUp, ShuttleFeature
<1>2. Points(ShuttlePenalties(f)) /\ Points(ShuttlePenalties(g))
  BY ShuttlePoints
<1>3. /\ Capped(60 * f.z, 36) <= Capped(60 * g.z, 36)
      /\ Capped(28 * f.severity, 28) <= Capped(28 * g.severity, 28)
      /\ Capped(20 * f.mechanical, 20) <= Capped(20 * g.mechanical, 20)
      /\ Capped(18 * f.reshuffle, 8) <= Capped(18 * g.reshuffle, 8)
  BY <1>1, CappedFrom DEF ShuttleFeature
<1>4. /\ Capped((3 * U * (f.repeats - 2)) \div 2, 16) <= Capped((3 * U * (g.repeats - 2)) \div 2, 16)
      /\ Capped(2 * U * (f.distinct - 2), 10) <= Capped(2 * U * (g.distinct - 2), 10)
      /\ Capped(3 * U * f.daily, 9) <= Capped(3 * U * g.daily, 9)
      /\ Capped(f.epc \div 5, 18) <= Capped(g.epc \div 5, 18)
  BY <1>1 DEF ShuttleFeature, Capped, AtMost, Positive, U
<1>5. /\ Capped(flag(f.pickError, 12), 12) <= Capped(flag(g.pickError, 12), 12)
      /\ Capped(flag(f.alert, 8), 8) <= Capped(flag(g.alert, 8), 8)
  BY <1>1 DEF Capped, AtMost, Positive, U
<1> QED
  BY <1>2, <1>3, <1>4, <1>5 DEF TakesMore, ShuttlePenalties

LEMMA TrackerGrows ==
    ASSUME NEW f, NEW g, TrackerFeature(f), TrackerFeature(g), TrackerNoBetter(f, g),
           NEW runs \in Nat
    PROVE  TakesMore(TrackerPenalties(f, runs), TrackerPenalties(g, runs))
<1>1. /\ f.recent <= g.recent /\ f.liftErrors <= g.liftErrors
      /\ f.shuttles <= g.shuttles \/ f.shuttles <= 1
      /\ f.z <= g.z \/ f.z <= 0
      /\ f.bad - f.recent <= g.bad - g.recent
  BY DEF TrackerNoBetter, NoLower, TrackerFeature
<1>2. Points(TrackerPenalties(f, runs)) /\ Points(TrackerPenalties(g, runs))
  BY TrackerPoints
<1>3. /\ Capped(8 * U * (f.bad - f.recent), 34) <= Capped(8 * U * (g.bad - g.recent), 34)
      /\ Capped(9 * U * f.recent, 30) <= Capped(9 * U * g.recent, 30)
      /\ Capped(7 * U * runs, 30) <= Capped(7 * U * runs, 30)
      /\ Capped(5 * U * (f.shuttles - 1), 15) <= Capped(5 * U * (g.shuttles - 1), 15)
      /\ Capped(6 * U * f.liftErrors, 12) <= Capped(6 * U * g.liftErrors, 12)
      /\ Capped(50 * f.z, 12) <= Capped(50 * g.z, 12)
  BY <1>1 DEF TrackerFeature, Capped, AtMost, Positive, U
<1> QED
  BY <1>2, <1>3 DEF TakesMore, TrackerPenalties

LEMMA ConveyorGrows ==
    ASSUME NEW f, NEW g, ConveyorFeature(f), ConveyorFeature(g), ConveyorNoBetter(f, g)
    PROVE  TakesMore(ConveyorPenalties(f), ConveyorPenalties(g))
<1>1. /\ f.mean <= g.mean \/ f.mean <= U
      /\ f.severe <= g.severe
      /\ f.peak <= g.peak \/ f.peak <= 2 * U
      /\ f.buffer <= g.buffer \/ f.buffer <= 3000
      /\ f.z <= g.z \/ f.z <= 0
      /\ f.p90 <= g.p90 \/ f.p90 <= U
      /\ f.idle <= g.idle \/ f.idle <= 4000
      /\ f.idleZ <= g.idleZ \/ f.idleZ <= 999
  BY DEF ConveyorNoBetter, NoLower, ConveyorFeature
<1>2. Points(ConveyorPenalties(f)) /\ Points(ConveyorPenalties(g))
  BY ConveyorPoints
<1>3. /\ Capped(40 * (f.mean - U), 35) <= Capped(40 * (g.mean - U), 35)
      /\ Capped(30 * f.severe, 25) <= Capped(30 * g.severe, 25)
      /\ Capped(15 * (f.peak - 2 * U), 15) <= Capped(15 * (g.peak - 2 * U), 15)
      /\ Capped(25 * (f.buffer - 3000), 18) <= Capped(25 * (g.buffer - 3000), 18)
      /\ Capped(60 * f.z, 18) <= Capped(60 * g.z, 18)
      /\ Capped(12 * (f.p90 - U), 12) <= Capped(12 * (g.p90 - U), 12)
  BY <1>1 DEF ConveyorFeature, Capped, AtMost, Positive, U
<1>4. Capped(IF f.idleZ >= 1000 THEN 100 * (f.idle - 4000) ELSE 0, 55)
        <= Capped(IF g.idleZ >= 1000 THEN 100 * (g.idle - 4000) ELSE 0, 55)
  BY <1>1 DEF ConveyorFeature, Capped, AtMost, Positive, U
<1> QED
  BY <1>2, <1>3, <1>4 DEF TakesMore, ConveyorPenalties

LEMMA BinGrows ==
    ASSUME NEW f, NEW g, BinFeature(f), BinFeature(g), BinNoBetter(f, g), NEW runs \in Nat
    PROVE  TakesMore(BinPenalties(f, runs), BinPenalties(g, runs))
<1>1. /\ f.age <= g.age \/ f.age <= 2
      /\ f.totes <= g.totes \/ f.totes <= 1
      /\ f.past <= g.past
      /\ f.age >= 6 => f.z <= g.z \/ f.z <= 0
  BY DEF BinNoBetter, NoLower, BinFeature
<1>2. Points(BinPenalties(f, runs)) /\ Points(BinPenalties(g, runs))
  BY BinPoints
<1>3. /\ Capped(10 * U, 10) <= Capped(10 * U, 10)
      /\ Capped(2 * U * (f.age - 2), 35) <= Capped(2 * U * (g.age - 2), 35)
      /\ Capped(12 * U * (f.totes - 1), 24) <= Capped(12 * U * (g.totes - 1), 24)
      /\ Capped((4 * U * f.past) \div 10, 12) <= Capped((4 * U * g.past) \div 10, 12)
      /\ Capped(8 * U * runs, 40) <= Capped(8 * U * runs, 40)
  BY <1>1 DEF BinFeature, Capped, AtMost, Positive, U
<1>4. Capped(IF f.age < 6 THEN 0 ELSE 40 * f.z, 14) <= Capped(IF g.age < 6 THEN 0 ELSE 40 * g.z, 14)
  BY <1>1 DEF BinFeature, Capped, AtMost, Positive, U
<1> QED
  BY <1>2, <1>3, <1>4 DEF TakesMore, BinPenalties

(* A node that is busier has been busy for as many runs or more. *)
LEMMA BusyGrows ==
    ASSUME NEW f, NEW g, f.util \in Nat, g.util \in Nat,
           f.util <= g.util \/ f.util <= 60 * Percent, NEW hist, RowsOK(hist)
    PROVE  BusyRuns(f, hist) <= BusyRuns(g, hist)
<1> DEFINE S == {i \in DOMAIN hist : hist[i].facts.util < 80 * Percent} \cup {Len(hist) + 1}
<1>1. BusyRuns(f, hist) \in Nat /\ BusyRuns(g, hist) \in Nat
  BY BusyRunsNat
<1>2. /\ BusyRuns(f, hist) = IF f.util < 80 * Percent THEN 0 ELSE Min(S)
      /\ BusyRuns(g, hist) = IF g.util < 80 * Percent THEN 0 ELSE Min(S)
  BY DEF BusyRuns
<1>3. f.util < 80 * Percent \/ ~(g.util < 80 * Percent)
  BY DEF Percent
<1> HIDE DEF S
<1> QED
  BY <1>1, <1>2, <1>3

LEMMA ControllerGrows ==
    ASSUME NEW f, NEW g, f.util \in Nat, g.util \in Nat, ControllerNoBetter(f, g),
           NEW hist, RowsOK(hist)
    PROVE  TakesMore(ControllerPenalties(f, BusyRuns(f, hist)),
                     ControllerPenalties(g, BusyRuns(g, hist)))
<1>1. f.util <= g.util \/ f.util <= 60 * Percent
  BY DEF ControllerNoBetter, NoLower
<1> DEFINE busy == BusyRuns(f, hist)
           more == BusyRuns(g, hist)
<1>2. busy \in Nat /\ more \in Nat /\ busy <= more
  BY <1>1, BusyRunsNat, BusyGrows
<1> HIDE DEF busy, more
<1>3. /\ Capped(25 * (f.util - 60 * Percent), 70) <= Capped(25 * (g.util - 60 * Percent), 70)
      /\ Capped(6 * U * (busy - 1), 30) <= Capped(6 * U * (more - 1), 30)
  BY <1>1, <1>2 DEF Capped, AtMost, Positive, U, Percent
<1>4. Points(ControllerPenalties(f, busy)) /\ Points(ControllerPenalties(g, more))
  BY <1>2, ControllerPoints
<1>5. TakesMore(ControllerPenalties(f, busy), ControllerPenalties(g, more))
  BY <1>3, <1>4 DEF TakesMore, ControllerPenalties
<1> QED
  BY <1>5 DEF busy, more

LEMMA NetworkGrows ==
    ASSUME NEW f, NEW g, NetworkFeature(f), NetworkFeature(g), NetworkNoBetter(f, g),
           NEW hist, RowsOK(hist)
    PROVE  TakesMore(NetworkPenalties(f, hist), NetworkPenalties(g, hist))
<1> DEFINE again == Cardinality({i \in DOMAIN hist : hist[i].facts.down >= 6000})
<1>1. /\ f.down <= g.down \/ f.down <= 3000
      /\ f.down >= 4000 => f.z <= g.z \/ f.z <= 0
      /\ f.today > f.down /\ f.today > 5000 => g.today > g.down /\ f.today <= g.today
  BY DEF NetworkNoBetter, NoLower
<1>2. again \in Nat
  <2> DEFINE S == {i \in DOMAIN hist : hist[i].facts.down >= 6000}
  <2>1. S \in SUBSET DOMAIN hist
    OBVIOUS
  <2> HIDE DEF S
  <2>2. Cardinality(S) \in Nat
    BY <2>1, CountRows
  <2> QED
    BY <2>2 DEF S
<1> HIDE DEF again
<1>3. /\ Capped(30 * (f.down - 3000), 45) <= Capped(30 * (g.down - 3000), 45)
      /\ Capped(IF f.down >= 4000 THEN 40 * f.z ELSE 0, 16)
           <= Capped(IF g.down >= 4000 THEN 40 * g.z ELSE 0, 16)
      /\ Capped(6 * U * again, 30) <= Capped(6 * U * again, 30)
  BY <1>1, <1>2 DEF NetworkFeature, Capped, AtMost, Positive, U
<1>4. Capped(IF f.today > f.down THEN 15 * (f.today - 5000) ELSE 0, 20)
        <= Capped(IF g.today > g.down THEN 15 * (g.today - 5000) ELSE 0, 20)
  BY <1>1 DEF NetworkFeature, Capped, AtMost, Positive, U
<1>5. Points(NetworkPenalties(f, hist)) /\ Points(NetworkPenalties(g, hist))
  BY NetworkPoints
<1>6. /\ NetworkPenalties(f, hist) =
           << <<"downtime_abs",    Capped(30 * (f.down - 3000), 45)>>,
              <<"downtime_peer_z", Capped(IF f.down >= 4000 THEN 40 * f.z ELSE 0, 16)>>,
              <<"recent_spike",    Capped(IF f.today > f.down THEN 15 * (f.today - 5000) ELSE 0, 20)>>,
              <<"recurrence",      Capped(6 * U * again, 30)>> >>
      /\ NetworkPenalties(g, hist) =
           << <<"downtime_abs",    Capped(30 * (g.down - 3000), 45)>>,
              <<"downtime_peer_z", Capped(IF g.down >= 4000 THEN 40 * g.z ELSE 0, 16)>>,
              <<"recent_spike",    Capped(IF g.today > g.down THEN 15 * (g.today - 5000) ELSE 0, 20)>>,
              <<"recurrence",      Capped(6 * U * again, 30)>> >>
  BY DEF NetworkPenalties, again
<1> QED
  BY <1>3, <1>4, <1>5, <1>6 DEF TakesMore

LEMMA ScannerGrows ==
    ASSUME NEW f, NEW g, ScannerFeature(f), ScannerFeature(g), ScannerNoBetter(f, g),
           NEW hist, RowsOK(hist), NEW minScans
    PROVE  TakesMore(ScannerPenalties(f, hist, minScans), ScannerPenalties(g, hist, minScans))
<1> DEFINE S == {i \in DOMAIN hist : hist[i].facts.misread >= 2000
                                      /\ hist[i].facts.scans >= minScans}
           again == Cardinality(S)
           of(x) == (x * AtMost(f.scans, 200)) \div 200
           to(x) == (x * AtMost(g.scans, 200)) \div 200
           few   == Capped(30 * f.misread, 75)
           many  == Capped(30 * g.misread, 75)
<1>1. /\ f.scans <= g.scans /\ f.misread <= g.misread
      /\ f.scans >= 200 /\ f.misread >= 1000 => f.z <= g.z \/ f.z <= 0
  BY DEF ScannerNoBetter, NoLower, ScannerFeature
<1>2. again \in Nat
  <2>1. S \in SUBSET DOMAIN hist
    OBVIOUS
  <2> HIDE DEF S
  <2> QED
    BY <2>1, CountRows
<1>3. few \in Nat /\ many \in Nat /\ few <= many
  BY <1>1 DEF Capped, AtMost, Positive, U, ScannerFeature
<1> HIDE DEF again, few, many
<1>4. of(few) <= to(many)
  BY <1>1, <1>3, GatedGrows DEF ScannerFeature
<1> HIDE DEF of, to
<1>5. /\ Capped(IF f.scans >= 200 /\ f.misread >= 1000 THEN 40 * f.z ELSE 0, 16)
           <= Capped(IF g.scans >= 200 /\ g.misread >= 1000 THEN 40 * g.z ELSE 0, 16)
      /\ Capped(6 * U * again, 30) <= Capped(6 * U * again, 30)
  BY <1>1, <1>2 DEF ScannerFeature, Capped, AtMost, Positive, U
<1>6. Points(ScannerPenalties(f, hist, minScans)) /\ Points(ScannerPenalties(g, hist, minScans))
  BY ScannerPoints
<1>7. /\ ScannerPenalties(f, hist, minScans) =
           << <<"misread",    of(few)>>,
              <<"peer_z",     Capped(IF f.scans >= 200 /\ f.misread >= 1000 THEN 40 * f.z ELSE 0, 16)>>,
              <<"recurrence", Capped(6 * U * again, 30)>> >>
      /\ ScannerPenalties(g, hist, minScans) =
           << <<"misread",    to(many)>>,
              <<"peer_z",     Capped(IF g.scans >= 200 /\ g.misread >= 1000 THEN 40 * g.z ELSE 0, 16)>>,
              <<"recurrence", Capped(6 * U * again, 30)>> >>
  BY DEF ScannerPenalties, of, to, few, many, again
<1> QED
  BY <1>4, <1>5, <1>6, <1>7 DEF TakesMore

(* The stored rows are the same: a flag that is up now was up before as long. *)
LEMMA InARowGrows ==
    ASSUME NEW now, NEW then, now => then,
           NEW hist, RowsOK(hist), NEW S, NEW before \in [DOMAIN hist -> S]
    PROVE  InARow(now, before) <= InARow(then, before)
<1> DEFINE least == Min({i \in DOMAIN before : ~before[i]} \cup {Len(before) + 1})
<1>1. InARow(now, before) \in Nat /\ InARow(then, before) \in Nat
  BY InARowNat
<1>2. /\ InARow(now, before) = IF ~now THEN 0 ELSE least
      /\ InARow(then, before) = IF ~then THEN 0 ELSE least
  BY DEF InARow
<1> HIDE DEF least
<1>3. CASE now
  <2>1. InARow(now, before) = InARow(then, before)
    BY <1>2, <1>3
  <2> QED
    BY <1>1, <2>1
<1>4. CASE ~now
  <2>1. InARow(now, before) = 0
    BY <1>2, <1>4
  <2> QED
    BY <1>1, <2>1
<1> QED
  BY <1>3, <1>4

(* The runs in a row that a station is switched off, or idle. *)
LEMMA OffGrows ==
    ASSUME NEW now, NEW then, now => then, NEW hist, RowsOK(hist)
    PROVE  LET off  == [i \in DOMAIN hist |-> hist[i].facts.inactive]
               rest == [i \in DOMAIN hist |-> hist[i].facts.idle]
           IN  /\ InARow(now, off) \in Nat /\ InARow(then, off) \in Nat
               /\ InARow(now, off) <= InARow(then, off)
               /\ InARow(now, rest) \in Nat /\ InARow(then, rest) \in Nat
               /\ InARow(now, rest) <= InARow(then, rest)
<1> DEFINE off  == [i \in DOMAIN hist |-> hist[i].facts.inactive]
           rest == [i \in DOMAIN hist |-> hist[i].facts.idle]
<1>1. /\ off \in [DOMAIN hist -> {hist[i].facts.inactive : i \in DOMAIN hist}]
      /\ rest \in [DOMAIN hist -> {hist[i].facts.idle : i \in DOMAIN hist}]
  OBVIOUS
<1> HIDE DEF off, rest
<1>2. /\ InARow(now, off) \in Nat /\ InARow(then, off) \in Nat
      /\ InARow(now, rest) \in Nat /\ InARow(then, rest) \in Nat
  BY <1>1, InARowNat
<1>3. InARow(now, off) <= InARow(then, off) /\ InARow(now, rest) <= InARow(then, rest)
  BY <1>1, InARowGrows
<1> QED
  BY <1>2, <1>3 DEF off, rest

LEMMA StationAgain ==
    ASSUME NEW hist, RowsOK(hist)
    PROVE  Cardinality({i \in DOMAIN hist : hist[i].facts.perDay > 20000
                                              \/ hist[i].facts.z >= 2000}) \in Nat
<1> DEFINE S == {i \in DOMAIN hist : hist[i].facts.perDay > 20000 \/ hist[i].facts.z >= 2000}
<1>1. S \in SUBSET DOMAIN hist
  OBVIOUS
<1> HIDE DEF S
<1>2. Cardinality(S) \in Nat
  BY <1>1, CountRows
<1> QED
  BY <1>2 DEF S

LEMMA StationOff ==
    ASSUME NEW f, NEW g, f.inactive => g.inactive, NEW hist, RowsOK(hist)
    PROVE  LET off == [i \in DOMAIN hist |-> hist[i].facts.inactive]
           IN  /\ InARow(f.inactive, off) \in Nat /\ InARow(g.inactive, off) \in Nat
               /\ InARow(f.inactive, off) <= InARow(g.inactive, off)
  BY OffGrows, Zenon

LEMMA StationGrows ==
    ASSUME NEW f, NEW g, StationFeature(f), StationFeature(g),
           f.z <= g.z \/ f.z <= 0, f.perDay <= g.perDay \/ f.perDay <= 20000,
           f.inactive => g.inactive,
           NEW hist, RowsOK(hist)
    PROVE  TakesMore(GtpStationPenalties(f, hist), GtpStationPenalties(g, hist))
<1> DEFINE before == [i \in DOMAIN hist |-> hist[i].facts.inactive]
<1>1. /\ InARow(f.inactive, before) \in Nat /\ InARow(g.inactive, before) \in Nat
      /\ InARow(f.inactive, before) <= InARow(g.inactive, before)
  BY StationOff, SMTT(30)
<1> DEFINE again == Cardinality({i \in DOMAIN hist : hist[i].facts.perDay > 20000
                                                   \/ hist[i].facts.z >= 2000})
           down  == InARow(f.inactive, before)
           still == InARow(g.inactive, before)
<1>2. again \in Nat
  BY StationAgain
<1>3. down \in Nat /\ still \in Nat /\ down <= still
  BY <1>1
<1>4. Points(GtpStationPenalties(f, hist)) /\ Points(GtpStationPenalties(g, hist))
  BY StationPoints
<1>5. /\ GtpStationPenalties(f, hist) =
           << <<"discrepancy_peer_z",  Capped(60 * f.z, 40)>>,
              <<"discrepancy_abs",     Capped(15 * (f.perDay - 20000), 20)>>,
              <<"recurrence",          Capped(6 * U * again, 30)>>,
              <<"offline_persistence", Capped(4 * U * (down - 1), 20)>> >>
      /\ GtpStationPenalties(g, hist) =
           << <<"discrepancy_peer_z",  Capped(60 * g.z, 40)>>,
              <<"discrepancy_abs",     Capped(15 * (g.perDay - 20000), 20)>>,
              <<"recurrence",          Capped(6 * U * again, 30)>>,
              <<"offline_persistence", Capped(4 * U * (still - 1), 20)>> >>
  BY DEF GtpStationPenalties
<1> HIDE DEF again, down, still
<1>6. /\ Capped(60 * f.z, 40) <= Capped(60 * g.z, 40)
      /\ Capped(15 * (f.perDay - 20000), 20) <= Capped(15 * (g.perDay - 20000), 20)
      /\ Capped(6 * U * again, 30) <= Capped(6 * U * again, 30)
      /\ Capped(4 * U * (down - 1), 20) <= Capped(4 * U * (still - 1), 20)
  BY <1>2, <1>3 DEF StationFeature, Capped, AtMost, Positive, U
<1> QED
  BY <1>4, <1>5, <1>6 DEF TakesMore

(* What a gate did before is the same for both, and so are its peers.  *)
LEMMA GateGrows ==
    ASSUME NEW f, NEW g, GateFeature(f), GateFeature(g), GateNoBetter(f, g),
           NEW hist, RowsOK(hist), NEW pool, Whole(pool)
    PROVE  TakesMore(GatePenalties(f, GatePrior(f, hist), pool),
                     GatePenalties(g, GatePrior(g, hist), pool))
<1> DEFINE before == GatePrior(f, hist)
           prior  == GatePrior(g, hist)
           z      == RobustZ(before.nonClosed, pool)
           rated(x) == IF before.runs >= 3 THEN x ELSE 0
           least  == Min({i \in DOMAIN hist : ~hist[i].facts.nonClosed} \cup {Len(hist) + 1})
<1>1. /\ f.excess <= g.excess
      /\ f.code = 2 => g.code = 2
      /\ f.nonClosed => g.nonClosed
  BY DEF GateNoBetter, NoLower, StillUp, GateFeature
<1>2. GatePriorOK(before) /\ GatePriorOK(prior)
  BY GatePriorIsOK DEF GateFeature
<1>3. before.runs = prior.runs /\ before.stuck = prior.stuck /\ before.nonClosed = prior.nonClosed
  BY DEF GatePrior
<1>4. before.inARow <= prior.inARow
  <2>1. /\ before.inARow = IF f.nonClosed THEN least ELSE 0
        /\ prior.inARow = IF g.nonClosed THEN least ELSE 0
    BY DEF GatePrior
  <2> HIDE DEF before, prior, least
  <2> QED
    BY <1>1, <1>2, <2>1 DEF GatePriorOK
<1>5. Points(GatePenalties(f, before, pool)) /\ Points(GatePenalties(g, prior, pool))
  BY <1>2, GatePoints
<1>6. z \in Int
  BY <1>2, RobustZInt DEF GatePriorOK
<1> HIDE DEF before, prior
<1>7. /\ rated(40 * before.stuck) \in Int
      /\ rated(35 * before.nonClosed) \in Int
      /\ rated(50 * z) \in Int
  <2> HIDE DEF z
  <2> QED
    BY <1>2, <1>6 DEF GatePriorOK
<1>8. /\ GatePenalties(f, before, pool) =
        << <<"stuck_latency",    Capped(3 * U * f.excess, 62)>>,
           <<"open_request",     Capped(IF f.code = 2 THEN 8 * U ELSE 0, 8)>>,
           <<"persistence",      Capped(12 * U * (before.inARow - 1), 36)>>,
           <<"stuck_recurrence", Capped(rated(40 * before.stuck), 20)>>,
           <<"non_closed_rate",  Capped(rated(35 * before.nonClosed), 22)>>,
           <<"peer_z",           Capped(rated(50 * z), 18)>> >>
      /\ GatePenalties(g, prior, pool) =
        << <<"stuck_latency",    Capped(3 * U * g.excess, 62)>>,
           <<"open_request",     Capped(IF g.code = 2 THEN 8 * U ELSE 0, 8)>>,
           <<"persistence",      Capped(12 * U * (prior.inARow - 1), 36)>>,
           <<"stuck_recurrence", Capped(rated(40 * before.stuck), 20)>>,
           <<"non_closed_rate",  Capped(rated(35 * before.nonClosed), 22)>>,
           <<"peer_z",           Capped(rated(50 * z), 18)>> >>
  BY <1>3 DEF GatePenalties
<1> HIDE DEF z, rated
<1>9. /\ Capped(3 * U * f.excess, 62) <= Capped(3 * U * g.excess, 62)
      /\ Capped(IF f.code = 2 THEN 8 * U ELSE 0, 8) <= Capped(IF g.code = 2 THEN 8 * U ELSE 0, 8)
      /\ Capped(12 * U * (before.inARow - 1), 36) <= Capped(12 * U * (prior.inARow - 1), 36)
  BY <1>1, <1>2, <1>4 DEF GateFeature, GatePriorOK, Capped, AtMost, Positive, U
<1>10. /\ Capped(rated(40 * before.stuck), 20) <= Capped(rated(40 * before.stuck), 20)
       /\ Capped(rated(35 * before.nonClosed), 22) <= Capped(rated(35 * before.nonClosed), 22)
       /\ Capped(rated(50 * z), 18) <= Capped(rated(50 * z), 18)
  BY <1>7, CappedFrom
<1>11. TakesMore(GatePenalties(f, before, pool), GatePenalties(g, prior, pool))
  BY <1>5, <1>8, <1>9, <1>10 DEF TakesMore
<1> QED
  BY <1>11 DEF before, prior

-----------------------------------------------------------------------------
(* The score of a module, before it is rounded, for features that are nowhere *)
(* better                                                                     *)

LEMMA LiftFalls ==
    ASSUME NEW feats, NEW more, NEW id, id \in DOMAIN feats, id \in DOMAIN more,
           LiftFeature(feats[id]), LiftFeature(more[id]), LiftNoBetter(feats[id], more[id]),
           NEW stored
    PROVE  LiftScore(more, stored)[id].raw <= LiftScore(feats, stored)[id].raw
<1>1. /\ LiftScore(feats, stored)[id].raw = ScoreOf(Total(LiftPenalties(feats[id])))
      /\ LiftScore(more, stored)[id].raw = ScoreOf(Total(LiftPenalties(more[id])))
  BY DEF LiftScore, Judge
<1>2. TakesMore(LiftPenalties(feats[id]), LiftPenalties(more[id]))
  BY LiftGrows
<1> QED
  BY <1>1, <1>2, MoreTaken

LEMMA ShuttleFalls ==
    ASSUME NEW feats, NEW more, NEW id, id \in DOMAIN feats, id \in DOMAIN more,
           ShuttleFeature(feats[id]), ShuttleFeature(more[id]),
           ShuttleNoBetter(feats[id], more[id]), NEW stored
    PROVE  ShuttleScore(more, stored)[id].raw <= ShuttleScore(feats, stored)[id].raw
<1>1. /\ ShuttleScore(feats, stored)[id].raw = ScoreOf(Total(ShuttlePenalties(feats[id])))
      /\ ShuttleScore(more, stored)[id].raw = ScoreOf(Total(ShuttlePenalties(more[id])))
  BY DEF ShuttleScore, Judge
<1>2. TakesMore(ShuttlePenalties(feats[id]), ShuttlePenalties(more[id]))
  BY ShuttleGrows
<1> QED
  BY <1>1, <1>2, MoreTaken

LEMMA TrackerFalls ==
    ASSUME NEW feats, NEW more, NEW id, id \in DOMAIN feats, id \in DOMAIN more,
           TrackerFeature(feats[id]), TrackerFeature(more[id]),
           TrackerNoBetter(feats[id], more[id]), NEW stored, StoreOK(stored)
    PROVE  TrackerScore(more, stored)[id].raw <= TrackerScore(feats, stored)[id].raw
<1> DEFINE runs == Len(History(stored, id))
<1>1. /\ TrackerScore(feats, stored)[id].raw = ScoreOf(Total(TrackerPenalties(feats[id], runs)))
      /\ TrackerScore(more, stored)[id].raw = ScoreOf(Total(TrackerPenalties(more[id], runs)))
  BY DEF TrackerScore, Judge
<1>2. runs \in Nat
  BY HistoryOK DEF RowsOK
<1> HIDE DEF runs
<1>3. TakesMore(TrackerPenalties(feats[id], runs), TrackerPenalties(more[id], runs))
  BY <1>2, TrackerGrows
<1> QED
  BY <1>1, <1>3, MoreTaken

LEMMA ConveyorFalls ==
    ASSUME NEW feats, NEW more, NEW id, id \in DOMAIN feats, id \in DOMAIN more,
           ConveyorFeature(feats[id]), ConveyorFeature(more[id]),
           ConveyorNoBetter(feats[id], more[id]), NEW stored
    PROVE  ConveyorScore(more, stored)[id].raw <= ConveyorScore(feats, stored)[id].raw
<1>1. /\ ConveyorScore(feats, stored)[id].raw = ScoreOf(Total(ConveyorPenalties(feats[id])))
      /\ ConveyorScore(more, stored)[id].raw = ScoreOf(Total(ConveyorPenalties(more[id])))
  BY DEF ConveyorScore, Judge
<1>2. TakesMore(ConveyorPenalties(feats[id]), ConveyorPenalties(more[id]))
  BY ConveyorGrows
<1> QED
  BY <1>1, <1>2, MoreTaken

LEMMA BinFalls ==
    ASSUME NEW feats, NEW more, NEW id, id \in DOMAIN feats, id \in DOMAIN more,
           BinFeature(feats[id]), BinFeature(more[id]), BinNoBetter(feats[id], more[id]),
           NEW stored, StoreOK(stored)
    PROVE  BinScore(more, stored)[id].raw <= BinScore(feats, stored)[id].raw
<1> DEFINE runs == Len(History(stored, id))
<1>1. /\ BinScore(feats, stored)[id].raw = ScoreOf(Total(BinPenalties(feats[id], runs)))
      /\ BinScore(more, stored)[id].raw = ScoreOf(Total(BinPenalties(more[id], runs)))
  BY DEF BinScore, Judge
<1>2. runs \in Nat
  BY HistoryOK DEF RowsOK
<1> HIDE DEF runs
<1>3. TakesMore(BinPenalties(feats[id], runs), BinPenalties(more[id], runs))
  BY <1>2, BinGrows
<1> QED
  BY <1>1, <1>3, MoreTaken

LEMMA ControllerFalls ==
    ASSUME NEW feats, NEW more, NEW id, id \in DOMAIN feats, id \in DOMAIN more,
           feats[id].util \in Nat, more[id].util \in Nat,
           ControllerNoBetter(feats[id], more[id]), NEW stored, StoreOK(stored)
    PROVE  ControllerScore(more, stored)[id].raw <= ControllerScore(feats, stored)[id].raw
<1> DEFINE hist == History(stored, id)
           pen(f) == ControllerPenalties(f, BusyRuns(f, hist))
<1>1. /\ ControllerScore(feats, stored)[id].raw = ScoreOf(Total(pen(feats[id])))
      /\ ControllerScore(more, stored)[id].raw = ScoreOf(Total(pen(more[id])))
  BY DEF ControllerScore, Judge
<1>2. TakesMore(pen(feats[id]), pen(more[id]))
  BY HistoryOK, ControllerGrows
<1> HIDE DEF pen
<1> QED
  BY <1>1, <1>2, MoreTaken

LEMMA NetworkFalls ==
    ASSUME NEW feats, NEW more, NEW id, id \in DOMAIN feats, id \in DOMAIN more,
           NetworkFeature(feats[id]), NetworkFeature(more[id]),
           NetworkNoBetter(feats[id], more[id]), NEW stored, StoreOK(stored)
    PROVE  NetworkScore(more, stored)[id].raw <= NetworkScore(feats, stored)[id].raw
<1> DEFINE hist == History(stored, id)
<1>1. /\ NetworkScore(feats, stored)[id].raw = ScoreOf(Total(NetworkPenalties(feats[id], hist)))
      /\ NetworkScore(more, stored)[id].raw = ScoreOf(Total(NetworkPenalties(more[id], hist)))
  BY DEF NetworkScore, Judge
<1>2. RowsOK(hist)
  BY HistoryOK
<1> HIDE DEF hist
<1>3. TakesMore(NetworkPenalties(feats[id], hist), NetworkPenalties(more[id], hist))
  BY <1>2, NetworkGrows
<1> QED
  BY <1>1, <1>3, MoreTaken

LEMMA GateFalls ==
    ASSUME NEW feats, NEW more, NEW id, id \in DOMAIN feats, DOMAIN more = DOMAIN feats,
           IsFiniteSet(DOMAIN feats),
           \A g \in DOMAIN feats : GateFeature(feats[g]) /\ GateFeature(more[g]),
           GateNoBetter(feats[id], more[id]), NEW stored, StoreOK(stored)
    PROVE  GateScore(more, stored)[id].raw <= GateScore(feats, stored)[id].raw
<1> DEFINE hist == History(stored, id)
           before == [g \in DOMAIN feats |-> GatePrior(feats[g], History(stored, g))]
           prior  == [g \in DOMAIN feats |-> GatePrior(more[g], History(stored, g))]
           known  == {g \in DOMAIN feats : before[g].runs >= 3}
           pool   == [g \in known |-> before[g].nonClosed]
<1>1. \A g \in DOMAIN feats : /\ before[g].runs = prior[g].runs
                              /\ before[g].nonClosed = prior[g].nonClosed
  BY DEF GatePrior
<1>2. known = {g \in DOMAIN feats : prior[g].runs >= 3} /\ pool = [g \in known |-> prior[g].nonClosed]
  <2> HIDE DEF before, prior
  <2> QED
    BY <1>1
<1>3. Whole(pool)
  <2>1. IsFiniteSet(known)
    BY FS_Subset
  <2>2. \A g \in DOMAIN feats : GatePriorOK(before[g])
    BY HistoryOK, GatePriorIsOK DEF GateFeature
  <2> HIDE DEF before
  <2> QED
    BY <2>1, <2>2 DEF Whole, GatePriorOK
<1>4. GateScore(feats, stored)[id].raw = ScoreOf(Total(GatePenalties(feats[id], before[id], pool)))
  BY DEF GateScore, Judge
<1>5. GateScore(more, stored)[id].raw = ScoreOf(Total(GatePenalties(more[id], prior[id], pool)))
  <2>1. GateScore(more, stored)[id].raw =
          ScoreOf(Total(GatePenalties(more[id], prior[id],
                      [g \in {h \in DOMAIN feats : prior[h].runs >= 3} |-> prior[g].nonClosed])))
    BY DEF GateScore, Judge
  <2> HIDE DEF prior, before, pool, known
  <2> QED
    BY <1>2, <2>1
<1>6. before[id] = GatePrior(feats[id], hist) /\ prior[id] = GatePrior(more[id], hist)
  OBVIOUS
<1>7. RowsOK(hist)
  BY HistoryOK
<1> HIDE DEF before, prior, pool, hist
<1>8. TakesMore(GatePenalties(feats[id], before[id], pool), GatePenalties(more[id], prior[id], pool))
  BY <1>3, <1>6, <1>7, GateGrows
<1> QED
  BY <1>4, <1>5, <1>8, MoreTaken

LEMMA ScannerFalls ==
    ASSUME NEW f, NEW g, ScannerFeature(f), ScannerFeature(g), ScannerNoBetter(f, g),
           NEW hist, RowsOK(hist), NEW minScans, NEW cross, NEW other
    PROVE  ScoreScanner(g, hist, minScans, cross).raw <= ScoreScanner(f, hist, minScans, other).raw
<1>1. /\ ScoreScanner(f, hist, minScans, other).raw = ScoreOf(Total(ScannerPenalties(f, hist, minScans)))
      /\ ScoreScanner(g, hist, minScans, cross).raw = ScoreOf(Total(ScannerPenalties(g, hist, minScans)))
  BY DEF ScoreScanner, Judge
<1>2. TakesMore(ScannerPenalties(f, hist, minScans), ScannerPenalties(g, hist, minScans))
  BY ScannerGrows
<1> QED
  BY <1>1, <1>2, MoreTaken

LEMMA StationFalls ==
    ASSUME NEW f, NEW g, StationFeature(f), StationFeature(g),
           f.z <= g.z \/ f.z <= 0, f.perDay <= g.perDay \/ f.perDay <= 20000,
           f.inactive => g.inactive, NEW hist, RowsOK(hist)
    PROVE  ScoreGtpStation(g, hist).raw <= ScoreGtpStation(f, hist).raw
<1>1. /\ ScoreGtpStation(f, hist).raw = ScoreOf(Total(GtpStationPenalties(f, hist)))
      /\ ScoreGtpStation(g, hist).raw = ScoreOf(Total(GtpStationPenalties(g, hist)))
  BY DEF ScoreGtpStation, Judge
<1>2. TakesMore(GtpStationPenalties(f, hist), GtpStationPenalties(g, hist))
  BY StationGrows
<1> QED
  BY <1>1, <1>2, MoreTaken

LEMMA DecantStationFalls ==
    ASSUME NEW f, NEW g, f.inactive => g.inactive, f.idle => g.idle, NEW hist, RowsOK(hist)
    PROVE  ScoreDecantStation(g, hist).raw <= ScoreDecantStation(f, hist).raw
<1> DEFINE off  == [i \in DOMAIN hist |-> hist[i].facts.inactive]
           rest == [i \in DOMAIN hist |-> hist[i].facts.idle]
           pen(down, idle) == << <<"offline_persistence", Capped(4 * U * (down - 1), 20)>>,
                                 <<"idle_recurrence",     Capped(6 * U * (idle - 1), 40)>> >>
<1>1. /\ ScoreDecantStation(f, hist).raw
           = ScoreOf(Total(pen(InARow(f.inactive, off), InARow(f.idle, rest))))
      /\ ScoreDecantStation(g, hist).raw
           = ScoreOf(Total(pen(InARow(g.inactive, off), InARow(g.idle, rest))))
  BY DEF ScoreDecantStation, Judge
<1>2. /\ InARow(f.inactive, off) \in Nat /\ InARow(g.inactive, off) \in Nat
      /\ InARow(f.inactive, off) <= InARow(g.inactive, off)
      /\ InARow(f.idle, rest) \in Nat /\ InARow(g.idle, rest) \in Nat
      /\ InARow(f.idle, rest) <= InARow(g.idle, rest)
  BY OffGrows, Zenon
<1>3. \A d, e, i, j \in Nat : d <= e /\ i <= j => TakesMore(pen(d, i), pen(e, j))
  <2> SUFFICES ASSUME NEW d \in Nat, NEW e \in Nat, NEW i \in Nat, NEW j \in Nat, d <= e, i <= j
               PROVE  TakesMore(pen(d, i), pen(e, j))
    OBVIOUS
  <2>1. /\ Capped(4 * U * (d - 1), 20) \in Nat /\ Capped(4 * U * (e - 1), 20) \in Nat
        /\ Capped(6 * U * (i - 1), 40) \in Nat /\ Capped(6 * U * (j - 1), 40) \in Nat
        /\ Capped(4 * U * (d - 1), 20) <= Capped(4 * U * (e - 1), 20)
        /\ Capped(6 * U * (i - 1), 40) <= Capped(6 * U * (j - 1), 40)
    BY DEF Capped, AtMost, Positive, U
  <2> QED
    BY <2>1 DEF TakesMore, Points
<1> HIDE DEF pen, off, rest
<1>4. TakesMore(pen(InARow(f.inactive, off), InARow(f.idle, rest)),
                pen(InARow(g.inactive, off), InARow(g.idle, rest)))
  BY <1>2, <1>3
<1> QED
  BY <1>1, <1>4, MoreTaken

LEMMA AlsoRaw ==
    ASSUME NEW f, NEW hist, NEW minScans, NEW cross, NEW flag
    PROVE  /\ Also(ScoreScanner(f, hist, minScans, cross), flag).raw
                = ScoreScanner(f, hist, minScans, cross).raw
           /\ Also(ScoreGtpStation(f, hist), flag).raw = ScoreGtpStation(f, hist).raw
           /\ Also(ScoreDecantStation(f, hist), flag).raw = ScoreDecantStation(f, hist).raw
<1>1. Also(ScoreScanner(f, hist, minScans, cross), flag).raw
        = ScoreScanner(f, hist, minScans, cross).raw
  BY DEF ScoreScanner, Also, Judge
<1>2. Also(ScoreGtpStation(f, hist), flag).raw = ScoreGtpStation(f, hist).raw
  BY DEF ScoreGtpStation, Also, Judge
<1>3. Also(ScoreDecantStation(f, hist), flag).raw = ScoreDecantStation(f, hist).raw
  BY DEF ScoreDecantStation, Also, Judge
<1> QED
  BY <1>1, <1>2, <1>3

LEMMA GtpFalls ==
    ASSUME NEW feats, NEW more, NEW id, id \in DOMAIN feats, id \in DOMAIN more,
           GtpFeature(feats[id]), GtpFeature(more[id]), GtpNoBetter(feats[id], more[id]),
           NEW stored, StoreOK(stored)
    PROVE  GtpScore(more, stored)[id].raw <= GtpScore(feats, stored)[id].raw
<1> DEFINE hist == History(stored, id)
           of(f) == IF f.entity = "station" THEN ScoreGtpStation(f, hist) ELSE ScoreGtpScanner(f, hist)
<1>1. GtpScore(feats, stored)[id] \in {of(feats[id]), Also(of(feats[id]), "corroboration")}
  BY DEF GtpScore
<1>2. GtpScore(more, stored)[id] \in {of(more[id]), Also(of(more[id]), "corroboration")}
  BY DEF GtpScore
<1>3. \A f : Also(of(f), "corroboration").raw = of(f).raw
  BY AlsoRaw DEF ScoreGtpScanner
<1>4. RowsOK(hist)
  BY HistoryOK
<1>5. of(more[id]).raw <= of(feats[id]).raw
  <2> HIDE DEF hist
  <2>1. CASE feats[id].entity = "station"
    <3>1. more[id].entity = "station"
      BY <2>1 DEF GtpNoBetter
    <3>2. /\ feats[id].z <= more[id].z \/ feats[id].z <= 0
          /\ feats[id].perDay <= more[id].perDay \/ feats[id].perDay <= 20000
          /\ feats[id].inactive => more[id].inactive
      BY <2>1 DEF GtpNoBetter, NoLower, StillUp
    <3>3. StationFeature(feats[id]) /\ StationFeature(more[id])
      BY <2>1, <3>1 DEF GtpFeature
    <3>4. ScoreGtpStation(more[id], hist).raw <= ScoreGtpStation(feats[id], hist).raw
      BY <1>4, <3>2, <3>3, StationFalls
    <3> QED
      BY <2>1, <3>1, <3>4
  <2>2. CASE feats[id].entity # "station"
    <3>1. more[id].entity # "station" /\ ScannerNoBetter(feats[id], more[id])
      BY <2>2 DEF GtpNoBetter
    <3>2. ScannerFeature(feats[id]) /\ ScannerFeature(more[id])
      BY <2>2, <3>1 DEF GtpFeature
    <3>3. ScoreGtpScanner(more[id], hist).raw <= ScoreGtpScanner(feats[id], hist).raw
      BY <1>4, <3>1, <3>2, ScannerFalls DEF ScoreGtpScanner
    <3> QED
      BY <2>2, <3>1, <3>3
  <2> QED
    BY <2>1, <2>2
<1> HIDE DEF of
<1> QED
  BY <1>1, <1>2, <1>3, <1>5

LEMMA DecantFalls ==
    ASSUME NEW feats, NEW more, NEW id, id \in DOMAIN feats, id \in DOMAIN more,
           DecantFeature(feats[id]), DecantFeature(more[id]), DecantNoBetter(feats[id], more[id]),
           NEW stored, StoreOK(stored)
    PROVE  DecantScore(more, stored)[id].raw <= DecantScore(feats, stored)[id].raw
<1> DEFINE hist == History(stored, id)
           of(f) == IF f.entity = "station" THEN ScoreDecantStation(f, hist)
                    ELSE ScoreDecantScanner(f, hist)
<1>1. DecantScore(feats, stored)[id] \in {of(feats[id]), Also(of(feats[id]), "corroboration")}
  BY DEF DecantScore
<1>2. DecantScore(more, stored)[id] \in {of(more[id]), Also(of(more[id]), "corroboration")}
  BY DEF DecantScore
<1>3. \A f : Also(of(f), "corroboration").raw = of(f).raw
  BY AlsoRaw DEF ScoreDecantScanner
<1>4. RowsOK(hist)
  BY HistoryOK
<1>5. of(more[id]).raw <= of(feats[id]).raw
  <2> HIDE DEF hist
  <2>1. CASE feats[id].entity = "station"
    <3>1. more[id].entity = "station"
      BY <2>1 DEF DecantNoBetter
    <3>2. /\ feats[id].inactive => more[id].inactive
          /\ feats[id].idle => more[id].idle
      BY <2>1 DEF DecantNoBetter, StillUp
    <3>3. ScoreDecantStation(more[id], hist).raw <= ScoreDecantStation(feats[id], hist).raw
      BY <1>4, <3>2, DecantStationFalls
    <3> QED
      BY <2>1, <3>1, <3>3
  <2>2. CASE feats[id].entity # "station"
    <3>1. more[id].entity # "station" /\ ScannerNoBetter(feats[id], more[id])
      BY <2>2 DEF DecantNoBetter
    <3>2. ScannerFeature(feats[id]) /\ ScannerFeature(more[id])
      BY <2>2, <3>1 DEF DecantFeature
    <3>3. ScoreDecantScanner(more[id], hist).raw <= ScoreDecantScanner(feats[id], hist).raw
      BY <1>4, <3>1, <3>2, ScannerFalls DEF ScoreDecantScanner
    <3> QED
      BY <2>2, <3>1, <3>3
  <2> QED
    BY <2>1, <2>2
<1> HIDE DEF of
<1> QED
  BY <1>1, <1>2, <1>3, <1>5
=============================================================================
