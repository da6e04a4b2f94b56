---------------------------- MODULE AnalyticsProofs ----------------------------
(***************************************************************************)
(* Proofs about Analytics: series, figures and views agree with what they  *)
(* promise for every number of days, tickers and portfolios, and every     *)
(* pattern of missing rows.                                                *)
(*                                                                         *)
(* Only RowsOK is inductive; each property follows from it, by induction   *)
(* over days or over finite sets.                                          *)
(***************************************************************************)
EXTENDS Analytics, FiniteSetTheorems, WellFoundedInduction, TLAPS

-----------------------------------------------------------------------------
(***************************************************************************)
(* Induction.  The library's induction theorems take an operator; these take a *)
(* set instead, the G of those for which the claim holds, and rest on a smallest *)
(* member of a set of finite sets.                                         *)
(***************************************************************************)

\* A set of subsets of a finite set has a smallest one.
LEMMA MinimalSubset ==
  ASSUME NEW S, IsFiniteSet(S), NEW TT \in SUBSET (SUBSET S), TT # {}
  PROVE  \E T \in TT : \A U \in TT : ~(U \subseteq T /\ U # T)
  <1>1. TT \subseteq FiniteSubsetsOf(S)
    BY FS_Subset DEF FiniteSubsetsOf
  <1>2. IsWellFoundedOn(StrictSubsetOrdering(S), FiniteSubsetsOf(S))
    BY FS_StrictSubsetOrderingWellFounded
  <1>3. PICK T \in TT : \A U \in TT : <<U, T>> \notin StrictSubsetOrdering(S)
    BY <1>1, <1>2, WFMin
  <1>. QED
    BY <1>3 DEF StrictSubsetOrdering

\* A set of subsets of S that has each subset whose smaller ones it has, has
\* all.
LEMMA SetInduction ==
  ASSUME NEW S, IsFiniteSet(S), NEW G,
         \A T \in SUBSET S : (\A U \in SUBSET T : U # T => U \in G) => T \in G
  PROVE  \A T \in SUBSET S : T \in G
  <1> SUFFICES ASSUME NEW V \in SUBSET S, V \notin G PROVE FALSE
    OBVIOUS
  <1> DEFINE TT == {T \in SUBSET S : T \notin G}
  <1>1. TT \in SUBSET (SUBSET S) /\ TT # {}
    OBVIOUS
  <1>2. PICK T \in TT : \A U \in TT : ~(U \subseteq T /\ U # T)
    <2> HIDE DEF TT
    <2>. QED
      BY <1>1, MinimalSubset
  <1>. QED
    BY <1>2

\* The same from a to b.
LEMMA RangeInduction ==
  ASSUME NEW a \in Int, NEW b \in Int, NEW G, a <= b => a \in G,
         \A n \in a..b : n < b /\ n \in G => n + 1 \in G
  PROVE  \A n \in a..b : n \in G
  <1> DEFINE S == a..b
             HH == {T \in SUBSET S : \A n \in S : T = a..n => n \in G}
  <1>1. IsFiniteSet(S)
    BY FS_Interval
  <1>2. ASSUME NEW T \in SUBSET S, \A U \in SUBSET T : U # T => U \in HH
        PROVE  T \in HH
    <2> SUFFICES ASSUME NEW n \in S, T = a..n PROVE n \in G
      OBVIOUS
    <2>1. CASE n = a
      BY <2>1
    <2>2. CASE n # a
      <3> DEFINE m == n - 1
      <3>1. m \in S /\ n = m + 1 /\ m < b
        BY <2>2
      <3>2. a..m \in SUBSET T /\ a..m # T
        BY <3>1
      <3>3. m \in G
        BY <1>2, <3>1, <3>2
      <3>. QED
        BY <3>1, <3>3
    <2>. QED
      BY <2>1, <2>2
  <1>3. \A T \in SUBSET S : T \in HH
    <2> HIDE DEF S, HH
    <2>. QED
      BY <1>1, <1>2, SetInduction
  <1>4. ASSUME NEW n \in a..b PROVE n \in G
    <2>1. a..n \in SUBSET S
      OBVIOUS
    <2>2. a..n \in HH
      BY <1>3, <2>1
    <2>. QED
      BY <2>2
  <1>. QED
    BY <1>4

-----------------------------------------------------------------------------
(***************************************************************************)
(* Folds.  The library's sum and product of a set choose a function on its *)
(* subsets; here is what that function is.                                 *)
(***************************************************************************)

\* What the library's folds take first.
Pick(S) == CHOOSE x \in S : TRUE

\* What the library's fold chooses to sum f over the subsets of S.
Sums(f, S, iter) ==
    iter = [T \in SUBSET S |-> IF T = {} THEN 0 ELSE f[Pick(T)] + iter[T \ {Pick(T)}]]

\* Their value for the whole set.
SumOf(f, S) == (CHOOSE iter : Sums(f, S, iter))[S]

\* The library's sum is SumOf.
LEMMA SumIsChosen ==
  ASSUME NEW f, NEW S
  PROVE  SumFunctionOnSet(f, S) = SumOf(f, S)
  BY DEF SumFunctionOnSet, FoldFunctionOnSet, MapThenFoldSet, SumOf, Sums, Pick

\* The library's folds, of which sums and products are two.
Unit(kind) == IF kind = "product" THEN 1 ELSE 0
Join(kind, a, b) == IF kind = "product" THEN a * b ELSE a + b

Folds(kind, f, S, iter) ==
    iter = [T \in SUBSET S |-> IF T = {} THEN Unit(kind)
                               ELSE Join(kind, f[Pick(T)], iter[T \ {Pick(T)}])]

\* A sum is a fold.
LEMMA SumsAreFolds ==
  ASSUME NEW f, NEW S, NEW it
  PROVE  Sums(f, S, it) <=> Folds("sum", f, S, it)
  BY DEF Sums, Folds, Unit, Join

\* Two of them agree where both are defined.
LEMMA FoldsAgree ==
  ASSUME NEW kind, NEW f, NEW S, NEW T \in SUBSET S, IsFiniteSet(T),
         NEW it, Folds(kind, f, S, it), NEW jt, Folds(kind, f, T, jt)
  PROVE  \A U \in SUBSET T : it[U] = jt[U]
  <1> DEFINE G == {U \in SUBSET T : it[U] = jt[U]}
  <1>1. ASSUME NEW U \in SUBSET T, \A V \in SUBSET U : V # U => V \in G
        PROVE  U \in G
    <2>1. /\ it[U] = IF U = {} THEN Unit(kind) ELSE Join(kind, f[Pick(U)], it[U \ {Pick(U)}])
          /\ jt[U] = IF U = {} THEN Unit(kind) ELSE Join(kind, f[Pick(U)], jt[U \ {Pick(U)}])
      BY DEF Folds
    <2>2. U # {} => Pick(U) \in U
      BY DEF Pick
    <2>3. U # {} => U \ {Pick(U)} \in G
      BY <1>1, <2>2
    <2>. QED
      BY <2>1, <2>3
  <1>2. \A U \in SUBSET T : U \in G
    <2> HIDE DEF G
    <2>. QED
      BY <1>1, SetInduction
  <1>. QED
    BY <1>2

\* There is one for each finite set.
LEMMA FoldsExist ==
  ASSUME NEW kind, NEW f, NEW S, IsFiniteSet(S)
  PROVE  \E it : Folds(kind, f, S, it)
  <1> DEFINE G == {T \in SUBSET S : \E it : Folds(kind, f, T, it)}
  <1>1. ASSUME NEW T \in SUBSET S, \A U \in SUBSET T : U # T => U \in G
        PROVE  T \in G
    <2> DEFINE It(U) == CHOOSE it : Folds(kind, f, U, it)
               cand == [U \in SUBSET T |->
                          IF U = {} THEN Unit(kind)
                          ELSE Join(kind, f[Pick(U)], It(U \ {Pick(U)})[U \ {Pick(U)}])]
    <2>1. ASSUME NEW U \in SUBSET T, U # T PROVE Folds(kind, f, U, It(U)) /\ IsFiniteSet(U)
      BY <1>1, <2>1, FS_Subset
    <2>2. ASSUME NEW U \in SUBSET T, U # T PROVE cand[U] = It(U)[U]
      <3>1. CASE U = {}
        <4>1. It(U)[U] = Unit(kind)
          <5>1. Folds(kind, f, U, It(U))
            BY <2>1, <2>2
          <5> HIDE DEF It
          <5>. QED
            BY <5>1, <3>1 DEF Folds
        <4>. QED
          BY <3>1, <4>1
      <3>2. CASE U # {}
        <4> DEFINE V == U \ {Pick(U)}
        <4>1. V \in SUBSET U /\ V # T /\ V \in SUBSET T
          BY <2>2, <3>2 DEF Pick
        <4>2. It(U)[V] = It(V)[V]
          <5>1. Folds(kind, f, U, It(U)) /\ Folds(kind, f, V, It(V)) /\ IsFiniteSet(V)
            BY <2>1, <2>2, <4>1
          <5> HIDE DEF It, V
          <5>. QED
            BY <4>1, <5>1, FoldsAgree
        <4>3. It(U)[U] = Join(kind, f[Pick(U)], It(U)[V])
          <5>1. Folds(kind, f, U, It(U))
            BY <2>1, <2>2
          <5> HIDE DEF It
          <5>. QED
            BY <5>1, <3>2 DEF Folds
        <4>. QED
          BY <3>2, <4>2, <4>3
      <3>. QED
        BY <3>1, <3>2
    <2>3. Folds(kind, f, T, cand)
      <3>1. ASSUME NEW U \in SUBSET T
            PROVE  cand[U] = IF U = {} THEN Unit(kind)
                             ELSE Join(kind, f[Pick(U)], cand[U \ {Pick(U)}])
        <4>1. CASE U = {}
          BY <4>1
        <4>2. CASE U # {}
          <5> DEFINE V == U \ {Pick(U)}
          <5>1. V \in SUBSET T /\ V # T
            BY <4>2 DEF Pick
          <5>2. cand[V] = It(V)[V]
            BY <2>2, <5>1
          <5>. QED
            BY <4>2, <5>2
        <4>. QED
          BY <4>1, <4>2
      <3>2. cand = [U \in SUBSET T |-> cand[U]]
        OBVIOUS
      <3> HIDE DEF cand
      <3>. QED
        BY <3>1, <3>2 DEF Folds
    <2>. QED
      BY <2>3
  <1>2. \A T \in SUBSET S : T \in G
    <2> HIDE DEF G
    <2>. QED
      BY <1>1, SetInduction
  <1>. QED
    BY <1>2

\* The library's sum is recursive in the element it picks.
LEMMA SumUnfolds ==
  ASSUME NEW f, NEW S, IsFiniteSet(S)
  PROVE  SumOf(f, S) = IF S = {} THEN 0 ELSE f[Pick(S)] + SumOf(f, S \ {Pick(S)})
  <1> DEFINE It(T) == CHOOSE it : Sums(f, T, it)
             U == S \ {Pick(S)}
  <1>1. IsFiniteSet(U) /\ U \in SUBSET S
    BY FS_Subset
  <1>2. Sums(f, S, It(S)) /\ Sums(f, U, It(U))
    <2>1. (\E it : Sums(f, S, it)) /\ (\E it : Sums(f, U, it))
      BY <1>1, FoldsExist, SumsAreFolds
    <2>. QED
      BY <2>1
  <1>3. It(S)[U] = It(U)[U]
    <2>1. Folds("sum", f, S, It(S)) /\ Folds("sum", f, U, It(U))
      BY <1>2, SumsAreFolds
    <2> HIDE DEF It, U
    <2>2. \A V \in SUBSET U : It(S)[V] = It(U)[V]
      BY <1>1, <2>1, FoldsAgree
    <2>. QED
      BY <2>2
  <1>4. It(S)[S] = IF S = {} THEN 0 ELSE f[Pick(S)] + It(S)[U]
    BY <1>2 DEF Sums
  <1>. QED
    BY <1>3, <1>4 DEF SumOf

\* A product of naturals is one.
LEMMA ProductType ==
  ASSUME NEW S, IsFiniteSet(S), NEW f \in [S -> Nat], NEW it, Folds("product", f, S, it)
  PROVE  it[S] \in Nat
  <1> DEFINE G == {T \in SUBSET S : it[T] \in Nat}
  <1>1. ASSUME NEW T \in SUBSET S, \A U \in SUBSET T : U # T => U \in G
        PROVE  T \in G
    <2>1. it[T] = IF T = {} THEN 1 ELSE f[Pick(T)] * it[T \ {Pick(T)}]
      BY DEF Folds, Unit, Join
    <2>2. CASE T = {}
      BY <2>1, <2>2
    <2>3. CASE T # {}
      <3>1. Pick(T) \in T
        BY <2>3 DEF Pick
      <3>2. it[T \ {Pick(T)}] \in Nat /\ f[Pick(T)] \in Nat
        BY <1>1, <3>1
      <3>3. f[Pick(T)] * it[T \ {Pick(T)}] \in Nat
        BY <3>2
      <3>. QED
        BY <2>1, <2>3, <3>3
    <2>. QED
      BY <2>2, <2>3
  <1>2. S \in G
    <2> HIDE DEF G
    <2>. QED
      BY <1>1, SetInduction
  <1>. QED
    BY <1>2

\* A sum of integers is one.
LEMMA SumType ==
  ASSUME NEW S, NEW f \in [S -> Int], NEW T \in SUBSET S, IsFiniteSet(T)
  PROVE  SumOf(f, T) \in Int
  <1> DEFINE G == {U \in SUBSET T : SumOf(f, U) \in Int}
  <1>1. ASSUME NEW U \in SUBSET T, \A V \in SUBSET U : V # U => V \in G
        PROVE  U \in G
    <2>1. IsFiniteSet(U)
      BY FS_Subset
    <2>2. SumOf(f, U) = IF U = {} THEN 0 ELSE f[Pick(U)] + SumOf(f, U \ {Pick(U)})
      BY <2>1, SumUnfolds
    <2>3. CASE U # {}
      <3>1. Pick(U) \in U
        BY <2>3 DEF Pick
      <3>2. U \ {Pick(U)} \in G
        BY <1>1, <3>1
      <3>. QED
        BY <2>2, <2>3, <3>1, <3>2
    <2>. QED
      BY <2>2, <2>3
  <1>2. \A U \in SUBSET T : U \in G
    <2> HIDE DEF G
    <2>. QED
      BY <1>1, SetInduction
  <1>. QED
    BY <1>2

\* Any element can be taken out first.
LEMMA SumTakes ==
  ASSUME NEW S, NEW f \in [S -> Int], NEW T \in SUBSET S, IsFiniteSet(T)
  PROVE  \A x \in T : SumOf(f, T) = f[x] + SumOf(f, T \ {x})
  <1> DEFINE G == {U \in SUBSET T : \A x \in U : SumOf(f, U) = f[x] + SumOf(f, U \ {x})}
  <1>1. ASSUME NEW U \in SUBSET T, \A V \in SUBSET U : V # U => V \in G
        PROVE  U \in G
    <2> SUFFICES ASSUME NEW x \in U PROVE SumOf(f, U) = f[x] + SumOf(f, U \ {x})
      OBVIOUS
    <2> DEFINE p == Pick(U)
    <2>0. p \in U
      BY DEF Pick
    <2>1. SumOf(f, U) = f[p] + SumOf(f, U \ {p})
      BY FS_Subset, SumUnfolds
    <2>2. CASE x = p
      BY <2>1, <2>2
    <2>3. CASE x # p
      <3> DEFINE V == U \ {p}
                 W == U \ {x}
                 R == V \ {x}
      <3>1. V \in G /\ W \in G /\ x \in V /\ p \in W
        BY <1>1, <2>0, <2>3
      <3>2. SumOf(f, V) = f[x] + SumOf(f, R) /\ SumOf(f, W) = f[p] + SumOf(f, W \ {p})
        BY <3>1
      <3>3. R = W \ {p}
        OBVIOUS
      <3>4. IsFiniteSet(R) /\ R \in SUBSET S
        BY FS_Subset
      <3>5. SumOf(f, R) \in Int
        BY <3>4, SumType
      <3>6. f[p] \in Int /\ f[x] \in Int
        BY <2>0
      <3> HIDE DEF p, V, W, R
      <3>7. SumOf(f, U) = f[p] + (f[x] + SumOf(f, R))
        BY <2>1, <3>2 DEF V
      <3>8. SumOf(f, W) = f[p] + SumOf(f, R)
        BY <3>2, <3>3
      <3>9. SumOf(f, U) = f[x] + SumOf(f, W)
        BY <3>5, <3>6, <3>7, <3>8
      <3>. QED
        BY <3>9 DEF W
    <2>. QED
      BY <2>2, <2>3
  <1>2. \A U \in SUBSET T : U \in G
    <2> HIDE DEF G
    <2>. QED
      BY <1>1, SetInduction
  <1>. QED
    BY <1>2

\* The sum depends on the values in the set alone.
LEMMA SumAgrees ==
  ASSUME NEW S, NEW f \in [S -> Int], NEW R, NEW g \in [R -> Int],
         NEW T \in SUBSET S, T \subseteq R, IsFiniteSet(T), \A x \in T : f[x] = g[x]
  PROVE  SumOf(f, T) = SumOf(g, T)
  <1> DEFINE G == {U \in SUBSET T : SumOf(f, U) = SumOf(g, U)}
  <1>1. ASSUME NEW U \in SUBSET T, \A V \in SUBSET U : V # U => V \in G
        PROVE  U \in G
    <2>1. IsFiniteSet(U)
      BY FS_Subset
    <2>2. /\ SumOf(f, U) = IF U = {} THEN 0 ELSE f[Pick(U)] + SumOf(f, U \ {Pick(U)})
          /\ SumOf(g, U) = IF U = {} THEN 0 ELSE g[Pick(U)] + SumOf(g, U \ {Pick(U)})
      BY <2>1, SumUnfolds
    <2>3. CASE U # {}
      <3>1. Pick(U) \in U
        BY <2>3 DEF Pick
      <3>2. U \ {Pick(U)} \in G
        BY <1>1, <3>1
      <3>3. f[Pick(U)] = g[Pick(U)]
        BY <3>1
      <3>. QED
        BY <2>2, <2>3, <3>3, <3>2
    <2>. QED
      BY <2>2, <2>3
  <1>2. \A U \in SUBSET T : U \in G
    <2> HIDE DEF G
    <2>. QED
      BY <1>1, SetInduction
  <1>. QED
    BY <1>2

-----------------------------------------------------------------------------
(***************************************************************************)
(* Sums.                                                                   *)
(***************************************************************************)

\* Sums of sums, of nothing and of what is not negative.
LEMMA SumAdds ==
  ASSUME NEW S, NEW f \in [S -> Int], NEW g \in [S -> Int], NEW h \in [S -> Int],
         NEW T \in SUBSET S, IsFiniteSet(T), \A x \in T : h[x] = f[x] + g[x]
  PROVE  SumOf(h, T) = SumOf(f, T) + SumOf(g, T)
  <1> DEFINE G == {U \in SUBSET T : SumOf(h, U) = SumOf(f, U) + SumOf(g, U)}
  <1>1. ASSUME NEW U \in SUBSET T, \A V \in SUBSET U : V # U => V \in G
        PROVE  U \in G
    <2> DEFINE p == Pick(U)
               V == U \ {p}
    <2>1. IsFiniteSet(U) /\ IsFiniteSet(V)
      BY FS_Subset
    <2>2. \A e \in {f, g, h} : SumOf(e, U) = IF U = {} THEN 0 ELSE e[p] + SumOf(e, V)
      BY <2>1, SumUnfolds
    <2>3. CASE U # {}
      <3>1. p \in U
        BY <2>3 DEF Pick
      <3>2. SumOf(h, V) = SumOf(f, V) + SumOf(g, V)
        BY <1>1, <3>1
      <3>3. h[p] = f[p] + g[p] /\ f[p] \in Int /\ g[p] \in Int
        BY <3>1
      <3>4. SumOf(f, V) \in Int /\ SumOf(g, V) \in Int
        BY <2>1, SumType
      <3> HIDE DEF p, V
      <3>. QED
        BY <2>2, <2>3, <3>2, <3>3, <3>4
    <2>. QED
      BY <2>2, <2>3
  <1>2. \A U \in SUBSET T : U \in G
    <2> HIDE DEF G
    <2>. QED
      BY <1>1, SetInduction
  <1>. QED
    BY <1>2

\* A sum of what is not negative is not, and of zeros is 0.
LEMMA SumOfSigned ==
  ASSUME NEW S, NEW f \in [S -> Int], NEW T \in SUBSET S, IsFiniteSet(T)
  PROVE  /\ (\A x \in T : f[x] >= 0) => SumOf(f, T) >= 0
         /\ (\A x \in T : f[x] = 0) => SumOf(f, T) = 0
  <1> DEFINE G == {U \in SUBSET T : /\ (\A x \in U : f[x] >= 0) => SumOf(f, U) >= 0
                                    /\ (\A x \in U : f[x] = 0) => SumOf(f, U) = 0}
  <1>1. ASSUME NEW U \in SUBSET T, \A V \in SUBSET U : V # U => V \in G
        PROVE  U \in G
    <2> DEFINE p == Pick(U)
               V == U \ {p}
    <2>1. IsFiniteSet(U) /\ IsFiniteSet(V)
      BY FS_Subset
    <2>2. SumOf(f, U) = IF U = {} THEN 0 ELSE f[p] + SumOf(f, V)
      BY <2>1, SumUnfolds
    <2>3. CASE U # {}
      <3>1. p \in U /\ V \in G
        BY <1>1, <2>3 DEF Pick
      <3>2. f[p] \in Int /\ SumOf(f, V) \in Int
        BY <2>1, <3>1, SumType
      <3>. QED
        BY <2>2, <2>3, <3>1, <3>2
    <2>4. CASE U = {}
      BY <2>2, <2>4
    <2>. QED
      BY <2>3, <2>4
  <1>2. \A U \in SUBSET T : U \in G
    <2> HIDE DEF G
    <2>. QED
      BY <1>1, SetInduction
  <1>. QED
    BY <1>2

\* A sum of greater numbers is no smaller.
LEMMA SumGrows ==
  ASSUME NEW S, NEW f \in [S -> Int], NEW g \in [S -> Int],
         NEW T \in SUBSET S, IsFiniteSet(T), \A x \in T : f[x] <= g[x]
  PROVE  SumOf(f, T) <= SumOf(g, T)
  <1> DEFINE h == [x \in S |-> g[x] - f[x]]
  <1>1. h \in [S -> Int] /\ \A x \in T : g[x] = f[x] + h[x] /\ h[x] >= 0
    OBVIOUS
  <1> HIDE DEF h
  <1>2. SumOf(g, T) = SumOf(f, T) + SumOf(h, T) /\ SumOf(h, T) >= 0
    BY <1>1, SumAdds, SumOfSigned
  <1>3. SumOf(f, T) \in Int /\ SumOf(h, T) \in Int
    BY <1>1, SumType
  <1>. QED
    BY <1>2, <1>3

\* What is zero outside of a set adds nothing.
LEMMA SumOfSupport ==
  ASSUME NEW S, NEW f \in [S -> Int], NEW T \in SUBSET S, IsFiniteSet(T),
         NEW R \in SUBSET T, \A x \in T \ R : f[x] = 0
  PROVE  SumOf(f, T) = SumOf(f, R)
  <1> DEFINE G == {U \in SUBSET T : SumOf(f, U) = SumOf(f, U \cap R)}
  <1>1. ASSUME NEW U \in SUBSET T, \A V \in SUBSET U : V # U => V \in G
        PROVE  U \in G
    <2>1. CASE U \subseteq R
      <3>1. U \cap R = U
        BY <2>1
      <3>. QED
        BY <3>1
    <2>2. ASSUME NEW x \in U \ R PROVE U \in G
      <3>1. SumOf(f, U) = f[x] + SumOf(f, U \ {x}) /\ f[x] = 0
        BY FS_Subset, SumTakes
      <3>2. SumOf(f, U \ {x}) \in Int
        BY FS_Subset, SumType
      <3>3. SumOf(f, U \ {x}) = SumOf(f, (U \ {x}) \cap R)
        BY <1>1
      <3>4. (U \ {x}) \cap R = U \cap R
        BY <2>2
      <3>5. SumOf(f, U) = SumOf(f, U \ {x})
        BY <3>1, <3>2
      <3>6. SumOf(f, U) = SumOf(f, U \cap R)
        BY <3>3, <3>4, <3>5
      <3>. QED
        BY <3>6
    <2>. QED
      BY <2>1, <2>2
  <1>2. \A U \in SUBSET T : U \in G
    <2> HIDE DEF G
    <2>. QED
      BY <1>1, SetInduction
  <1>3. T \cap R = R
    OBVIOUS
  <1>. QED
    BY <1>2, <1>3

\* Adding up by groups.
LEMMA SumOfGroups ==
  ASSUME NEW S, NEW f \in [S -> Int], IsFiniteSet(S), NEW B, IsFiniteSet(B),
         NEW h \in [S -> B], NEW g \in [B -> Int],
         \A b \in B : g[b] = SumOf(f, {x \in S : h[x] = b})
  PROVE  SumOf(g, B) = SumOf(f, S)
  <1> DEFINE In(U, b) == {x \in U : h[x] = b}
             Group(U) == [b \in B |-> SumOf(f, In(U, b))]
             G == {U \in SUBSET S : SumOf(Group(U), B) = SumOf(f, U)}
  <1>0. ASSUME NEW U \in SUBSET S PROVE Group(U) \in [B -> Int] /\ IsFiniteSet(U)
    <2>1. IsFiniteSet(U)
      BY FS_Subset
    <2>2. ASSUME NEW b \in B PROVE SumOf(f, In(U, b)) \in Int
      <3>1. In(U, b) \in SUBSET S /\ IsFiniteSet(In(U, b))
        BY <2>1, FS_Subset
      <3>. QED
        BY <3>1, SumType
    <2>. QED
      BY <2>1, <2>2
  <1>1. ASSUME NEW U \in SUBSET S, \A V \in SUBSET U : V # U => V \in G
        PROVE  U \in G
    <2>1. CASE U = {}
      <3>1. SumOf(f, U) = 0
        BY <2>1, <1>0, SumUnfolds
      <3>2. ASSUME NEW b \in B PROVE Group(U)[b] = 0
        <4>1. In(U, b) = {}
          BY <2>1
        <4>2. SumOf(f, {}) = 0
          BY <2>1, <3>1
        <4>. QED
          BY <4>1, <4>2
      <3>3. Group(U) \in [B -> Int]
        BY <1>0
      <3>4. SumOf(Group(U), B) = 0
        <4> HIDE DEF Group
        <4>. QED
          BY <3>2, <3>3, SumOfSigned
      <3>. QED
        BY <3>1, <3>4
    <2>2. ASSUME NEW x \in U PROVE U \in G
      <3> DEFINE V == U \ {x}
                 c == h[x]
                 gu == Group(U)
                 gv == Group(V)
      <3>1. c \in B /\ V \in SUBSET S /\ f[x] \in Int
        OBVIOUS
      <3>2. gu \in [B -> Int] /\ gv \in [B -> Int]
        BY <1>0, <3>1
      <3>3. \A b \in B \ {c} : gu[b] = gv[b]
        <4> SUFFICES ASSUME NEW b \in B \ {c} PROVE SumOf(f, In(U, b)) = SumOf(f, In(V, b))
          OBVIOUS
        <4>1. In(U, b) = In(V, b)
          OBVIOUS
        <4>. QED
          BY <4>1
      <3>4. gu[c] = f[x] + gv[c]
        <4>1. x \in In(U, c) /\ In(V, c) = In(U, c) \ {x}
          OBVIOUS
        <4>2. IsFiniteSet(In(U, c)) /\ In(U, c) \in SUBSET S
          BY FS_Subset
        <4>3. SumOf(f, In(U, c)) = f[x] + SumOf(f, In(U, c) \ {x})
          <5> HIDE DEF In
          <5>. QED
            BY <4>1, <4>2, SumTakes
        <4>. QED
          BY <3>1, <4>1, <4>3
      <3>5. V \in G
        BY <1>1
      <3>6. SumOf(f, U) = f[x] + SumOf(f, V) /\ SumOf(f, V) \in Int
        BY <3>1, FS_Subset, SumTakes, SumType
      <3>7. SumOf(gv, B) = SumOf(f, V)
        BY <3>5
      <3> HIDE DEF c, gu, gv, Group, V
      <3>8. SumOf(gu, B) = gu[c] + SumOf(gu, B \ {c}) /\ SumOf(gv, B) = gv[c] + SumOf(gv, B \ {c})
        BY <3>1, <3>2, SumTakes
      <3>9. SumOf(gu, B \ {c}) = SumOf(gv, B \ {c})
        BY <3>2, <3>3, FS_Subset, SumAgrees
      <3>10. gv[c] \in Int /\ SumOf(gv, B \ {c}) \in Int
        BY <3>1, <3>2, FS_Subset, SumType
      <3>11. SumOf(gu, B) = f[x] + SumOf(gv, B)
        BY <3>1, <3>4, <3>8, <3>9, <3>10
      <3>. QED
        BY <3>6, <3>7, <3>11 DEF gu
    <2>. QED
      BY <2>1, <2>2
  <1>2. \A U \in SUBSET S : U \in G
    <2> HIDE DEF G
    <2>. QED
      BY <1>1, SetInduction
  <1>3. SumOf(Group(S), B) = SumOf(f, S)
    BY <1>2
  <1>4. Group(S) = g
    OBVIOUS
  <1>. QED
    BY <1>3, <1>4

-----------------------------------------------------------------------------
(***************************************************************************)
(* Recursion over days: the loops that carry a value from one day to the next. *)
(***************************************************************************)

\* A finite set of integers has a greatest and a least.
LEMMA Extremes ==
  ASSUME NEW S, IsFiniteSet(S), S \subseteq Int, S # {}
  PROVE  /\ Max(S) \in S /\ \A x \in S : x <= Max(S)
         /\ Min(S) \in S /\ \A x \in S : Min(S) <= x
  <1> DEFINE G == {T \in SUBSET S : T # {} => /\ \E x \in T : \A y \in T : x >= y
                                              /\ \E x \in T : \A y \in T : x =< y}
  <1>1. ASSUME NEW T \in SUBSET S, \A U \in SUBSET T : U # T => U \in G
        PROVE  T \in G
    <2> SUFFICES ASSUME T # {} PROVE /\ \E x \in T : \A y \in T : x >= y
                                     /\ \E x \in T : \A y \in T : x =< y
      OBVIOUS
    <2>1. PICK z \in T : TRUE
      OBVIOUS
    <2>2. CASE T \ {z} = {}
      BY <2>1, <2>2
    <2>3. CASE T \ {z} # {}
      <3>1. T \ {z} \in G
        BY <1>1, <2>1
      <3>2. PICK x \in T \ {z} : \A y \in T \ {z} : x >= y
        BY <2>3, <3>1
      <3>3. PICK w \in T \ {z} : \A y \in T \ {z} : w =< y
        BY <2>3, <3>1
      <3>4. x \in Int /\ w \in Int /\ z \in Int
        BY <2>1
      <3>5. \E m \in T : \A y \in T : m >= y
        <4>1. CASE x >= z
          BY <3>2, <4>1
        <4>2. CASE ~(x >= z)
          <5>1. \A y \in T : z >= y
            BY <3>2, <3>4, <4>2
          <5>. QED
            BY <2>1, <5>1
        <4>. QED
          BY <4>1, <4>2
      <3>6. \E m \in T : \A y \in T : m =< y
        <4>1. CASE w =< z
          BY <3>3, <4>1
        <4>2. CASE ~(w =< z)
          <5>1. \A y \in T : z =< y
            BY <3>3, <3>4, <4>2
          <5>. QED
            BY <2>1, <5>1
        <4>. QED
          BY <4>1, <4>2
      <3>. QED
        BY <3>5, <3>6
    <2>. QED
      BY <2>2, <2>3
  <1>2. S \in G
    <2> HIDE DEF G
    <2>. QED
      BY <1>1, SetInduction
  <1>. QED
    BY <1>2 DEF Max, Min

\* r starts with c and goes on by F.
Follows(r, a, b, V, c, F) ==
    r \in [a..b -> V] /\ r[a] = c /\ \A d \in a..b : d # a => r[d] = F[<<d, r[d - 1]>>]

\* Any F gives such an r: what a loop over days computes exists.
LEMMA Recursion ==
  ASSUME NEW a \in Int, NEW b \in Int, a <= b, NEW V, NEW c \in V,
         NEW F \in [(a..b) \X V -> V]
  PROVE  \E r : Follows(r, a, b, V, c, F)
  <1> DEFINE Q(n, r) == r[a] = c /\ \A d \in a..n : d # a => r[d] = F[<<d, r[d - 1]>>]
             G == {n \in a..b : \E r \in [a..n -> V] : Q(n, r)}
  <1>1. a \in G
    <2> DEFINE r == [d \in a..a |-> c]
    <2>1. r \in [a..a -> V] /\ Q(a, r) /\ a \in a..b
      OBVIOUS
    <2> HIDE DEF r, Q
    <2>. QED
      BY <2>1
  <1>2. ASSUME NEW n \in a..b, n < b, n \in G PROVE n + 1 \in G
    <2>1. PICK r \in [a..n -> V] : Q(n, r)
      BY <1>2
    <2> DEFINE m == n + 1
               v == F[<<m, r[n]>>]
               q == [d \in a..m |-> IF d = m THEN v ELSE r[d]]
    <2>2. m \in a..b /\ n \in a..n /\ r[n] \in V
      BY <1>2
    <2>3. <<m, r[n]>> \in (a..b) \X V
      BY <2>2
    <2>4. v \in V
      BY <2>3
    <2>5. q \in [a..m -> V]
      <3> HIDE DEF v
      <3>. QED
        BY <2>4
    <2>6. ASSUME NEW d \in a..m, d # a PROVE q[d] = F[<<d, q[d - 1]>>]
      <3>1. CASE d = m
        <4>1. d - 1 = n /\ n # m /\ n \in a..m
          BY <2>2, <3>1
        <4>2. q[d - 1] = r[n] /\ q[d] = v
          BY <3>1, <4>1
        <4>. QED
          BY <3>1, <4>2
      <3>2. CASE d # m
        <4>1. d \in a..n /\ d - 1 \in a..m /\ d - 1 # m
          BY <2>6, <3>2
        <4>2. q[d] = r[d] /\ q[d - 1] = r[d - 1]
          BY <3>2, <4>1
        <4>. QED
          BY <2>1, <2>6, <4>1, <4>2
      <3>. QED
        BY <3>1, <3>2
    <2>7. q[a] = c
      BY <2>1, <2>2
    <2>8. Q(m, q)
      BY <2>6, <2>7
    <2>. QED
      BY <2>2, <2>5, <2>8
  <1>3. b \in G
    <2>1. \A n \in a..b : n \in G
      <3> HIDE DEF G
      <3>. QED
        BY <1>1, <1>2, RangeInduction
    <2>. QED
      BY <2>1
  <1>. QED
    BY <1>3 DEF Follows

\* The loop that keeps v of the last day in K.
Fills(r, from, to, c, K, v) ==
    r = [d \in (from - 1)..to |-> IF d < from THEN c ELSE IF d \in K THEN v[d] ELSE r[d - 1]]

\* Each day shows the value of the latest day of K up to it.
ShowsLatest(r, from, to, c, K, v) ==
    \A d \in (from - 1)..to :
       r[d] = LET ds == {e \in K : e <= d} IN IF ds = {} THEN c ELSE v[Max(ds)]

\* A series filled forward.
LEMMA FilledForward ==
  ASSUME NEW from \in Int, NEW to \in Int, from <= to, NEW V, NEW c \in V,
         NEW K \in SUBSET (from..to), NEW v \in [K -> V]
  PROVE  /\ \E r : Fills(r, from, to, c, K, v)
         /\ \A r : Fills(r, from, to, c, K, v) => ShowsLatest(r, from, to, c, K, v)
  <1> DEFINE a == from - 1
             F == [x \in (a..to) \X V |-> IF x[1] \in K THEN v[x[1]] ELSE x[2]]
  <1>1. a \in Int /\ a <= to /\ F \in [(a..to) \X V -> V]
    OBVIOUS
  <1>2. PICK r : Follows(r, a, to, V, c, F)
    <2> HIDE DEF a, F
    <2>. QED
      BY <1>1, Recursion
  <1>3. /\ r \in [a..to -> V] /\ r[a] = c
        /\ \A d \in a..to : d # a => r[d] = F[<<d, r[d - 1]>>]
    BY <1>2 DEF Follows
  <1>4. r = [d \in a..to |-> IF d < from THEN c ELSE IF d \in K THEN v[d] ELSE r[d - 1]]
    <2>1. ASSUME NEW d \in a..to
          PROVE  r[d] = IF d < from THEN c ELSE IF d \in K THEN v[d] ELSE r[d - 1]
      <3>1. CASE d = a
        BY <1>3, <3>1
      <3>2. CASE d # a
        <4>1. d - 1 \in a..to /\ ~(d < from)
          BY <3>2
        <4>2. r[d - 1] \in V
          BY <4>1, <1>3
        <4>3. <<d, r[d - 1]>> \in (a..to) \X V
          BY <4>2
        <4>4. F[<<d, r[d - 1]>>] = IF d \in K THEN v[d] ELSE r[d - 1]
          BY <4>3
        <4>. QED
          BY <1>3, <3>2, <4>1, <4>4
      <3>. QED
        BY <3>1, <3>2
    <2>. QED
      BY <1>3, <2>1
  <1>5. ASSUME NEW s,
               s = [d \in a..to |-> IF d < from THEN c ELSE IF d \in K THEN v[d] ELSE s[d - 1]]
        PROVE  \A d \in a..to :
                  s[d] = IF {e \in K : e <= d} = {} THEN c ELSE v[Max({e \in K : e <= d})]
    <2> DEFINE Up(d) == {e \in K : e <= d}
               G == {d \in a..to : s[d] = IF Up(d) = {} THEN c ELSE v[Max(Up(d))]}
    <2>0. \A d \in a..to : s[d] = IF d < from THEN c ELSE IF d \in K THEN v[d] ELSE s[d - 1]
      BY <1>5
    <2>4. \A e \in K : e \in Int /\ from <= e /\ e <= to
      OBVIOUS
    <2>1. a \in G
      <3>1. Up(a) = {}
        <4>1. \A e \in K : ~(e <= a)
          BY <2>4
        <4>. QED
          BY <4>1
      <3>2. a \in a..to /\ a < from
        OBVIOUS
      <3>3. s[a] = c
        BY <2>0, <3>2
      <3>. QED
        BY <3>1, <3>2, <3>3
    <2>2. ASSUME NEW n \in a..to, n < to, n \in G PROVE n + 1 \in G
      <3>1. n + 1 \in a..to /\ ~(n + 1 < from) /\ (n + 1) - 1 = n
        BY <2>2
      <3>2. CASE n + 1 \in K
        <4>1. /\ IsFiniteSet(Up(n + 1)) /\ Up(n + 1) \subseteq Int /\ n + 1 \in Up(n + 1)
              /\ \A x \in Up(n + 1) : x <= n + 1
          <5>1. IsFiniteSet(from..to) /\ Up(n + 1) \subseteq from..to
            BY FS_Interval
          <5>2. IsFiniteSet(Up(n + 1))
            BY <5>1, FS_Subset
          <5>. QED
            BY <3>2, <5>1, <5>2
        <4>2. /\ Max(Up(n + 1)) \in Up(n + 1)
              /\ \A x \in Up(n + 1) : x <= Max(Up(n + 1))
          <5> HIDE DEF Up
          <5>1. Up(n + 1) # {}
            BY <4>1
          <5>. QED
            BY <4>1, <5>1, Extremes
        <4>3. Max(Up(n + 1)) = n + 1
          <5> HIDE DEF Up
          <5>1. Max(Up(n + 1)) \in Int /\ Max(Up(n + 1)) <= n + 1 /\ n + 1 <= Max(Up(n + 1))
            BY <4>1, <4>2
          <5>. QED
            BY <5>1
        <4>4. s[n + 1] = v[n + 1]
          BY <2>0, <3>1, <3>2
        <4>. QED
          BY <3>1, <4>1, <4>3, <4>4
      <3>3. CASE n + 1 \notin K
        <4>1. \A e \in K : e <= n + 1 <=> e <= n
          BY <2>4, <3>3
        <4>2. Up(n + 1) = Up(n)
          BY <4>1
        <4>3. s[n + 1] = s[n]
          BY <2>0, <3>1, <3>3
        <4>. QED
          BY <2>2, <3>1, <4>2, <4>3
      <3>. QED
        BY <3>2, <3>3
    <2>3. \A d \in a..to : d \in G
      <3> HIDE DEF G, a
      <3>. QED
        BY <1>1, <2>1, <2>2, RangeInduction
    <2>. QED
      BY <2>3
  <1>. QED
    BY <1>4, <1>5 DEF Fills, ShowsLatest

-----------------------------------------------------------------------------
(***************************************************************************)
(* The rows, and the views of them: dashboard, list and page of portfolios. *)
(***************************************************************************)

\* What every row and holding is.
RowsOK ==
    /\ today \in Days
    /\ snap \in [Tickers -> [Days -> Nat]]
    /\ fx \in SUBSET Days
    /\ hold \in [Portfolios -> [Tickers -> {0, 1}]]
    /\ avg \in [Tickers -> Nat]

\* Rows hold naturals for days that exist, holdings 0 or 1.
THEOREM RowsTyped == Spec => []RowsOK
  <1> USE AnalyticsAssumption
  <1>1. Init => RowsOK
    BY DEF Init, RowsOK, Days
  <1>2. RowsOK /\ [Next]_vars => RowsOK'
    <2> SUFFICES ASSUME RowsOK, [Next]_vars PROVE RowsOK'
      OBVIOUS
    <2>1. ASSUME NEW t \in Tickers, NEW price \in Prices, SaveClose(t, price) PROVE RowsOK'
      <3>1. price \in Nat
        OBVIOUS
      <3>2. snap' \in [Tickers -> [Days -> Nat]]
        BY <2>1, <3>1 DEF RowsOK, SaveClose
      <3>. QED
        BY <2>1, <3>2 DEF RowsOK, SaveClose
    <2>2. CASE SaveRate
      BY <2>2 DEF RowsOK, SaveRate
    <2>3. ASSUME NEW p \in Portfolios, NEW t \in Tickers, Trade(p, t) PROVE RowsOK'
      <3>1. 1 - hold[p][t] \in {0, 1} /\ avg' \in [Tickers -> Nat]
        BY <2>3 DEF RowsOK, Trade
      <3>2. hold' \in [Portfolios -> [Tickers -> {0, 1}]]
        BY <2>3, <3>1 DEF RowsOK, Trade
      <3>. QED
        BY <2>3, <3>2 DEF RowsOK, Trade
    <2>4. CASE NextDay
      BY <2>4 DEF RowsOK, NextDay, Days
    <2>5. CASE UNCHANGED vars
      BY <2>5 DEF RowsOK, vars
    <2>. QED
      BY <2>1, <2>2, <2>3, <2>4, <2>5 DEF Next
  <1>. QED
    BY <1>1, <1>2, PTL DEF Spec

\* Total, as a sum over a function's domain.
LEMMA TotalIs ==
  ASSUME NEW S, NEW f \in [S -> Int]
  PROVE  SumFunction(f) = SumOf(f, S)
  BY SumIsChosen DEF SumFunction

\* The rows of holdings are finitely many.
LEMMA RowsFinite ==
  /\ IsFiniteSet(Rows) /\ Rows \subseteq Portfolios \X Tickers
  /\ \A r \in Rows : r[1] \in Portfolios /\ r[2] \in Tickers /\ r = <<r[1], r[2]>>
  <1>1. IsFiniteSet(Portfolios \X Tickers)
    BY AnalyticsAssumption, FS_Product
  <1>. QED
    BY <1>1, FS_Subset DEF Rows

\* A foreign price is worth more than none, whatever the rate.
LEMMA RateGrows == 
  ASSUME NEW a \in Nat, NEW b \in Nat, NEW c \in Nat, a <= b
  PROVE  a * c <= b * c /\ c * a <= c * b
  OBVIOUS

\* Prices, rates, costs and values are naturals.
LEMMA Amounts ==
  ASSUME RowsOK, NEW t \in Tickers
  PROVE  /\ Price(t) \in Nat /\ Prev(t) \in Nat /\ Rate(t) \in Nat \ {0} /\ avg[t] \in Nat
         /\ Cost(t) \in Nat /\ Worth(t) \in Nat /\ Pnl(t) \in Int
         /\ Price(t) * Rate(t) \in Nat /\ Prev(t) * Rate(t) \in Nat /\ avg[t] * Rate(t) \in Nat
  <1>1. Price(t) \in Nat /\ Prev(t) \in Nat
    BY AnalyticsAssumption DEF RowsOK, Price, Prev, Days
  <1>2. Rate(t) \in Nat \ {0} /\ avg[t] \in Nat
    BY AnalyticsAssumption DEF Rate, RowsOK
  <1>3. Price(t) * Rate(t) \in Nat /\ Prev(t) * Rate(t) \in Nat /\ avg[t] * Rate(t) \in Nat
    BY <1>1, <1>2
  <1>. QED
    BY <1>1, <1>2, <1>3 DEF Cost, Worth, Pnl

\* Value less cost is the profit of the rows.
LEMMA ProfitAddsUp ==
  ASSUME RowsOK
  PROVE  /\ TotalAsset \in Int /\ TotalInvested \in Int
         /\ TotalAsset - TotalInvested = Total(LAMBDA r : Pnl(r[2]), Rows)
  <1> DEFINE worth == [r \in Rows |-> Worth(r[2])]
             cost == [r \in Rows |-> Cost(r[2])]
             pnl == [r \in Rows |-> Pnl(r[2])]
  <1>1. worth \in [Rows -> Int] /\ cost \in [Rows -> Int] /\ pnl \in [Rows -> Int]
    BY RowsFinite, Amounts
  <1>2. \A r \in Rows : worth[r] = cost[r] + pnl[r]
    <2> SUFFICES ASSUME NEW r \in Rows PROVE Worth(r[2]) = Cost(r[2]) + Pnl(r[2])
      OBVIOUS
    <2>1. r[2] \in Tickers
      BY RowsFinite
    <2>. QED
      BY <2>1, Amounts DEF Worth, Pnl
  <1>3. /\ TotalAsset = SumFunction(worth) /\ TotalInvested = SumFunction(cost)
        /\ Total(LAMBDA r : Pnl(r[2]), Rows) = SumFunction(pnl)
    BY DEF TotalAsset, TotalInvested, Total
  <1> HIDE DEF worth, cost, pnl
  <1>4. /\ TotalAsset = SumOf(worth, Rows) /\ TotalInvested = SumOf(cost, Rows)
        /\ Total(LAMBDA r : Pnl(r[2]), Rows) = SumOf(pnl, Rows)
    BY <1>1, <1>3, TotalIs
  <1>5. SumOf(worth, Rows) = SumOf(cost, Rows) + SumOf(pnl, Rows)
    BY <1>1, <1>2, RowsFinite, SumAdds
  <1>6. SumOf(cost, Rows) \in Int /\ SumOf(pnl, Rows) \in Int
    BY <1>1, RowsFinite, SumType
  <1>. QED
    BY <1>4, <1>5, <1>6

\* Whole sums from those of portfolios, or of sectors.
LEMMA AllocationIsWhole ==
  ASSUME RowsOK
  PROVE  Total(LAMBDA r : Allocated(r[2]), Rows) = TotalAsset
  <1>1. ASSUME NEW r \in Rows PROVE Allocated(r[2]) = Worth(r[2])
    <2>1. r[2] \in Tickers
      BY RowsFinite
    <2>2. avg[r[2]] * 1 = avg[r[2]]
      BY <2>1, Amounts
    <2>. QED
      BY <2>2 DEF Allocated, Worth, Cost, Rate
  <1>2. [r \in Rows |-> Allocated(r[2])] = [r \in Rows |-> Worth(r[2])]
    BY <1>1
  <1>. QED
    BY <1>2 DEF Total, TotalAsset

\* The sectors make up what was invested.
LEMMA SectorsAreWhole ==
  ASSUME RowsOK
  PROVE  Total(InSector, {SectorOf[t] : t \in Tickers}) = TotalInvested
  <1> DEFINE B == {SectorOf[t] : t \in Tickers}
             cost == [r \in Rows |-> Cost(r[2])]
             sector == [r \in Rows |-> SectorOf[r[2]]]
             sum == [b \in B |-> InSector(b)]
  <1>1. cost \in [Rows -> Int] /\ sector \in [Rows -> B]
    BY RowsFinite, Amounts
  <1>2. IsFiniteSet(B)
    <2> DEFINE of == [t \in Tickers |-> SectorOf[t]]
    <2>1. of \in Surjection(Tickers, B)
      BY DEF Surjection
    <2> HIDE DEF of, B
    <2>. QED
      BY <2>1, AnalyticsAssumption, FS_Surjection
  <1>3. ASSUME NEW b \in B
        PROVE  /\ sum[b] = SumOf(cost, {r \in Rows : sector[r] = b})
               /\ sum[b] \in Int
    <2> DEFINE R == {r \in Rows : SectorOf[r[2]] = b}
               part == [r \in R |-> Cost(r[2])]
    <2>1. part \in [R -> Int] /\ R \in SUBSET Rows /\ IsFiniteSet(R)
      BY RowsFinite, Amounts, FS_Subset
    <2>2. R = {r \in Rows : sector[r] = b}
      OBVIOUS
    <2>3. sum[b] = SumFunction(part)
      BY DEF InSector, Total
    <2>4. \A r \in R : cost[r] = part[r]
      OBVIOUS
    <2> HIDE DEF part, R, cost, sector, sum
    <2>5. sum[b] = SumOf(part, R)
      BY <2>1, <2>3, TotalIs
    <2>6. SumOf(cost, R) = SumOf(part, R)
      BY <1>1, <2>1, <2>4, SumAgrees
    <2>7. SumOf(cost, R) \in Int
      BY <1>1, <2>1, SumType
    <2>. QED
      BY <2>2, <2>5, <2>6, <2>7
  <1>4. sum \in [B -> Int]
    BY <1>3
  <1>5. TotalInvested = SumFunction(cost) /\ Total(InSector, B) = SumFunction(sum)
    BY DEF TotalInvested, Total
  <1> HIDE DEF cost, sector, sum, B
  <1>6. SumOf(sum, B) = SumOf(cost, Rows)
    BY <1>1, <1>2, <1>3, <1>4, RowsFinite, SumOfGroups
  <1>7. TotalInvested = Total(InSector, B)
    BY <1>1, <1>4, <1>5, <1>6, TotalIs
  <1>. QED
    BY <1>7 DEF B

\* Whoever has a row is held.
LEMMA RowsAreHeld ==
  ASSUME RowsOK
  PROVE  /\ \A t \in Tickers : Qty(t) \in Nat
         /\ \A r \in Rows : r[2] \in Held
  <1> DEFINE own(t) == [p \in Portfolios |-> hold[p][t]]
  <1>1. ASSUME NEW t \in Tickers
        PROVE  /\ own(t) \in [Portfolios -> Int] /\ Qty(t) = SumOf(own(t), Portfolios)
               /\ \A p \in Portfolios : own(t)[p] >= 0
    <2>1. own(t) \in [Portfolios -> Int] /\ \A p \in Portfolios : own(t)[p] >= 0
      BY DEF RowsOK
    <2>2. Qty(t) = SumFunction(own(t))
      BY DEF Qty, Total
    <2> HIDE DEF own
    <2>. QED
      BY <2>1, <2>2, TotalIs
  <1> HIDE DEF own
  <1>2. ASSUME NEW t \in Tickers PROVE Qty(t) \in Nat
    <2>1. SumOf(own(t), Portfolios) \in Int /\ SumOf(own(t), Portfolios) >= 0
      BY <1>1, AnalyticsAssumption, SumType, SumOfSigned
    <2>. QED
      BY <1>1, <2>1
  <1>3. ASSUME NEW r \in Rows PROVE r[2] \in Held
    <2> DEFINE t == r[2]
               p == r[1]
    <2>1. t \in Tickers /\ p \in Portfolios /\ hold[p][t] > 0
      BY RowsFinite DEF Rows
    <2>2. own(t)[p] > 0
      BY <2>1 DEF own
    <2> HIDE DEF t, p
    <2>3. /\ SumOf(own(t), Portfolios) = own(t)[p] + SumOf(own(t), Portfolios \ {p})
          /\ SumOf(own(t), Portfolios \ {p}) \in Int /\ SumOf(own(t), Portfolios \ {p}) >= 0
      BY <1>1, <2>1, AnalyticsAssumption, FS_Subset, SumTakes, SumType, SumOfSigned
    <2>4. own(t)[p] \in Int
      BY <1>1, <2>1
    <2>5. Qty(t) > 0
      BY <1>1, <2>1, <2>2, <2>3, <2>4
    <2>. QED
      BY <2>1, <2>5 DEF Held, t
  <1>. QED
    BY <1>2, <1>3

\* The day's change is no loss when nothing fell, and 0 when nothing moved.
LEMMA DayChangeIsFair ==
  ASSUME RowsOK
  PROVE  /\ (\A t \in Held : Prev(t) <= Price(t)) => DayChange >= 0
         /\ (\A t \in Held : Prev(t) \in {0, Price(t)}) => DayChange = 0
  <1> DEFINE R == {r \in Rows : Prev(r[2]) # 0}
             worth == [r \in R |-> Worth(r[2])]
             prev == [r \in R |-> Prev(r[2]) * Rate(r[2])]
  <1>1. /\ R \in SUBSET Rows /\ IsFiniteSet(R)
        /\ worth \in [R -> Int] /\ prev \in [R -> Int]
    BY RowsFinite, Amounts, FS_Subset
  <1>2. DayChange = SumFunction(worth) - SumFunction(prev)
    BY DEF DayChange, Total
  <1>3. ASSUME NEW r \in R
        PROVE  /\ worth[r] = Price(r[2]) * Rate(r[2]) /\ r[2] \in Tickers
    BY RowsFinite DEF Worth, Prev
  <1>4. \A r \in R : worth[r] = Price(r[2]) * Rate(r[2]) /\ r[2] \in Held
    BY <1>1, <1>3, RowsAreHeld
  <1>5. ASSUME \A t \in Held : Prev(t) <= Price(t)
        PROVE  \A r \in R : prev[r] <= worth[r]
    <2> SUFFICES ASSUME NEW r \in R PROVE Prev(r[2]) * Rate(r[2]) <= Price(r[2]) * Rate(r[2])
      BY <1>4
    <2>1. Prev(r[2]) <= Price(r[2])
      BY <1>4, <1>5
    <2>2. Prev(r[2]) \in Nat /\ Price(r[2]) \in Nat /\ Rate(r[2]) \in Nat
      BY <1>3, Amounts
    <2>. QED
      BY <2>1, <2>2, RateGrows
  <1>6. ASSUME \A t \in Held : Prev(t) \in {0, Price(t)}
        PROVE  \A r \in R : prev[r] = worth[r]
    <2> SUFFICES ASSUME NEW r \in R PROVE prev[r] = worth[r]
      OBVIOUS
    <2>1. Prev(r[2]) = Price(r[2])
      BY <1>4, <1>6
    <2>. QED
      BY <1>4, <2>1
  <1> HIDE DEF worth, prev, R
  <1>7. DayChange = SumOf(worth, R) - SumOf(prev, R)
    BY <1>1, <1>2, TotalIs
  <1>8. SumOf(worth, R) \in Int /\ SumOf(prev, R) \in Int
    BY <1>1, SumType
  <1>9. ASSUME \A t \in Held : Prev(t) <= Price(t) PROVE DayChange >= 0
    BY <1>1, <1>5, <1>7, <1>8, <1>9, SumGrows
  <1>10. ASSUME \A t \in Held : Prev(t) \in {0, Price(t)} PROVE DayChange = 0
    <2>1. SumOf(worth, R) = SumOf(prev, R)
      BY <1>1, <1>6, <1>10, SumAgrees
    <2>. QED
      BY <1>7, <1>8, <2>1
  <1>. QED
    BY <1>9, <1>10

\* The dashboard agrees with itself, whatever is missing.
LEMMA DashboardIsConsistent == RowsOK => DashboardAddsUp
  BY ProfitAddsUp, AllocationIsWhole, SectorsAreWhole, DayChangeIsFair DEF DashboardAddsUp

\* Naturals that add up to nothing are nothing.
LEMMA SumOfNothing ==
  ASSUME NEW S, IsFiniteSet(S), NEW f \in [S -> Nat], SumOf(f, S) = 0, NEW x \in S
  PROVE  f[x] = 0
  <1>1. f \in [S -> Int] /\ IsFiniteSet(S \ {x})
    BY FS_Subset
  <1>2. SumOf(f, S) = f[x] + SumOf(f, S \ {x})
    BY <1>1, SumTakes
  <1>3. SumOf(f, S \ {x}) \in Int /\ SumOf(f, S \ {x}) >= 0
    BY <1>1, SumType, SumOfSigned
  <1>. QED
    BY <1>2, <1>3

\* A holding's profit is that of its item or, when it cost nothing, its value.
LEMMA ItemOrGift ==
  ASSUME RowsOK, NEW r \in Rows
  PROVE  /\ ItemPnl(r) \in Int /\ Gift(r) \in Int
         /\ Pnl(r[2]) = ItemPnl(r) + Gift(r)
  <1>1. r[2] \in Tickers
    BY RowsFinite
  <1>. QED
    BY <1>1, Amounts DEF ItemPnl, Gift, Pnl, Cost, Worth

\* The same of sums.
LEMMA ItemsAndGifts ==
  ASSUME RowsOK, NEW S \in SUBSET Rows
  PROVE  /\ Total(ItemPnl, S) \in Int /\ Total(Gift, S) \in Int
         /\ SumOf([r \in S |-> Pnl(r[2])], S) = Total(ItemPnl, S) + Total(Gift, S)
  <1> DEFINE pnl == [r \in S |-> Pnl(r[2])]
             item == [r \in S |-> ItemPnl(r)]
             gift == [r \in S |-> Gift(r)]
  <1>1. IsFiniteSet(S)
    BY RowsFinite, FS_Subset
  <1>2. pnl \in [S -> Int] /\ item \in [S -> Int] /\ gift \in [S -> Int]
    BY RowsFinite, Amounts, ItemOrGift
  <1>3. \A r \in S : pnl[r] = item[r] + gift[r]
    BY ItemOrGift
  <1>4. Total(ItemPnl, S) = SumFunction(item) /\ Total(Gift, S) = SumFunction(gift)
    BY DEF Total
  <1> HIDE DEF pnl, item, gift
  <1>5. SumFunction(item) = SumOf(item, S) /\ SumFunction(gift) = SumOf(gift, S)
    BY <1>2, TotalIs
  <1>6. SumOf(pnl, S) = SumOf(item, S) + SumOf(gift, S)
    BY <1>1, <1>2, <1>3, SumAdds
  <1>7. SumOf(item, S) \in Int /\ SumOf(gift, S) \in Int
    BY <1>1, <1>2, SumType
  <1>. QED
    BY <1>4, <1>5, <1>6, <1>7 DEF pnl

\* A portfolio's profit in the list is that of its items and, unless all that is
\* priced cost nothing, of what cost nothing.
LEMMA PortfolioItems ==
  ASSUME RowsOK, NEW p \in Portfolios
  PROVE  PortfolioPnl(p) = Total(ItemPnl, Of(p)) +
            (IF Invested(Priced(p)) = 0 THEN 0 ELSE Total(Gift, Of(p)))
  <1> DEFINE pnl == [r \in Of(p) |-> Pnl(r[2])]
             gain == [r \in Priced(p) |-> Pnl(r[2])]
             value == [r \in Priced(p) |-> Price(r[2]) * Rate(r[2])]
             cost == [r \in Priced(p) |-> Cost(r[2])]
             item == [r \in Of(p) |-> ItemPnl(r)]
  <1>1. /\ Of(p) \in SUBSET Rows /\ IsFiniteSet(Of(p))
        /\ Priced(p) \in SUBSET Of(p) /\ IsFiniteSet(Priced(p))
    BY RowsFinite, FS_Subset DEF Of, Priced
  <1>2. ASSUME NEW r \in Of(p)
        PROVE  /\ Pnl(r[2]) \in Int /\ Cost(r[2]) \in Nat /\ ItemPnl(r) \in Int
               /\ Price(r[2]) * Rate(r[2]) \in Int
    <2>1. r \in Rows /\ r[2] \in Tickers
      BY <1>1, RowsFinite
    <2>. QED
      BY <2>1, Amounts, ItemOrGift
  <1>3. /\ pnl \in [Of(p) -> Int] /\ item \in [Of(p) -> Int] /\ gain \in [Priced(p) -> Int]
        /\ value \in [Priced(p) -> Int] /\ cost \in [Priced(p) -> Nat]
    BY <1>1, <1>2
  <1>4. /\ \A r \in Priced(p) : value[r] = cost[r] + gain[r] /\ gain[r] = pnl[r]
        /\ \A r \in Of(p) \ Priced(p) : pnl[r] = 0 /\ item[r] = 0
        /\ \A r \in Priced(p) : cost[r] = 0 => item[r] = 0
    <2>1. ASSUME NEW r \in Priced(p)
          PROVE  /\ Price(r[2]) * Rate(r[2]) = Cost(r[2]) + Pnl(r[2])
                 /\ Cost(r[2]) = 0 => ItemPnl(r) = 0
      BY <1>1, <1>2 DEF Priced, Pnl, ItemPnl
    <2>2. ASSUME NEW r \in Of(p) \ Priced(p) PROVE Pnl(r[2]) = 0 /\ ItemPnl(r) = 0
      BY DEF Priced, Pnl, ItemPnl
    <2>. QED
      BY <1>1, <1>2, <2>1, <2>2
  <1>5. /\ Value(p) = SumFunction(value) /\ Invested(Priced(p)) = SumFunction(cost)
        /\ Total(ItemPnl, Of(p)) = SumFunction(item)
    BY DEF Value, Invested, Total
  <1>6. SumOf(pnl, Of(p)) = Total(ItemPnl, Of(p)) + Total(Gift, Of(p))
    BY <1>1, ItemsAndGifts
  <1> HIDE DEF pnl, gain, item, value, cost
  <1>7. cost \in [Priced(p) -> Int]
    BY <1>3
  <1>8. /\ Value(p) = SumOf(value, Priced(p)) /\ Invested(Priced(p)) = SumOf(cost, Priced(p))
        /\ Total(ItemPnl, Of(p)) = SumOf(item, Of(p))
    BY <1>3, <1>5, <1>7, TotalIs
  <1>9. CASE Invested(Priced(p)) = 0
    <2>1. \A r \in Priced(p) : cost[r] = 0
      BY <1>1, <1>3, <1>8, <1>9, SumOfNothing
    <2>2. \A r \in Of(p) : item[r] = 0
      BY <1>4, <2>1
    <2>3. SumOf(item, Of(p)) = 0
      BY <1>1, <1>3, <2>2, SumOfSigned
    <2>. QED
      BY <1>8, <1>9, <2>3 DEF PortfolioPnl
  <1>10. CASE Invested(Priced(p)) # 0
    <2>1. SumOf(value, Priced(p)) = SumOf(cost, Priced(p)) + SumOf(gain, Priced(p))
      BY <1>1, <1>3, <1>4, <1>7, SumAdds
    <2>2. SumOf(gain, Priced(p)) = SumOf(pnl, Priced(p))
      BY <1>1, <1>3, <1>4, SumAgrees
    <2>3. SumOf(pnl, Of(p)) = SumOf(pnl, Priced(p))
      BY <1>1, <1>3, <1>4, SumOfSupport
    <2>4. SumOf(cost, Priced(p)) \in Int /\ SumOf(gain, Priced(p)) \in Int
      BY <1>1, <1>3, <1>7, SumType
    <2>5. PortfolioPnl(p) = SumOf(pnl, Of(p))
      BY <1>8, <1>10, <2>1, <2>2, <2>3, <2>4 DEF PortfolioPnl
    <2>. QED
      BY <1>6, <1>10, <2>5
  <1>. QED
    BY <1>9, <1>10

\* The dashboard, the list of portfolios and the page of each portfolio show one
\* profit but for what cost nothing, of which each makes something else, for any
\* tickers, portfolios, prices and rates (api/dashboard.py, portfolios.py,
\* portfolio_holdings.py).
THEOREM ViewsAgreeAlways == Spec => []ViewsAgree
  <1>1. ASSUME RowsOK
        PROVE  TotalAsset - TotalInvested = Total(ItemPnl, Rows) + Total(Gift, Rows)
    <2> DEFINE pnl == [r \in Rows |-> Pnl(r[2])]
    <2>1. pnl \in [Rows -> Int]
      BY <1>1, RowsFinite, Amounts
    <2>2. Total(LAMBDA r : Pnl(r[2]), Rows) = SumFunction(pnl)
      BY DEF Total
    <2>3. SumOf(pnl, Rows) = Total(ItemPnl, Rows) + Total(Gift, Rows)
      BY <1>1, ItemsAndGifts
    <2> HIDE DEF pnl
    <2>4. SumFunction(pnl) = SumOf(pnl, Rows)
      BY <2>1, TotalIs
    <2>. QED
      BY <1>1, <2>2, <2>3, <2>4, ProfitAddsUp
  <1>2. ASSUME RowsOK, NEW p \in Portfolios, \A r \in Of(p) : r[2] \in Domestic
        PROVE  ListInvested(p) = Invested(Of(p))
    <2>1. ASSUME NEW r \in Of(p) PROVE avg[r[2]] = Cost(r[2])
      <3>1. r[2] \in Tickers
        BY RowsFinite DEF Of
      <3>2. avg[r[2]] \in Int
        BY <1>2, <3>1, Amounts
      <3>3. Rate(r[2]) = 1
        BY <1>2 DEF Rate
      <3>. QED
        BY <3>2, <3>3 DEF Cost
    <2>2. [r \in Of(p) |-> avg[r[2]]] = [r \in Of(p) |-> Cost(r[2])]
      BY <2>1
    <2>. QED
      BY <2>2 DEF ListInvested, Invested, Total
  <1>3. RowsOK => ViewsAgree
    BY <1>1, <1>2, DashboardIsConsistent, PortfolioItems DEF ViewsAgree
  <1>. QED
    BY <1>3, RowsTyped, PTL

-----------------------------------------------------------------------------
(***************************************************************************)
(* The series: values carried forward over missing closes and rates.       *)
(***************************************************************************)

\* The close known on day d: the latest up to it or, before the first, the first.
Known(t, d, from) ==
    LET ds == {e \in Closes(t, from) : e <= d}
    IN IF ds # {} THEN snap[t][Max(ds)] ELSE FirstClose(t, from)

\* Closes are of days, and positive.
LEMMA ClosesAreDays ==
  ASSUME RowsOK, NEW t \in Tickers, NEW from \in 1..LastDay
  PROVE  /\ Closes(t, from) \in SUBSET (from..today) /\ IsFiniteSet(Closes(t, from))
         /\ Closes(t, from) \subseteq Days
         /\ \A d \in Closes(t, from) : snap[t][d] \in Nat \ {0}
  <1>1. Closes(t, from) \in SUBSET (from..today)
    BY DEF Closes
  <1>2. today \in Int /\ from \in Int /\ from..today \subseteq Days
    BY AnalyticsAssumption DEF RowsOK, Days
  <1>3. IsFiniteSet(Closes(t, from))
    BY <1>1, <1>2, FS_Interval, FS_Subset
  <1>4. \A d \in Closes(t, from) : snap[t][d] \in Nat \ {0}
    BY <1>1, <1>2 DEF Closes, RowsOK
  <1>. QED
    BY <1>1, <1>2, <1>3, <1>4

\* last_close is the latest close up to a date.
LEMMA LastCloseIsLatest ==
  ASSUME RowsOK, NEW t \in Tickers, NEW from \in 1..today
  PROVE  \A d \in from..today :
            LastClose(t, from)[d] =
               LET ds == {e \in Closes(t, from) : e <= d}
               IN IF ds = {} THEN 0 ELSE snap[t][Max(ds)]
  <1> DEFINE K == Closes(t, from)
             v == [d \in K |-> snap[t][d]]
             c == 0
             Solves(r) == r = [d \in (from - 1)..today |->
                          IF d < from THEN 0 ELSE IF snap[t][d] # 0 THEN snap[t][d] ELSE r[d - 1]]
             Filling(r) == Fills(r, from, today, c, K, v)
             Shows(r) == ShowsLatest(r, from, today, c, K, v)
  <1>1. today \in Int /\ from \in Int /\ from <= today /\ from \in 1..LastDay
    BY AnalyticsAssumption DEF RowsOK, Days
  <1>2. K \in SUBSET (from..today) /\ v \in [K -> Nat] /\ c \in Nat /\ IsFiniteSet(K)
    BY <1>1, ClosesAreDays
  <1>3. (\E r : Filling(r)) /\ \A r : Filling(r) => Shows(r)
    <2> HIDE DEF K, v, c
    <2>. QED
      BY <1>1, <1>2, FilledForward
  <1>4. ASSUME NEW r PROVE Solves(r) <=> Filling(r)
    <2>1. ASSUME NEW d \in (from - 1)..today
          PROVE  (IF d < from THEN 0 ELSE IF snap[t][d] # 0 THEN snap[t][d] ELSE r[d - 1])
                  = (IF d < from THEN c ELSE IF d \in K THEN v[d] ELSE r[d - 1])
      <3>1. ~(d < from) => d \in from..today
        BY <1>1
      <3>2. d \in K <=> d \in from..today /\ snap[t][d] # 0
        BY DEF Closes
      <3>. QED
        BY <3>1, <3>2
    <2>. QED
      BY <2>1 DEF Fills
  <1>5. LastClose(t, from) = CHOOSE r : Solves(r)
    BY DEF LastClose
  <1>6. Shows(LastClose(t, from))
    <2> HIDE DEF Solves, Filling, Shows
    <2>1. \E r : Solves(r)
      BY <1>3, <1>4
    <2>2. Solves(LastClose(t, from))
      BY <1>5, <2>1
    <2>. QED
      BY <1>3, <1>4, <2>2
  <1>7. ASSUME NEW d \in from..today
        PROVE  LastClose(t, from)[d] = IF {e \in K : e <= d} = {} THEN 0
                                         ELSE snap[t][Max({e \in K : e <= d})]
    <2> DEFINE ds == {e \in K : e <= d}
    <2>1. d \in (from - 1)..today
      BY <1>1
    <2>2. LastClose(t, from)[d] = IF ds = {} THEN c ELSE v[Max(ds)]
      BY <1>6, <2>1 DEF ShowsLatest
    <2>3. ds # {} => Max(ds) \in K
      <3>1. IsFiniteSet(ds) /\ ds \subseteq Int /\ ds \subseteq K
        BY <1>1, <1>2, FS_Subset
      <3> HIDE DEF ds
      <3>. QED
        BY <3>1, Extremes
    <2>. QED
      BY <2>2, <2>3
  <1>. QED
    BY <1>7

\* {**first_close, **last_close} is the close known.
LEMMA EffectiveIsKnown ==
  ASSUME RowsOK, NEW t \in Tickers, NEW from \in 1..today, NEW d \in from..today
  PROVE  Effective(t, d, from) = Known(t, d, from)
  <1> DEFINE ds == {e \in Closes(t, from) : e <= d}
  <1>1. today \in Int /\ from \in Int /\ from <= today /\ from \in 1..LastDay
    BY AnalyticsAssumption DEF RowsOK, Days
  <1>2. LastClose(t, from)[d] = IF ds = {} THEN 0 ELSE snap[t][Max(ds)]
    BY <1>1, LastCloseIsLatest
  <1>3. ds # {} => snap[t][Max(ds)] # 0
    <2>1. IsFiniteSet(ds) /\ ds \subseteq Int /\ ds \subseteq Closes(t, from)
      BY <1>1, ClosesAreDays, FS_Subset
    <2>2. \A e \in Closes(t, from) : snap[t][e] # 0
      BY DEF Closes
    <2> HIDE DEF ds
    <2>. QED
      BY <2>1, <2>2, Extremes
  <1>. QED
    BY <1>2, <1>3 DEF Effective, Known

\* A filled rate is the last saved up to a date.
LEMMA FilledIsLatest ==
  ASSUME RowsOK, NEW from \in 1..today, {e \in fx : e >= from} \subseteq Dates(from),
         NEW d \in Dates(from)
  PROVE  Filled(from)[d] =
            LET rates == {e \in fx : from <= e /\ e <= d}
            IN IF rates = {} THEN Fallback ELSE RateOf[Max(rates)]
  <1> DEFINE K == Dates(from) \cap fx
             v == [e \in K |-> RateOf[e]]
             Solves(r) == r = [e \in (from - 1)..today |->
                          IF e < from THEN Fallback
                          ELSE IF e \in Dates(from) \cap fx THEN RateOf[e] ELSE r[e - 1]]
             Filling(r) == Fills(r, from, today, Fallback, K, v)
             Shows(r) == ShowsLatest(r, from, today, Fallback, K, v)
             F == CHOOSE r : Solves(r)
             ds == {e \in K : e <= d}
  <1>1. today \in Int /\ from \in Int /\ from <= today /\ from \in 1..LastDay
    BY AnalyticsAssumption DEF RowsOK, Days
  <1>2. Dates(from) \subseteq from..today /\ from..today \subseteq Days /\ d \in from..today
    <2>1. \A t \in Held : Closes(t, from) \subseteq from..today
      BY DEF Closes
    <2>2. from..today \subseteq Days
      BY AnalyticsAssumption DEF RowsOK, Days
    <2>. QED
      BY <2>1, <2>2 DEF Dates
  <1>3. K \in SUBSET (from..today) /\ v \in [K -> Nat] /\ Fallback \in Nat /\ IsFiniteSet(K)
    <2>1. K \in SUBSET (from..today) /\ K \subseteq Days
      BY <1>2
    <2>2. IsFiniteSet(K)
      BY <1>1, <2>1, FS_Interval, FS_Subset
    <2>. QED
      BY <2>1, <2>2, AnalyticsAssumption
  <1>4. (\E r : Filling(r)) /\ \A r : Filling(r) => Shows(r)
    <2> HIDE DEF K, v
    <2>. QED
      BY <1>1, <1>3, FilledForward
  <1>5. ASSUME NEW r PROVE Solves(r) <=> Filling(r)
    BY DEF Fills
  <1>6. Shows(F)
    <2> HIDE DEF Solves, Filling, Shows
    <2>1. \E r : Solves(r)
      BY <1>4, <1>5
    <2>2. Solves(F)
      BY <2>1
    <2>. QED
      BY <1>4, <1>5, <2>2
  <1>7. Filled(from)[d] = F[d]
    BY DEF Filled
  <1>8. F[d] = IF ds = {} THEN Fallback ELSE v[Max(ds)]
    <2>1. d \in (from - 1)..today
      BY <1>1, <1>2
    <2> HIDE DEF F
    <2>. QED
      BY <1>6, <2>1 DEF ShowsLatest
  <1>9. ds # {} => Max(ds) \in K
    <2>1. IsFiniteSet(ds) /\ ds \subseteq Int /\ ds \subseteq K
      BY <1>1, <1>3, FS_Subset
    <2> HIDE DEF ds
    <2>. QED
      BY <2>1, Extremes
  <1>10. ds = {e \in fx : from <= e /\ e <= d}
    <2>1. \A e \in fx : e \in Int
      BY DEF RowsOK, Days
    <2>2. \A e \in K : from <= e
      BY <1>3
    <2>. QED
      BY <2>1, <2>2
  <1>11. F[d] = IF ds = {} THEN Fallback ELSE RateOf[Max(ds)]
    <2> HIDE DEF F, ds
    <2>. QED
      BY <1>8, <1>9
  <1>. QED
    BY <1>7, <1>10, <1>11

\* The value of each date is that of the closes known on it, in KRW at the last
\* rate saved (api/analytics_history.py, services/fx_utils.py), however long the
\* series and wherever rows are missing.
THEOREM HistoryFilledAlways == Spec => []HistoryFilled
  <1>1. ASSUME RowsOK, NEW from \in 1..today, NEW d \in Dates(from)
        PROVE  /\ History(from)[d] = Total(LAMBDA t : Qty(t) * Known(t, d, from), Held)
               /\ {e \in fx : e >= from} \subseteq Dates(from) =>
                    KrwHistory(from)[d] =
                      Total(LAMBDA t : Qty(t) * Known(t, d, from) *
                              (IF t \in Domestic THEN 1
                               ELSE IF {e \in fx : from <= e /\ e <= d} = {} THEN Fallback
                                    ELSE RateOf[Max({e \in fx : from <= e /\ e <= d})]), Held)
    <2>1. d \in from..today
      BY DEF Dates, Closes
    <2>2. \A t \in Held : Effective(t, d, from) = Known(t, d, from)
      BY <1>1, <2>1, EffectiveIsKnown DEF Held
    <2>3. [t \in Held |-> Qty(t) * Effective(t, d, from)] = [t \in Held |-> Qty(t) * Known(t, d, from)]
      BY <2>2
    <2>4. History(from)[d] = Total(LAMBDA t : Qty(t) * Known(t, d, from), Held)
      BY <2>3 DEF History, Total
    <2>5. ASSUME {e \in fx : e >= from} \subseteq Dates(from)
          PROVE  KrwHistory(from)[d] =
                      Total(LAMBDA t : Qty(t) * Known(t, d, from) *
                              (IF t \in Domestic THEN 1
                               ELSE IF {e \in fx : from <= e /\ e <= d} = {} THEN Fallback
                                    ELSE RateOf[Max({e \in fx : from <= e /\ e <= d})]), Held)
      <3> DEFINE rate == IF {e \in fx : from <= e /\ e <= d} = {} THEN Fallback
                         ELSE RateOf[Max({e \in fx : from <= e /\ e <= d})]
      <3>1. Filled(from)[d] = rate
        BY <1>1, <2>5, FilledIsLatest
      <3> HIDE DEF rate
      <3>2. [t \in Held |-> Qty(t) * Effective(t, d, from) *
                            (IF t \in Domestic THEN 1 ELSE Filled(from)[d])]
             = [t \in Held |-> Qty(t) * Known(t, d, from) * (IF t \in Domestic THEN 1 ELSE rate)]
        BY <2>2, <3>1
      <3>3. KrwHistory(from)[d] = SumFunction([t \in Held |-> Qty(t) * Effective(t, d, from) *
                            (IF t \in Domestic THEN 1 ELSE Filled(from)[d])])
        BY DEF KrwHistory, Total
      <3>. QED
        BY <3>2, <3>3 DEF Total, rate
    <2>. QED
      BY <2>4, <2>5
  <1>2. RowsOK => HistoryFilled
    BY <1>1 DEF HistoryFilled, Known
  <1>. QED
    BY <1>2, RowsTyped, PTL

-----------------------------------------------------------------------------
(***************************************************************************)
(* Days in order.                                                          *)
(***************************************************************************)

\* The days of S up to d.
UpTo(S, d) == {e \in S : e <= d}

\* Each rank is some day's.
LEMMA RanksExist ==
  ASSUME NEW S, IsFiniteSet(S), S \subseteq Int
  PROVE  \A i \in 1..Cardinality(S) : \E d \in S : Cardinality(UpTo(S, d)) = i
  <1> DEFINE G == {T \in SUBSET S : \A i \in 1..Cardinality(T) :
                                       \E d \in T : Cardinality(UpTo(T, d)) = i}
  <1>1. ASSUME NEW T \in SUBSET S, \A U \in SUBSET T : U # T => U \in G
        PROVE  T \in G
    <2> SUFFICES ASSUME NEW i \in 1..Cardinality(T)
                 PROVE  \E d \in T : Cardinality(UpTo(T, d)) = i
      OBVIOUS
    <2>1. IsFiniteSet(T) /\ T \subseteq Int /\ Cardinality(T) \in Nat
      BY FS_Subset, FS_CardinalityType
    <2>2. T # {}
      BY <2>1, FS_EmptySet
    <2> DEFINE m == Max(T)
               U == T \ {m}
    <2>3. m \in T /\ \A x \in T : x <= m
      BY <2>1, <2>2, Extremes
    <2> HIDE DEF m
    <2>4. Cardinality(U) = Cardinality(T) - 1
      BY <2>1, <2>3, FS_RemoveElement
    <2>5. CASE i = Cardinality(T)
      <3>1. UpTo(T, m) = T
        BY <2>3 DEF UpTo
      <3>. QED
        BY <2>3, <2>5, <3>1
    <2>6. CASE i # Cardinality(T)
      <3>1. i \in 1..Cardinality(U)
        BY <2>1, <2>4, <2>6
      <3>2. U \in G
        BY <1>1, <2>3
      <3>3. PICK d \in U : Cardinality(UpTo(U, d)) = i
        BY <3>1, <3>2
      <3>4. UpTo(T, d) = UpTo(U, d)
        <4>1. d <= m /\ d # m /\ d \in Int /\ m \in Int
          BY <2>1, <2>3
        <4>2. ~(m <= d)
          BY <4>1
        <4>. QED
          BY <4>2 DEF UpTo
      <3>. QED
        BY <3>3, <3>4
    <2>. QED
      BY <2>5, <2>6
  <1>2. S \in G
    <2> HIDE DEF G
    <2>. QED
      BY <1>1, SetInduction
  <1>. QED
    BY <1>2

\* The days of a set in order.
LEMMA SortedInOrder ==
  ASSUME NEW S, IsFiniteSet(S), S \subseteq Int
  PROVE  /\ Sorted(S) \in [1..Cardinality(S) -> S] /\ Cardinality(S) \in Nat
         /\ \A i \in 1..Cardinality(S) : Cardinality(UpTo(S, Sorted(S)[i])) = i
         /\ \A i, j \in 1..Cardinality(S) : i < j <=> Sorted(S)[i] < Sorted(S)[j]
         /\ \A d \in S : /\ Cardinality(UpTo(S, d)) \in 1..Cardinality(S)
                         /\ Sorted(S)[Cardinality(UpTo(S, d))] = d
  <1> DEFINE n == Cardinality(S)
             s == Sorted(S)
             rank(d) == Cardinality(UpTo(S, d))
  <1>1. n \in Nat
    BY FS_CardinalityType
  <1>2. ASSUME NEW i \in 1..n PROVE s[i] \in S /\ rank(s[i]) = i
    <2>1. s[i] = CHOOSE d \in S : rank(d) = i
      BY DEF Sorted, UpTo
    <2>2. \E d \in S : rank(d) = i
      BY RanksExist
    <2> HIDE DEF s, rank
    <2>. QED
      BY <2>1, <2>2
  <1>3. s \in [1..n -> S]
    <2> DEFINE at(i) == CHOOSE d \in S : Cardinality({e \in S : e <= d}) = i
    <2>0. s = [i \in 1..n |-> at(i)]
      BY DEF Sorted
    <2>1. s = [i \in 1..n |-> s[i]]
      <3> HIDE DEF at, s, n
      <3>. QED
        BY <2>0
    <2> HIDE DEF s, n
    <2>. QED
      BY <1>2, <2>1
  <1>4. \A d \in S : IsFiniteSet(UpTo(S, d)) /\ UpTo(S, d) \subseteq S /\ d \in UpTo(S, d)
    BY FS_Subset DEF UpTo
  <1>5. ASSUME NEW d \in S, NEW e \in S, d < e PROVE rank(d) < rank(e)
    <2>0. d \in Int /\ e \in Int /\ \A x \in S : x \in Int
      OBVIOUS
    <2>1. UpTo(S, d) \subseteq UpTo(S, e) /\ e \notin UpTo(S, d)
      <3>1. \A x \in S : x <= d => x <= e
        BY <1>5, <2>0
      <3>2. ~(e <= d)
        BY <1>5, <2>0
      <3>. QED
        BY <3>1, <3>2 DEF UpTo
    <2>2. UpTo(S, d) # UpTo(S, e)
      BY <1>4, <2>1
    <2>3. rank(d) <= rank(e) /\ rank(d) # rank(e)
      BY <1>4, <2>1, <2>2, FS_Subset
    <2>4. rank(d) \in Nat /\ rank(e) \in Nat
      BY <1>4, FS_CardinalityType
    <2>. QED
      BY <2>3, <2>4
  <1>6. ASSUME NEW d \in S PROVE rank(d) \in 1..n /\ s[rank(d)] = d
    <2>1. rank(d) \in Nat /\ rank(d) <= n /\ rank(d) # 0
      BY <1>4, FS_Subset, FS_CardinalityType, FS_EmptySet
    <2>2. rank(d) \in 1..n
      BY <1>1, <2>1
    <2> DEFINE e == s[rank(d)]
    <2>3. e \in S /\ rank(e) = rank(d)
      BY <1>2, <2>2
    <2>4. e \in Int /\ d \in Int
      BY <2>3
    <2>5. ~(e < d) /\ ~(d < e)
      <3> HIDE DEF e, rank, n, s
      <3>1. rank(d) \in Int
        BY <2>1
      <3>. QED
        BY <1>5, <2>3, <3>1
    <2>. QED
      BY <2>2, <2>4, <2>5
  <1>7. ASSUME NEW i \in 1..n, NEW j \in 1..n PROVE i < j <=> s[i] < s[j]
    <2>1. s[i] \in S /\ s[j] \in S /\ s[i] \in Int /\ s[j] \in Int /\ i \in Int /\ j \in Int
      <3>1. s[i] \in S /\ s[j] \in S
        BY <1>2
      <3> HIDE DEF s, n
      <3>2. i \in Int /\ j \in Int
        BY <1>1
      <3>. QED
        BY <3>1, <3>2
    <2>2. s[i] < s[j] => i < j
      <3>1. s[i] < s[j] => rank(s[i]) < rank(s[j])
        BY <1>5, <2>1
      <3> HIDE DEF rank, s, n
      <3>. QED
        BY <1>2, <3>1
    <2>3. s[j] < s[i] => j < i
      <3>1. s[j] < s[i] => rank(s[j]) < rank(s[i])
        BY <1>5, <2>1
      <3> HIDE DEF rank, s, n
      <3>. QED
        BY <1>2, <3>1
    <2>4. s[i] = s[j] => i = j
      <3> HIDE DEF rank, s, n
      <3>. QED
        BY <1>2
    <2> HIDE DEF s, n
    <2>. QED
      BY <2>1, <2>2, <2>3, <2>4
  <1>. QED
    BY <1>1, <1>2, <1>3, <1>6, <1>7

-----------------------------------------------------------------------------
(***************************************************************************)
(* The deepest fall.                                                       *)
(***************************************************************************)

\* Amounts of what is held.
Positive == Nat \ {0}

\* Above orders fractions.
LEMMA RatesAreOrdered ==
  ASSUME NEW a \in Int, NEW b \in Int, NEW c \in Int,
         NEW p \in Positive, NEW q \in Positive, NEW r \in Positive
  PROVE  /\ ~Above(<<a, p>>, <<a, p>>)
         /\ Above(<<a, p>>, <<b, q>>) => ~Above(<<b, q>>, <<a, p>>)
         /\ ~Above(<<a, p>>, <<b, q>>) /\ ~Above(<<b, q>>, <<c, r>>) => ~Above(<<a, p>>, <<c, r>>)
  <1>1. /\ a * q \in Int /\ b * p \in Int /\ b * r \in Int /\ c * q \in Int
        /\ a * r \in Int /\ c * p \in Int /\ a * p \in Int
    BY DEF Positive
  <1>2. ASSUME a * q <= b * p, b * r <= c * q PROVE a * r <= c * p
    <2>1. (a * q) * r <= (b * p) * r
      BY <1>1, <1>2 DEF Positive
    <2>2. (b * r) * p <= (c * q) * p
      BY <1>1, <1>2 DEF Positive
    <2>3. (a * q) * r = (a * r) * q /\ (b * p) * r = (b * r) * p /\ (c * q) * p = (c * p) * q
      BY DEF Positive
    <2>4. (a * r) * q <= (c * p) * q
      <3>1. (a * q) * r \in Int /\ (b * p) * r \in Int /\ (c * q) * p \in Int
        BY <1>1 DEF Positive
      <3>. QED
        BY <2>1, <2>2, <2>3, <3>1
    <2>5. ASSUME NEW x \in Int, NEW y \in Int, x * q <= y * q PROVE x <= y
      BY <2>5 DEF Positive
    <2>. QED
      BY <1>1, <2>4, <2>5
  <1>3. Above(<<a, p>>, <<b, q>>) <=> a * q > b * p
    BY DEF Above
  <1>4. Above(<<b, q>>, <<a, p>>) <=> b * p > a * q
    BY DEF Above
  <1>5. Above(<<b, q>>, <<c, r>>) <=> b * r > c * q
    BY DEF Above
  <1>6. Above(<<a, p>>, <<c, r>>) <=> a * r > c * p
    BY DEF Above
  <1>7. Above(<<a, p>>, <<a, p>>) <=> a * p > a * p
    BY DEF Above
  <1>. QED
    BY <1>1, <1>2, <1>3, <1>4, <1>5, <1>6, <1>7

\* From a higher peak the same value is a deeper fall.
LEMMA HigherPeak ==
  ASSUME NEW p \in Positive, NEW q \in Positive, NEW x \in Positive, p <= q
  PROVE  ~Above(<<p - x, p>>, <<q - x, q>>)
  <1>1. (p - x) * q = p * q - x * q /\ (q - x) * p = p * q - x * p
    BY DEF Positive
  <1>2. x * p <= x * q
    BY RateGrows DEF Positive
  <1>3. p * q \in Int /\ x * q \in Int /\ x * p \in Int
    BY DEF Positive
  <1>4. ~((p - x) * q > (q - x) * p)
    BY <1>1, <1>2, <1>3
  <1>. QED
    BY <1>4 DEF Above

\* m is the deepest fall among the first n values of s, or none.
Deepest(s, n, m) ==
    /\ \A i \in 1..n : \A j \in i..n : ~Above(<<s[i] - s[j], s[i]>>, m)
    /\ m = <<0, 1>> \/ \E i \in 1..n : \E j \in i..n : m = <<s[i] - s[j], s[i]>>

\* p is the highest among them.
Highest(s, n, p) == (\A i \in 1..n : s[i] <= p) /\ \E i \in 1..n : p = s[i]

\* The loop body of _calc_mdd.
Deeper(r, x) ==
    LET peak == IF x > r.peak THEN x ELSE r.peak
        dd == <<peak - x, peak>>
    IN [peak |-> peak, most |-> IF Above(dd, r.most) THEN dd ELSE r.most]

\* The state of the loop.
Peaks == [peak : Positive, most : Int \X Positive]

\* It keeps the highest and the deepest.
LEMMA DeeperIsDeepest ==
  ASSUME NEW N \in Nat, NEW s \in [1..N -> Positive], NEW n \in 1..N, n < N,
         NEW r \in Peaks, Highest(s, n, r.peak), Deepest(s, n, r.most)
  PROVE  /\ Deeper(r, s[n + 1]) \in Peaks
         /\ Highest(s, n + 1, Deeper(r, s[n + 1]).peak)
         /\ Deepest(s, n + 1, Deeper(r, s[n + 1]).most)
  <1> DEFINE x == s[n + 1]
             peak == IF x > r.peak THEN x ELSE r.peak
             dd == <<peak - x, peak>>
             most == IF Above(dd, r.most) THEN dd ELSE r.most
  <1>1. n + 1 \in 1..N /\ x \in Positive /\ r.peak \in Positive /\ peak \in Positive
    BY DEF Peaks
  <1>2. \A i \in 1..n : i \in 1..N /\ s[i] \in Positive
    OBVIOUS
  <1>3. Deeper(r, x).peak = peak /\ Deeper(r, x).most = most
    BY DEF Deeper
  <1>4. peak - x \in Int /\ dd \in Int \X Positive /\ r.most \in Int \X Positive
    BY <1>1 DEF Peaks, Positive
  <1>5. most \in Int \X Positive
    BY <1>4
  <1>6. Deeper(r, x) \in Peaks
    BY <1>1, <1>5 DEF Deeper, Peaks
  <1>7. /\ \A i \in 1..(n + 1) : s[i] <= peak
        /\ \E i \in 1..(n + 1) : peak = s[i]
    <2>1. \A i \in 1..n : s[i] <= r.peak /\ s[i] \in Int
      BY <1>2 DEF Highest, Positive
    <2>2. \A i \in 1..(n + 1) : i \in 1..n \/ i = n + 1
      OBVIOUS
    <2>3. x \in Int /\ r.peak \in Int
      BY <1>1 DEF Positive
    <2>4. PICK k \in 1..n : r.peak = s[k]
      BY DEF Highest
    <2>5. k \in 1..(n + 1) /\ n + 1 \in 1..(n + 1)
      OBVIOUS
    <2>6. \E i \in 1..(n + 1) : peak = s[i]
      BY <2>4, <2>5
    <2>7. r.peak <= peak /\ x <= peak /\ peak \in Int
      BY <2>3
    <2> HIDE DEF peak
    <2>8. ASSUME NEW i \in 1..(n + 1) PROVE s[i] <= peak
      <3>1. CASE i = n + 1
        BY <2>7, <3>1
      <3>2. CASE i \in 1..n
        <4>1. s[i] <= r.peak /\ s[i] \in Int
          BY <2>1, <3>2
        <4>. QED
          BY <2>3, <2>7, <4>1
      <3>. QED
        BY <2>2, <3>1, <3>2
    <2>. QED
      BY <2>6, <2>8
  <1>8. Highest(s, n + 1, peak)
    BY <1>7 DEF Highest
  <1> DEFINE Fall(i, j) == <<s[i] - s[j], s[i]>>
  <1>9. ASSUME NEW i \in 1..(n + 1), NEW j \in i..(n + 1) PROVE Fall(i, j) \in Int \X Positive
    <2>1. i \in 1..N /\ j \in 1..N
      BY <1>1
    <2>2. s[i] \in Positive /\ s[j] \in Positive
      BY <2>1
    <2>. QED
      BY <2>2 DEF Positive
  <1>10. \A a, b, c \in Int \X Positive :
           /\ ~Above(a, a)
           /\ Above(a, b) => ~Above(b, a)
           /\ ~Above(a, b) /\ ~Above(b, c) => ~Above(a, c)
    <2> SUFFICES ASSUME NEW a \in Int \X Positive, NEW b \in Int \X Positive,
                        NEW c \in Int \X Positive
                 PROVE  /\ ~Above(a, a)
                        /\ Above(a, b) => ~Above(b, a)
                        /\ ~Above(a, b) /\ ~Above(b, c) => ~Above(a, c)
      OBVIOUS
    <2>1. /\ a = <<a[1], a[2]>> /\ a[1] \in Int /\ a[2] \in Positive
          /\ b = <<b[1], b[2]>> /\ b[1] \in Int /\ b[2] \in Positive
          /\ c = <<c[1], c[2]>> /\ c[1] \in Int /\ c[2] \in Positive
      OBVIOUS
    <2>. QED
      BY <2>1, RatesAreOrdered
  <1>11. ~Above(r.most, most) /\ ~Above(dd, most)
    <2> HIDE DEF dd
    <2>. QED
      BY <1>4, <1>10
  <1>12. ASSUME NEW i \in 1..(n + 1), NEW j \in i..(n + 1) PROVE ~Above(Fall(i, j), most)
    <2>1. Fall(i, j) \in Int \X Positive
      BY <1>9
    <2>2. CASE j = n + 1
      <3>1. s[i] <= peak /\ s[i] \in Positive
        BY <1>1, <1>2, <1>7
      <3>2. ~Above(<<s[i] - x, s[i]>>, dd)
        <4> HIDE DEF peak, x
        <4>. QED
          BY <1>1, <3>1, HigherPeak
      <3>3. ~Above(Fall(i, j), dd)
        BY <2>2, <3>2
      <3> HIDE DEF dd, Fall, most
      <3>. QED
        BY <1>4, <1>5, <1>10, <1>11, <2>1, <3>3
    <2>3. CASE j # n + 1
      <3>1. i \in 1..n /\ j \in i..n
        BY <2>3
      <3>2. ~Above(Fall(i, j), r.most)
        BY <3>1 DEF Deepest
      <3> HIDE DEF Fall, most, dd
      <3>. QED
        BY <1>4, <1>5, <1>10, <1>11, <2>1, <3>2
    <2>. QED
      BY <2>2, <2>3
  <1>13. most = <<0, 1>> \/ \E i \in 1..(n + 1) : \E j \in i..(n + 1) : most = Fall(i, j)
    <2>1. CASE most = dd
      <3>1. PICK k \in 1..(n + 1) : peak = s[k]
        BY <1>7
      <3>2. n + 1 \in k..(n + 1) /\ dd = Fall(k, n + 1)
        BY <3>1
      <3>. QED
        BY <2>1, <3>2
    <2>2. CASE most = r.most
      <3>1. CASE r.most = <<0, 1>>
        BY <2>2, <3>1
      <3>2. CASE r.most # <<0, 1>>
        <4>1. PICK i \in 1..n : \E j \in i..n : r.most = Fall(i, j)
          BY <3>2 DEF Deepest
        <4>2. PICK j \in i..n : r.most = Fall(i, j)
          BY <4>1
        <4>3. i \in 1..(n + 1) /\ j \in i..(n + 1)
          OBVIOUS
        <4> HIDE DEF Fall, most
        <4>. QED
          BY <2>2, <4>2, <4>3
      <3>. QED
        BY <3>1, <3>2
    <2>. QED
      BY <2>1, <2>2
  <1>14. Deepest(s, n + 1, most)
    BY <1>12, <1>13 DEF Deepest
  <1>. QED
    BY <1>3, <1>6, <1>8, <1>14

\* _calc_mdd finds the deepest fall of any series of positive values.
LEMMA MddIsOfAFall ==
  ASSUME NEW N \in Nat, NEW s \in [1..N -> Positive], Len(s) = N
  PROVE  Mdd(s) \in Int \X Positive /\ Deepest(s, N, Mdd(s))
  <1> DEFINE zero == [peak |-> s[1], most |-> <<0, 1>>]
             Runs(r) == r = [i \in 1..Len(s) |->
                IF i = 1 THEN [peak |-> s[1], most |-> <<0, 1>>]
                ELSE LET peak == IF s[i] > r[i - 1].peak THEN s[i] ELSE r[i - 1].peak
                         dd == <<peak - s[i], peak>>
                     IN [peak |-> peak,
                         most |-> IF Above(dd, r[i - 1].most) THEN dd ELSE r[i - 1].most]]
             F == [x \in (1..N) \X Peaks |-> Deeper(x[2], s[x[1]])]
             run == CHOOSE r : Runs(r)
  <1>1. Mdd(s) = IF Len(s) < 2 THEN <<0, 1>> ELSE run[Len(s)].most
    BY DEF Mdd
  <1>2. CASE N < 2
    <2>1. Mdd(s) = <<0, 1>>
      <3> HIDE DEF run
      <3>. QED
        BY <1>1, <1>2
    <2>2. <<0, 1>> \in Int \X Positive
      BY DEF Positive
    <2>3. ASSUME NEW i \in 1..N, NEW j \in i..N PROVE ~Above(<<s[i] - s[j], s[i]>>, <<0, 1>>)
      <3>1. i = 1 /\ j = 1 /\ s[1] \in Positive
        BY <1>2
      <3>2. s[i] - s[j] = 0
        BY <3>1 DEF Positive
      <3>. QED
        BY <3>1, <3>2 DEF Above, Positive
    <2>. QED
      BY <2>1, <2>2, <2>3 DEF Deepest
  <1>3. CASE N >= 2
    <2>1. zero \in Peaks /\ 1 \in Int /\ N \in Int /\ 1 <= N
      BY <1>3 DEF Peaks, Positive
    <2>2. F \in [(1..N) \X Peaks -> Peaks]
      <3>1. ASSUME NEW r \in Peaks, NEW x \in Positive PROVE Deeper(r, x) \in Peaks
        <4> DEFINE peak == IF x > r.peak THEN x ELSE r.peak
                   dd == <<peak - x, peak>>
                   most == IF Above(dd, r.most) THEN dd ELSE r.most
        <4>1. peak \in Positive /\ r.most \in Int \X Positive
          BY DEF Peaks
        <4>2. dd \in Int \X Positive
          BY <4>1 DEF Positive
        <4>3. most \in Int \X Positive
          BY <4>1, <4>2
        <4>. QED
          BY <4>1, <4>3 DEF Deeper, Peaks
      <3>2. ASSUME NEW x \in (1..N) \X Peaks PROVE Deeper(x[2], s[x[1]]) \in Peaks
        <4>1. x[2] \in Peaks /\ s[x[1]] \in Positive
          OBVIOUS
        <4>. QED
          BY <3>1, <4>1
      <3>. QED
        BY <3>2
    <2>3. PICK r : Follows(r, 1, N, Peaks, zero, F)
      <3> HIDE DEF F, zero
      <3>. QED
        BY <2>1, <2>2, Recursion
    <2>4. Runs(r)
      <3>1. r \in [1..N -> Peaks] /\ r[1] = zero
        BY <2>3 DEF Follows
      <3>2. ASSUME NEW i \in 1..N, i # 1 PROVE r[i] = Deeper(r[i - 1], s[i])
        <4>1. i - 1 \in 1..N
          BY <3>2
        <4>2. r[i - 1] \in Peaks
          BY <3>1, <4>1
        <4>3. <<i, r[i - 1]>> \in (1..N) \X Peaks
          BY <4>2
        <4>4. F[<<i, r[i - 1]>>] = Deeper(r[i - 1], s[i])
          BY <4>3
        <4> HIDE DEF F
        <4>5. r[i] = F[<<i, r[i - 1]>>]
          BY <2>3, <3>2 DEF Follows
        <4>. QED
          BY <4>4, <4>5
      <3>3. r = [i \in 1..N |-> IF i = 1 THEN zero ELSE Deeper(r[i - 1], s[i])]
        BY <3>1, <3>2
      <3>. QED
        BY <3>3 DEF Deeper
    <2>5. Runs(run)
      <3> HIDE DEF Runs
      <3>. QED
        BY <2>4
    <2>6. run = [i \in 1..N |-> IF i = 1 THEN zero ELSE Deeper(run[i - 1], s[i])]
      <3> HIDE DEF run
      <3>. QED
        BY <2>5 DEF Deeper
    <2> HIDE DEF run, F, Runs
    <2> DEFINE G == {i \in 1..N : /\ run[i] \in Peaks /\ Highest(s, i, run[i].peak)
                                  /\ Deepest(s, i, run[i].most)}
    <2>7. 1 \in G
      <3>1. 1 \in 1..N /\ run[1] = zero /\ s[1] \in Positive
        BY <2>1, <2>6
      <3>2. \A i \in 1..1 : i = 1
        OBVIOUS
      <3>3. Highest(s, 1, s[1])
        BY <3>1, <3>2 DEF Highest, Positive
      <3>4. Deepest(s, 1, <<0, 1>>)
        <4>1. ASSUME NEW i \in 1..1, NEW j \in i..1 PROVE ~Above(<<s[i] - s[j], s[i]>>, <<0, 1>>)
          <5>1. i = 1 /\ j = 1
            OBVIOUS
          <5>2. s[1] - s[1] = 0 /\ 0 * 1 = 0 /\ 0 * s[1] = 0
            BY <3>1 DEF Positive
          <5>3. ~Above(<<s[1] - s[1], s[1]>>, <<0, 1>>)
            BY <5>2 DEF Above
          <5>. QED
            BY <5>1, <5>3
        <4>. QED
          BY <4>1 DEF Deepest
      <3>5. zero.peak = s[1] /\ zero.most = <<0, 1>> /\ zero \in Peaks
        BY <2>1
      <3> HIDE DEF zero
      <3>. QED
        BY <3>1, <3>3, <3>4, <3>5
    <2>8. ASSUME NEW n \in 1..N, n < N, n \in G PROVE n + 1 \in G
      <3>1. n + 1 \in 1..N /\ n + 1 # 1 /\ (n + 1) - 1 = n
        BY <2>8
      <3>2. run[n + 1] = Deeper(run[n], s[n + 1])
        BY <2>6, <3>1
      <3>3. run[n] \in Peaks /\ Highest(s, n, run[n].peak) /\ Deepest(s, n, run[n].most)
        BY <2>8
      <3>. QED
        BY <2>8, <3>1, <3>2, <3>3, DeeperIsDeepest
    <2>9. N \in G
      <3>1. \A n \in 1..N : n \in G
        <4> HIDE DEF G
        <4>. QED
          BY <2>1, <2>7, <2>8, RangeInduction
      <3>. QED
        BY <2>1, <3>1
    <2>10. Mdd(s) = run[N].most
      BY <1>1, <1>3
    <2>. QED
      BY <2>9, <2>10 DEF Peaks
  <1>. QED
    BY <1>2, <1>3

\* The series of f lists its values by date.
IsSeries(f, S, P) ==
    /\ Cardinality(S) \in Nat /\ Len(Series(f)) = Cardinality(S)
    /\ \A i \in 1..Cardinality(S) : Series(f)[i] = f[Sorted(S)[i]]
    /\ Series(f) \in [1..Cardinality(S) -> P] /\ Series(f) \in Seq(P)

\* So does Series.
LEMMA SeriesOf ==
  ASSUME NEW S, IsFiniteSet(S), S \subseteq Int, NEW P, NEW f \in [S -> P]
  PROVE  IsSeries(f, S, P)
  <1> DEFINE n == Cardinality(S)
             s == Sorted(S)
  <1>1. s \in [1..n -> S] /\ n \in Nat
    BY SortedInOrder
  <1>2. Series(f) = [i \in DOMAIN s |-> f[s[i]]]
    BY DEF Series
  <1> HIDE DEF s, n
  <1>3. Series(f) = [i \in 1..n |-> f[s[i]]]
    BY <1>1, <1>2
  <1>4. Len(Series(f)) = n
    BY <1>1, <1>3
  <1>5. \A i \in 1..n : f[s[i]] \in P
    BY <1>1
  <1>6. Series(f) \in [1..n -> P]
    BY <1>3, <1>5
  <1>7. Series(f) \in Seq(P)
    BY <1>1, <1>4, <1>6
  <1>. QED
    BY <1>1, <1>3, <1>4, <1>6, <1>7 DEF n, s, IsSeries

-----------------------------------------------------------------------------
(***************************************************************************)
(* The figures of the series, and the exchange gains.                      *)
(***************************************************************************)

\* What is known is a close, if the ticker has any.
LEMMA KnownIsAClose ==
  ASSUME RowsOK, NEW t \in Tickers, NEW from \in 1..today, NEW d \in Int
  PROVE  /\ Known(t, d, from) \in Nat
         /\ Closes(t, from) # {} => Known(t, d, from) \in Positive
  <1> DEFINE C == Closes(t, from)
             ds == {e \in C : e <= d}
  <1>1. from \in 1..LastDay /\ today \in Int
    BY AnalyticsAssumption DEF RowsOK, Days
  <1>2. /\ IsFiniteSet(C) /\ C \subseteq Int /\ \A e \in C : snap[t][e] \in Positive
        /\ IsFiniteSet(ds) /\ ds \subseteq C
    <2>1. /\ IsFiniteSet(C) /\ C \in SUBSET (from..today) /\ \A e \in C : snap[t][e] \in Positive
      BY <1>1, ClosesAreDays DEF Positive
    <2>2. C \subseteq Int
      BY <1>1, <2>1
    <2>3. IsFiniteSet(ds) /\ ds \subseteq C
      BY <2>1, FS_Subset
    <2>. QED
      BY <2>1, <2>2, <2>3
  <1>3. FirstClose(t, from) = IF C = {} THEN 0 ELSE snap[t][Min(C)]
    BY DEF FirstClose
  <1>4. Known(t, d, from) = IF ds # {} THEN snap[t][Max(ds)] ELSE FirstClose(t, from)
    BY DEF Known
  <1> HIDE DEF C
  <1>5. C # {} => Min(C) \in C
    BY <1>2, Extremes
  <1>6. ds # {} => Max(ds) \in C
    <2>1. ds \subseteq Int
      BY <1>2
    <2> HIDE DEF ds
    <2>. QED
      BY <1>2, <2>1, Extremes
  <1>7. ds # {} => C # {}
    OBVIOUS
  <1>8. 0 \in Nat /\ \A x \in Positive : x \in Nat
    BY DEF Positive
  <1> HIDE DEF ds
  <1>9. C # {} => Known(t, d, from) \in Positive
    BY <1>2, <1>3, <1>4, <1>5, <1>6
  <1>10. C = {} => Known(t, d, from) = 0
    BY <1>3, <1>4, <1>7
  <1>. QED
    BY <1>8, <1>9, <1>10 DEF C

\* The dates of a series are days up to today.
LEMMA DatesAreDays ==
  ASSUME RowsOK, NEW from \in 1..today
  PROVE  /\ Dates(from) \in SUBSET (from..today) /\ IsFiniteSet(Dates(from))
         /\ Dates(from) \subseteq Int /\ Dates(from) \subseteq Days
  <1>1. from \in Int /\ today \in Int /\ from..today \subseteq Days
    BY AnalyticsAssumption DEF RowsOK, Days
  <1>2. Dates(from) \in SUBSET (from..today)
    BY DEF Dates, Closes
  <1>3. IsFiniteSet(Dates(from))
    BY <1>1, <1>2, FS_Interval, FS_Subset
  <1>. QED
    BY <1>1, <1>2, <1>3

\* What is held is finite.
LEMMA HeldFinite == IsFiniteSet(Held) /\ Held \subseteq Tickers
  BY AnalyticsAssumption, FS_Subset DEF Held

\* A history is a sum of what is known, and positive.
LEMMA HistoryIs ==
  ASSUME RowsOK, NEW from \in 1..today, NEW d \in Dates(from)
  PROVE  /\ [t \in Held |-> Qty(t) * Known(t, d, from)] \in [Held -> Nat]
         /\ History(from)[d] = SumOf([t \in Held |-> Qty(t) * Known(t, d, from)], Held)
         /\ History(from)[d] \in Positive
  <1> DEFINE val == [t \in Held |-> Qty(t) * Known(t, d, from)]
  <1>1. d \in from..today /\ d \in Int
    BY DatesAreDays
  <1>2. \A t \in Held : t \in Tickers /\ Qty(t) \in Positive
    BY RowsAreHeld DEF Held, Positive
  <1>3. ASSUME NEW t \in Held
        PROVE  /\ Effective(t, d, from) = Known(t, d, from) /\ Known(t, d, from) \in Nat
               /\ Closes(t, from) # {} => Known(t, d, from) \in Positive
    BY <1>1, <1>2, EffectiveIsKnown, KnownIsAClose
  <1>4. ASSUME NEW a \in Nat, NEW b \in Nat
        PROVE  a * b \in Nat /\ (a \in Positive /\ b \in Positive => a * b \in Positive)
    BY DEF Positive
  <1>5. val \in [Held -> Nat] /\ val \in [Held -> Int] /\ \A t \in Held : val[t] \in Nat
          /\ val[t] >= 0
    <2>1. \A t \in Held : Qty(t) * Known(t, d, from) \in Nat
      BY <1>2, <1>3, <1>4 DEF Positive
    <2>2. val \in [Held -> Nat]
      BY <2>1
    <2> HIDE DEF val
    <2>. QED
      BY <2>2
  <1>6. History(from)[d] = SumFunction([t \in Held |-> Qty(t) * Effective(t, d, from)])
    BY DEF History, Total
  <1>7. [t \in Held |-> Qty(t) * Effective(t, d, from)] = val
    BY <1>3
  <1>8. History(from)[d] = SumOf(val, Held)
    <2> HIDE DEF val
    <2>. QED
      BY <1>5, <1>6, <1>7, TotalIs
  <1>9. PICK u \in Held : d \in Closes(u, from)
    BY DEF Dates
  <1>10. val[u] \in Positive
    <2>1. Qty(u) \in Positive /\ Known(u, d, from) \in Positive
      BY <1>2, <1>3, <1>9
    <2>. QED
      BY <1>4, <2>1 DEF Positive
  <1> HIDE DEF val
  <1>11. SumOf(val, Held) = val[u] + SumOf(val, Held \ {u})
    BY <1>5, HeldFinite, SumTakes
  <1>12. Held \ {u} \in SUBSET Held /\ IsFiniteSet(Held \ {u})
    BY HeldFinite, FS_Subset
  <1>13. SumOf(val, Held \ {u}) \in Int /\ SumOf(val, Held \ {u}) >= 0
    BY <1>5, <1>12, SumType, SumOfSigned
  <1>14. SumOf(val, Held) \in Positive
    BY <1>10, <1>11, <1>13 DEF Positive
  <1>. QED
    BY <1>5, <1>8, <1>14 DEF val

\* So is its series.
LEMMA HistorySeries ==
  ASSUME RowsOK, NEW from \in 1..today
  PROVE  /\ Series(History(from)) \in [1..Cardinality(Dates(from)) -> Positive]
         /\ Series(History(from)) \in Seq(Positive)
         /\ Len(Series(History(from))) = Cardinality(Dates(from))
              /\ Cardinality(Dates(from)) \in Nat
         /\ \A i \in 1..Cardinality(Dates(from)) :
               Series(History(from))[i] = History(from)[Sorted(Dates(from))[i]]
  <1>1. History(from) = [d \in Dates(from) |-> History(from)[d]]
    BY DEF History
  <1>2. \A d \in Dates(from) : History(from)[d] \in Positive
    BY HistoryIs
  <1>3. History(from) \in [Dates(from) -> Positive]
    BY <1>1, <1>2
  <1>4. IsFiniteSet(Dates(from)) /\ Dates(from) \subseteq Int
    BY DatesAreDays
  <1>5. IsSeries(History(from), Dates(from), Positive)
    BY <1>3, <1>4, SeriesOf
  <1>. QED
    BY <1>5 DEF IsSeries

\* The drawdown of a history is its deepest fall.
LEMMA DeepestAlways == RowsOK => MddIsDeepest
  <1> SUFFICES ASSUME RowsOK, NEW from \in 1..today
      PROVE LET s == Series(History(from))
            IN /\ \A i \in 1..Len(s) : \A j \in i..Len(s) : ~Above(<<s[i] - s[j], s[i]>>, Mdd(s))
               /\ Len(s) >= 2 => Mdd(s) = <<0, 1>> \/
                    \E i \in 1..Len(s) : \E j \in i..Len(s) : Mdd(s) = <<s[i] - s[j], s[i]>>
    BY DEF MddIsDeepest
  <1> DEFINE s == Series(History(from))
             N == Cardinality(Dates(from))
  <1>1. s \in [1..N -> Positive] /\ Len(s) = N /\ N \in Nat
    BY HistorySeries
  <1> HIDE DEF s, N
  <1>2. Deepest(s, N, Mdd(s))
    BY <1>1, MddIsOfAFall
  <1>. QED
    BY <1>1, <1>2 DEF Deepest, s

\* The rate of a purchase is the nearest day's, and the gains add up.
LEMMA GainsAddUp == RowsOK => FxGainAddsUp
  <1> SUFFICES ASSUME RowsOK, NEW t \in Tickers \ Domestic, NEW d \in Days
      PROVE LET dist(e) == IF e < d THEN d - e ELSE e - d
                near == {e \in fx : \A g \in fx : dist(e) <= dist(g)}
                cost == avg[t] * (IF fx = {} THEN Fallback ELSE RateOf[Min(near)])
            IN StockGain(t) + FxGain(t, d) = Worth(t) - cost
    BY DEF FxGainAddsUp
  <1> DEFINE dist(e) == IF e < d THEN d - e ELSE e - d
             near == {e \in fx : \A g \in fx : dist(e) <= dist(g)}
             before == {e \in fx : e < d}
             after == {e \in fx : e >= d}
             d0 == Max(before)
             d1 == Min(after)
             rate == IF fx = {} THEN Fallback ELSE RateOf[Min(near)]
  <1>1. IsFiniteSet(fx) /\ fx \subseteq Int /\ d \in Int /\ fx \subseteq Days
    <2>1. fx \subseteq Days /\ LastDay \in Int /\ Days = 1..LastDay
      BY AnalyticsAssumption DEF RowsOK, Days
    <2>2. IsFiniteSet(Days) /\ Days \subseteq Int
      BY <2>1, FS_Interval
    <2>3. IsFiniteSet(fx)
      BY <2>1, <2>2, FS_Subset
    <2>. QED
      BY <2>1, <2>2, <2>3
  <1>2. /\ before # {} => d0 \in fx /\ d0 < d /\ \A e \in fx : e < d => e <= d0
        /\ after # {} => d1 \in fx /\ d1 >= d /\ \A e \in fx : e >= d => d1 <= e
    <2>1. /\ IsFiniteSet(before) /\ before \subseteq Int
          /\ IsFiniteSet(after) /\ after \subseteq Int
      BY <1>1, FS_Subset
    <2>2. before # {} => Max(before) \in before /\ \A e \in before : e <= Max(before)
      <3> HIDE DEF before
      <3>. QED
        BY <2>1, Extremes
    <2>3. after # {} => Min(after) \in after /\ \A e \in after : Min(after) <= e
      <3> HIDE DEF after
      <3>. QED
        BY <2>1, Extremes
    <2>. QED
      BY <2>2, <2>3
  <1>3. ASSUME fx # {} PROVE before # {} \/ after # {}
    <2>1. PICK e \in fx : e \in Int /\ d \in Int
      BY <1>1, <1>3
    <2>2. e < d \/ e >= d
      BY <2>1
    <2>3. e \in before \/ e \in after
      BY <2>1, <2>2
    <2>. QED
      BY <2>3
  <1>4. ASSUME NEW x \in fx, \A e \in fx : dist(x) <= dist(e) /\ (dist(x) = dist(e) => x <= e)
        PROVE  Min(near) = x
    <2>1. x \in near /\ \A e \in near : x <= e
      <3>1. x \in near
        BY <1>4
      <3>2. ASSUME NEW e \in near PROVE x <= e
        <4>1. dist(x) \in Int /\ dist(e) \in Int /\ e \in fx
          BY <1>1
        <4>2. dist(e) <= dist(x) /\ dist(x) <= dist(e)
          BY <1>4
        <4>. QED
          BY <1>4, <4>1, <4>2
      <3>. QED
        BY <3>1, <3>2
    <2>2. IsFiniteSet(near) /\ near \subseteq Int
      BY <1>1, FS_Subset
    <2> HIDE DEF near
    <2>3. Min(near) \in near /\ Min(near) <= x
      BY <2>1, <2>2, Extremes
    <2>4. x <= Min(near) /\ x \in Int /\ Min(near) \in Int
      BY <2>1, <2>2, <2>3
    <2>. QED
      BY <2>3, <2>4
  <1>5. Nearest(d) = rate
    <2>1. Nearest(d) = IF before = {}
                       THEN IF after = {} THEN Fallback ELSE RateOf[d1]
                       ELSE IF after = {} \/ d - d0 <= d1 - d THEN RateOf[d0] ELSE RateOf[d1]
      BY DEF Nearest
    <2>2. CASE fx = {}
      BY <2>1, <2>2
    <2>3. CASE before # {} /\ (after = {} \/ d - d0 <= d1 - d)
      <3>1. ASSUME NEW e \in fx PROVE dist(d0) <= dist(e) /\ (dist(d0) = dist(e) => d0 <= e)
        <4> HIDE DEF d0, d1
        <4>1. d0 \in Int /\ e \in Int /\ d \in Int /\ d0 < d
          BY <1>1, <1>2, <2>3
        <4>2. CASE e < d
          <5>1. e <= d0
            BY <1>2, <2>3, <4>2
          <5>. QED
            BY <4>1, <4>2, <5>1
        <4>3. CASE ~(e < d)
          <5>1. e \in after /\ after # {}
            BY <4>1, <4>3
          <5>2. d1 <= e /\ d1 \in Int /\ d - d0 <= d1 - d
            BY <1>1, <1>2, <2>3, <4>1, <4>3, <5>1
          <5>. QED
            BY <4>1, <4>3, <5>2
        <4>. QED
          BY <4>2, <4>3
      <3>2. d0 \in fx
        BY <1>2, <2>3
      <3>3. Min(near) = d0
        <4> HIDE DEF d0, near
        <4>. QED
          BY <1>4, <3>1, <3>2
      <3>. QED
        BY <2>1, <2>3, <3>2, <3>3
    <2>4. CASE after # {} /\ (before = {} \/ ~(d - d0 <= d1 - d))
      <3>1. ASSUME NEW e \in fx PROVE dist(d1) <= dist(e) /\ (dist(d1) = dist(e) => d1 <= e)
        <4> HIDE DEF d0, d1
        <4>1. d1 \in Int /\ e \in Int /\ d \in Int /\ d1 >= d
          BY <1>1, <1>2, <2>4
        <4>2. CASE e < d
          <5>1. e \in before /\ before # {}
            BY <4>1, <4>2
          <5>2. e <= d0 /\ d0 \in Int /\ ~(d - d0 <= d1 - d)
            BY <1>1, <1>2, <2>4, <4>1, <4>2, <5>1
          <5>. QED
            BY <4>1, <4>2, <5>2
        <4>3. CASE ~(e < d)
          <5>1. d1 <= e
            BY <1>2, <2>4, <4>1, <4>3
          <5>. QED
            BY <4>1, <4>3, <5>1
        <4>. QED
          BY <4>2, <4>3
      <3>2. d1 \in fx
        BY <1>2, <2>4
      <3>3. Min(near) = d1
        <4> HIDE DEF d1, near
        <4>. QED
          BY <1>4, <3>1, <3>2
      <3>. QED
        BY <2>1, <2>4, <3>2, <3>3
    <2>. QED
      BY <1>3, <2>2, <2>3, <2>4
  <1>6. rate \in Nat
    <2>1. near # {} => Min(near) \in fx
      <3>1. IsFiniteSet(near) /\ near \subseteq Int /\ near \subseteq fx
        BY <1>1, FS_Subset
      <3> HIDE DEF near
      <3>. QED
        BY <3>1, Extremes
    <2>2. fx # {} => Nearest(d) \in Nat
      <3>1. \A e \in fx : RateOf[e] \in Nat
        BY <1>1, AnalyticsAssumption
      <3>. QED
        BY <1>2, <3>1, AnalyticsAssumption DEF Nearest
    <2>. QED
      BY <1>5, <2>2, AnalyticsAssumption
  <1> HIDE DEF rate
  <1>7. /\ Price(t) \in Nat /\ avg[t] \in Nat /\ Fallback \in Nat
        /\ Rate(t) = Fallback
    BY Amounts, AnalyticsAssumption DEF Rate
  <1>8. ASSUME NEW p \in Nat, NEW a \in Nat, NEW f \in Nat, NEW r \in Nat
        PROVE  (p - a) * f + (a * f - a * r) = p * f - a * r
    OBVIOUS
  <1>9. StockGain(t) + FxGain(t, d) = Worth(t) - avg[t] * rate
    <2>1. FxGain(t, d) = avg[t] * Fallback - avg[t] * rate
      BY <1>5 DEF FxGain
    <2>2. CASE Price(t) # 0
      BY <1>6, <1>7, <1>8, <2>1, <2>2 DEF StockGain, Worth
    <2>3. CASE Price(t) = 0
      <3>1. StockGain(t) = (avg[t] - avg[t]) * Fallback /\ Worth(t) = avg[t] * Fallback
        BY <1>7, <2>3 DEF StockGain, Worth, Cost
      <3>. QED
        BY <1>6, <1>7, <1>8, <2>1, <3>1
    <2>. QED
      BY <2>2, <2>3
  <1>. QED
    BY <1>9 DEF rate

-----------------------------------------------------------------------------
(***************************************************************************)
(* The moving average.                                                     *)
(***************************************************************************)

\* A sum over an index set is that over what is indexed.
LEMMA SumReindexed ==
  ASSUME NEW A, IsFiniteSet(A), NEW B, NEW h \in Bijection(A, B),
         NEW f \in [B -> Int], NEW g \in [A -> Int], \A a \in A : g[a] = f[h[a]]
  PROVE  SumOf(g, A) = SumOf(f, B)
  <1>1. /\ h \in [A -> B] /\ h \in Surjection(A, B)
        /\ \A a, b \in A : h[a] = h[b] => a = b
        /\ \A b \in B : \E a \in A : h[a] = b
    BY DEF Bijection, Injection, Surjection, IsInjective
  <1>2. IsFiniteSet(B)
    BY <1>1, FS_Surjection
  <1>3. ASSUME NEW b \in B PROVE f[b] = SumOf(g, {x \in A : h[x] = b})
    <2>1. PICK a \in A : h[a] = b
      BY <1>1
    <2>2. {x \in A : h[x] = b} = {a}
      BY <1>1, <2>1
    <2>3. IsFiniteSet({a}) /\ {a} \in SUBSET A /\ IsFiniteSet({}) /\ {} \in SUBSET A
      BY FS_Singleton, FS_EmptySet
    <2>4. SumOf(g, {a}) = g[a] + SumOf(g, {a} \ {a})
      BY <2>3, SumTakes
    <2>5. SumOf(g, {}) = 0
      BY <2>3, SumOfSigned
    <2>6. {a} \ {a} = {} /\ g[a] \in Int
      OBVIOUS
    <2>7. SumOf(g, {a}) = g[a]
      <3>1. SumOf(g, {a} \ {a}) = 0
        BY <2>5, <2>6
      <3>. QED
        BY <2>4, <2>6, <3>1
    <2>. QED
      BY <2>1, <2>2, <2>7
  <1>. QED
    BY <1>1, <1>2, <1>3, SumOfGroups

\* The days of S from e to d.
Since(S, e, d) == {g \in UpTo(S, d) : g >= e}

\* How many there are.
LEMMA CountSince ==
  ASSUME NEW S, IsFiniteSet(S), S \subseteq Int, NEW d \in S, NEW e \in UpTo(S, d)
  PROVE  /\ Cardinality(Since(S, e, d)) = Cardinality(UpTo(S, d)) - Cardinality(UpTo(S, e)) + 1
         /\ IsFiniteSet(Since(S, e, d))
  <1> DEFINE below == UpTo(S, e) \ {e}
  <1>1. e \in S /\ e <= d /\ e \in Int /\ d \in Int /\ \A x \in S : x \in Int
    BY DEF UpTo
  <1>2. /\ IsFiniteSet(UpTo(S, e)) /\ e \in UpTo(S, e) /\ IsFiniteSet(UpTo(S, d))
    BY <1>1, FS_Subset DEF UpTo
  <1>3. Cardinality(below) = Cardinality(UpTo(S, e)) - 1 /\ IsFiniteSet(below)
    BY <1>2, FS_RemoveElement
  <1>4. \A x \in S : (x <= e /\ x # e => x <= d) /\ (x >= e <=> ~(x <= e /\ x # e))
    BY <1>1
  <1>5. Since(S, e, d) = UpTo(S, d) \ below /\ UpTo(S, d) \cap below = below
    BY <1>1, <1>4 DEF Since, UpTo
  <1>6. Cardinality(UpTo(S, d) \ below) = Cardinality(UpTo(S, d)) - Cardinality(UpTo(S, d) \cap below)
    BY <1>2, FS_Difference
  <1>7. IsFiniteSet(Since(S, e, d))
    BY <1>2, FS_Subset DEF Since
  <1>8. Cardinality(UpTo(S, d)) \in Nat /\ Cardinality(UpTo(S, e)) \in Nat
    BY <1>2, FS_CardinalityType
  <1> HIDE DEF below
  <1>. QED
    BY <1>3, <1>5, <1>6, <1>7, <1>8

\* The last n days of S up to d.
Latest(S, d, n) == {e \in UpTo(S, d) : Cardinality(Since(S, e, d)) <= n}

\* They are the last n of the sorted days up to the i-th.
LEMMA LatestAreLast ==
  ASSUME NEW S, IsFiniteSet(S), S \subseteq Int, NEW n \in Positive,
         NEW i \in 1..Cardinality(S), i >= n
  PROVE  LET d == Sorted(S)[i]
         IN  [j \in (i - n + 1)..i |-> Sorted(S)[j]] \in Bijection((i - n + 1)..i, Latest(S, d, n))
  <1> DEFINE N == Cardinality(S)
             s == Sorted(S)
             d == s[i]
             A == (i - n + 1)..i
             h == [j \in A |-> s[j]]
             rank(e) == Cardinality(UpTo(S, e))
  <1>1. /\ s \in [1..N -> S] /\ N \in Nat
        /\ \A k \in 1..N : rank(s[k]) = k
        /\ \A k, j \in 1..N : k < j <=> s[k] < s[j]
        /\ \A e \in S : rank(e) \in 1..N /\ s[rank(e)] = e
    BY SortedInOrder
  <1> HIDE DEF s, rank, N
  <1>2. i \in 1..N /\ i \in Int /\ n \in Int /\ n >= 1
    BY <1>1 DEF N, Positive
  <1>3. A \subseteq 1..N /\ d \in S /\ rank(d) = i
    BY <1>1, <1>2
  <1>4. ASSUME NEW e \in UpTo(S, d) PROVE Cardinality(Since(S, e, d)) = i - rank(e) + 1
    BY <1>3, <1>4, CountSince DEF rank
  <1>5. \A e \in S : e \in Int
    OBVIOUS
  <1>6. ASSUME NEW j \in A PROVE s[j] \in Latest(S, d, n)
    <2>1. j \in 1..N /\ j <= i /\ j >= i - n + 1 /\ rank(s[j]) = j /\ s[j] \in S /\ j \in Int
      BY <1>1, <1>2, <1>3
    <2>2. ~(s[i] < s[j])
      BY <1>1, <1>2, <2>1
    <2>3. s[j] \in UpTo(S, d)
      <3>1. s[j] \in Int /\ s[i] \in Int
        BY <1>3, <1>5, <2>1
      <3>2. s[j] <= s[i]
        BY <2>2, <3>1
      <3>. QED
        BY <2>1, <3>2 DEF UpTo
    <2>4. Cardinality(Since(S, s[j], d)) = i - j + 1
      BY <1>4, <2>1, <2>3
    <2>. QED
      BY <1>2, <2>1, <2>3, <2>4 DEF Latest
  <1>7. ASSUME NEW e \in Latest(S, d, n) PROVE \E j \in A : s[j] = e
    <2>1. e \in UpTo(S, d) /\ Cardinality(Since(S, e, d)) <= n /\ e \in S /\ e <= d
      BY DEF Latest, UpTo
    <2>2. rank(e) \in 1..N /\ s[rank(e)] = e
      BY <1>1, <2>1
    <2>3. i - rank(e) + 1 <= n
      BY <1>4, <2>1
    <2>4. ~(i < rank(e))
      <3>0. d \in Int /\ e \in Int
        BY <1>3, <1>5, <2>1
      <3>1. ~(d < e)
        <4> HIDE DEF d
        <4>. QED
          BY <2>1, <3>0
      <3>. QED
        BY <1>1, <1>2, <2>2, <3>1
    <2>5. rank(e) \in A
      BY <1>1, <1>2, <2>2, <2>3, <2>4
    <2>. QED
      BY <2>2, <2>5
  <1>8. ASSUME NEW j \in A, NEW k \in A, s[j] = s[k] PROVE j = k
    BY <1>1, <1>3, <1>8
  <1>9. h \in Bijection(A, Latest(S, d, n))
    <2> HIDE DEF A, d
    <2>1. h \in [A -> Latest(S, d, n)]
      BY <1>6
    <2>. QED
      BY <1>7, <1>8, <2>1 DEF Bijection, Injection, Surjection, IsInjective
  <1>. QED
    BY <1>9 DEF s

\* Days before lo change neither what the last n are nor whether there are n.
Suffices(C, L, lo, d, n) ==
    /\ Cardinality(UpTo(L, d)) >= n => /\ Latest(C, d, n) = Latest(L, d, n)
                                       /\ Cardinality(UpTo(C, d)) >= n
    /\ Cardinality(UpTo(C, d)) >= n /\ (\A e \in Latest(C, d, n) : e >= lo)
          => Cardinality(UpTo(L, d)) >= n

\* The latest of the days from lo on are the latest of all, if there are enough.
LEMMA LookbackSuffices ==
  ASSUME NEW C, IsFiniteSet(C), C \subseteq Int, NEW lo \in Int, NEW n \in Positive,
         NEW d \in C, d >= lo, NEW L, L = {e \in C : e >= lo}
  PROVE  Suffices(C, L, lo, d, n)
  <1> DEFINE rank(S) == Cardinality(UpTo(S, d))
  <1>1. /\ IsFiniteSet(L) /\ L \subseteq C /\ L \subseteq Int /\ d \in L
        /\ \A e \in C : e \in Int
    BY FS_Subset
  <1>2. /\ UpTo(L, d) \subseteq UpTo(C, d) /\ UpTo(C, d) \subseteq C
        /\ IsFiniteSet(UpTo(L, d)) /\ IsFiniteSet(UpTo(C, d))
    <2>1. UpTo(L, d) \subseteq UpTo(C, d) /\ UpTo(C, d) \subseteq C
      BY DEF UpTo
    <2>2. IsFiniteSet(UpTo(C, d))
      BY <2>1, FS_Subset
    <2>. QED
      BY <2>1, <2>2, FS_Subset
  <1>3. rank(L) \in Nat /\ rank(C) \in Nat /\ rank(L) <= rank(C) /\ n \in Int
    BY <1>2, FS_CardinalityType, FS_Subset DEF Positive
  <1>4. ASSUME NEW e \in UpTo(L, d) PROVE Since(L, e, d) = Since(C, e, d)
    <2>1. e \in Int /\ e >= lo
      BY DEF UpTo
    <2>2. \A g \in C : g >= e => g >= lo
      BY <1>1, <2>1
    <2>. QED
      BY <2>2 DEF Since, UpTo
  <1>5. ASSUME NEW e \in UpTo(C, d), e \notin L, rank(L) >= n
        PROVE  ~(Cardinality(Since(C, e, d)) <= n)
    <2>1. e \in C /\ e \in Int /\ e < lo
      BY <1>1, <1>5 DEF UpTo
    <2>2. e \in Since(C, e, d) /\ UpTo(L, d) \subseteq Since(C, e, d) /\ e \notin UpTo(L, d)
      <3>1. \A g \in L : g >= e
        BY <1>1, <2>1
      <3>2. e >= e
        BY <2>1
      <3>. QED
        BY <1>2, <1>5, <3>1, <3>2 DEF Since, UpTo
    <2>3. IsFiniteSet(Since(C, e, d))
      BY <1>2, FS_Subset DEF Since
    <2>4. /\ IsFiniteSet(UpTo(L, d) \cup {e})
          /\ Cardinality(UpTo(L, d) \cup {e}) = rank(L) + 1
      BY <1>2, <2>2, FS_AddElement
    <2>5. UpTo(L, d) \cup {e} \subseteq Since(C, e, d)
      BY <2>2
    <2>6. rank(L) + 1 <= Cardinality(Since(C, e, d)) /\ Cardinality(Since(C, e, d)) \in Nat
      BY <2>3, <2>4, <2>5, FS_Subset, FS_CardinalityType
    <2> HIDE DEF rank
    <2>. QED
      BY <1>3, <1>5, <2>6
  <1>6. ASSUME rank(L) >= n PROVE Latest(C, d, n) = Latest(L, d, n) /\ rank(C) >= n
    <2>1. \A e \in UpTo(C, d) : e \in L <=> e \in UpTo(L, d)
      BY DEF UpTo
    <2>2. ASSUME NEW e \in Latest(C, d, n) PROVE e \in Latest(L, d, n)
      <3>1. e \in UpTo(C, d) /\ Cardinality(Since(C, e, d)) <= n
        BY DEF Latest
      <3>2. e \in UpTo(L, d)
        BY <1>5, <1>6, <2>1, <3>1
      <3>. QED
        BY <1>4, <3>1, <3>2 DEF Latest
    <2>3. ASSUME NEW e \in Latest(L, d, n) PROVE e \in Latest(C, d, n)
      BY <1>2, <1>4 DEF Latest
    <2> HIDE DEF rank
    <2>4. rank(C) >= n
      BY <1>3, <1>6
    <2>. QED
      BY <2>2, <2>3, <2>4
  <1>7. ASSUME rank(C) >= n, \A e \in Latest(C, d, n) : e >= lo PROVE rank(L) >= n
    <2> DEFINE s == Sorted(C)
               N == Cardinality(C)
               r == rank(C)
               k == r - n + 1
               e == s[k]
    <2>1. /\ s \in [1..N -> C] /\ N \in Nat /\ r \in 1..N /\ s[r] = d
          /\ \A i \in 1..N : Cardinality(UpTo(C, s[i])) = i
          /\ \A i, j \in 1..N : i < j <=> s[i] < s[j]
      BY SortedInOrder
    <2>2. r >= n /\ n >= 1
      BY <1>7 DEF Positive
    <2> HIDE DEF s, N, r
    <2>3. k \in 1..N /\ k <= r /\ k \in Int /\ r \in Int
      BY <1>3, <2>1, <2>2
    <2>4. e \in C /\ Cardinality(UpTo(C, e)) = k
      BY <2>1, <2>3
    <2>5. e \in UpTo(C, d)
      <3>1. ~(s[r] < s[k])
        BY <2>1, <2>3
      <3>2. s[r] \in Int /\ s[k] \in Int
        BY <1>1, <2>1, <2>4
      <3>. QED
        BY <2>1, <2>4, <3>1, <3>2 DEF UpTo
    <2>6. Cardinality(Since(C, e, d)) = r - k + 1 /\ IsFiniteSet(Since(C, e, d))
      <3> HIDE DEF e, k
      <3>. QED
        BY <2>4, <2>5, CountSince DEF r
    <2>7. Cardinality(Since(C, e, d)) = n
      BY <1>3, <2>3, <2>6
    <2>8. e \in Latest(C, d, n)
      <3> HIDE DEF e
      <3>. QED
        BY <1>3, <2>5, <2>7 DEF Latest
    <2>9. e >= lo /\ e \in Int
      BY <1>1, <1>7, <2>4, <2>8
    <2>10. Since(C, e, d) \subseteq UpTo(L, d)
      <3> HIDE DEF e
      <3>1. \A g \in C : g >= e => g >= lo
        BY <1>1, <2>9
      <3>. QED
        BY <3>1 DEF Since, UpTo
    <2>11. n <= rank(L)
      <3> HIDE DEF e
      <3>. QED
        BY <1>2, <2>7, <2>10, FS_Subset
    <2>. QED
      BY <1>3, <2>11
  <1>. QED
    BY <1>6, <1>7 DEF Suffices

\* The moving average of each date is that of its last closes.
LEMMA SmaIsOfLatest == RowsOK => SmaOfLatest
  <1> SUFFICES ASSUME RowsOK, NEW t \in Tickers, NEW from \in Days
      PROVE LET upTo(d) == {e \in Closes(t, 1) : e <= d}
                latest(d) == {e \in upTo(d) : Cardinality({g \in upTo(d) : g >= e}) <= Period}
                dates == {d \in Closes(t, from) : Cardinality(upTo(d)) >= Period}
            IN (\A d \in dates : \A e \in latest(d) : e >= from - Period * 2) =>
                  Sma(t, from) = {<<d, Total(LAMBDA e : snap[t][e], latest(d))>> : d \in dates}
    BY DEF SmaOfLatest
  <1> DEFINE C == Closes(t, 1)
             lo == IF from > Period * 2 THEN from - Period * 2 ELSE 1
             L == {e \in C : e >= lo}
             dates == {d \in Closes(t, from) : Cardinality(UpTo(C, d)) >= Period}
             rows == Sorted(L)
             ends == {i \in Period..Len(rows) : rows[i] >= from}
             N == Cardinality(L)
             Window(i) == Total(LAMBDA j : snap[t][rows[j]], (i - Period + 1)..i)
             Sum(d) == Total(LAMBDA e : snap[t][e], Latest(C, d, Period))
  <1>1. /\ from \in Int /\ from >= 1 /\ from <= LastDay /\ LastDay \in Int /\ today \in Int
        /\ Period \in Positive /\ Period \in Int /\ Period * 2 \in Int /\ Period >= 1
        /\ from \in 1..LastDay /\ 1 \in 1..LastDay
    BY AnalyticsAssumption DEF RowsOK, Days, Positive
  <1>2. /\ lo \in Int /\ lo >= 1 /\ lo <= from
        /\ \A e \in Int : e >= 1 /\ e >= from - Period * 2 => e >= lo
    BY <1>1
  <1>3. /\ IsFiniteSet(C) /\ C \subseteq Int /\ C \subseteq 1..today
        /\ \A d \in C : snap[t][d] \in Nat /\ d \in Int /\ d >= 1
    BY <1>1, ClosesAreDays
  <1>4. \A d : d \in Closes(t, from) <=> d \in C /\ d >= from
    <2>1. \A d : d \in from..today <=> d \in 1..today /\ d >= from
      BY <1>1
    <2>. QED
      BY <2>1 DEF Closes
  <1>5. Closes(t, lo) = L
    <2>1. \A d : d \in lo..today <=> d \in 1..today /\ d >= lo
      BY <1>1, <1>2
    <2> HIDE DEF lo
    <2>. QED
      BY <2>1 DEF Closes
  <1>6. SmaRows(t, from) = rows
    BY <1>5 DEF SmaRows
  <1>7. Sma(t, from) = {<<rows[i], Window(i)>> : i \in ends}
    BY <1>6 DEF Sma
  <1>8. IsFiniteSet(L) /\ L \subseteq C /\ L \subseteq Int
    BY <1>3, FS_Subset
  <1>9. /\ rows \in [1..N -> L] /\ N \in Nat
        /\ \A i \in 1..N : Cardinality(UpTo(L, rows[i])) = i
        /\ \A d \in L : Cardinality(UpTo(L, d)) \in 1..N /\ rows[Cardinality(UpTo(L, d))] = d
    <2> HIDE DEF L
    <2>. QED
      BY <1>8, SortedInOrder
  <1>10. Len(rows) = N
    <2> HIDE DEF rows, N
    <2>. QED
      BY <1>9
  <1>11. ASSUME NEW d \in C, d >= lo
         PROVE /\ Cardinality(UpTo(L, d)) >= Period =>
                  /\ Latest(C, d, Period) = Latest(L, d, Period)
                  /\ Cardinality(UpTo(C, d)) >= Period
               /\ Cardinality(UpTo(C, d)) >= Period /\ (\A e \in Latest(C, d, Period) : e >= lo)
                    => Cardinality(UpTo(L, d)) >= Period
    <2>1. L = {e \in C : e >= lo}
      OBVIOUS
    <2> HIDE DEF C, lo, L
    <2>. QED
      <3>1. Suffices(C, L, lo, d, Period)
        BY <1>1, <1>2, <1>3, <1>11, <2>1, LookbackSuffices
      <3>. QED
        BY <3>1 DEF Suffices
  <1>12. ASSUME NEW i \in ends
         PROVE  /\ rows[i] \in dates /\ Window(i) = Sum(rows[i])
    <2> DEFINE d == rows[i]
               A == (i - Period + 1)..i
               h == [j \in A |-> rows[j]]
               g == [j \in A |-> snap[t][rows[j]]]
               B == Latest(L, d, Period)
               f == [e \in B |-> snap[t][e]]
    <2>1. i \in 1..N /\ i >= Period /\ d >= from /\ i \in Int
      <3> HIDE DEF rows, N
      <3>. QED
        BY <1>1, <1>9, <1>10
    <2>2. d \in L /\ d \in C /\ d >= lo /\ Cardinality(UpTo(L, d)) = i
      <3> HIDE DEF rows, N, L
      <3>1. d \in L /\ Cardinality(UpTo(L, d)) = i
        BY <1>9, <2>1
      <3>. QED
        BY <1>8, <3>1 DEF L
    <2>3. Latest(C, d, Period) = B /\ Cardinality(UpTo(C, d)) >= Period
      <3> HIDE DEF C, L, d, lo
      <3>. QED
        BY <1>11, <2>1, <2>2
    <2>4. d \in dates
      <3> HIDE DEF d, C
      <3>. QED
        BY <1>4, <2>1, <2>2, <2>3
    <2>5. h \in Bijection(A, B)
      <3> HIDE DEF L
      <3>. QED
        BY <1>1, <1>8, <2>1, LatestAreLast
    <2>6. B \subseteq C
      <3> HIDE DEF C
      <3>. QED
        BY <1>8 DEF Latest, UpTo
    <2>7. f \in [B -> Int]
      <3> HIDE DEF B, C
      <3>. QED
        BY <1>3, <2>6
    <2>8. \A j \in A : h[j] \in B /\ h[j] = rows[j] /\ g[j] = f[h[j]]
      <3>1. h \in [A -> B]
        <4> HIDE DEF h, A, B
        <4>. QED
          BY <2>5 DEF Bijection, Injection
      <3>2. \A j \in A : h[j] \in B
        <4> HIDE DEF h, A, B
        <4>. QED
          BY <3>1
      <3>3. \A j \in A : h[j] = rows[j] /\ g[j] = snap[t][rows[j]]
        OBVIOUS
      <3> HIDE DEF B, h, g, A, rows
      <3>. QED
        BY <3>2, <3>3
    <2>9. g \in [A -> Int]
      <3>1. g = [j \in A |-> g[j]] /\ \A e \in B : f[e] \in Int
        <4> HIDE DEF f, B
        <4>. QED
          BY <2>7
      <3> HIDE DEF f, g, A, B, h
      <3>. QED
        BY <2>8, <3>1
    <2>10. Window(i) = SumFunction(g) /\ Sum(d) = SumFunction(f)
      <3>1. Window(i) = SumFunction(g)
        BY DEF Total
      <3>2. Sum(d) = SumFunction([e \in Latest(C, d, Period) |-> snap[t][e]])
        BY DEF Total
      <3>. QED
        BY <2>3, <3>1, <3>2
    <2>11. IsFiniteSet(A)
      BY <1>1, <2>1, FS_Interval
    <2> HIDE DEF A, B, h, g, f
    <2>12. SumOf(g, A) = SumOf(f, B)
      <3>1. \A j \in A : g[j] = f[h[j]]
        BY <2>8
      <3>. QED
        BY <2>5, <2>7, <2>9, <2>11, <3>1, SumReindexed
    <2>. QED
      BY <2>4, <2>7, <2>9, <2>10, <2>12, TotalIs
  <1>13. ASSUME \A d \in dates : \A e \in Latest(C, d, Period) : e >= from - Period * 2,
                NEW d \in dates
         PROVE  \E i \in ends : rows[i] = d
    <2>1. d \in C /\ d >= from /\ Cardinality(UpTo(C, d)) >= Period /\ d \in Int
      BY <1>3, <1>4
    <2>2. d >= lo /\ d \in L
      <3> HIDE DEF lo, C
      <3>. QED
        BY <1>1, <1>2, <2>1
    <2>3. \A e \in Latest(C, d, Period) : e \in C
      BY DEF Latest, UpTo
    <2>4. \A e \in Latest(C, d, Period) : e >= lo
      <3> HIDE DEF lo, C
      <3>. QED
        BY <1>2, <1>3, <1>13, <2>3
    <2>5. Cardinality(UpTo(L, d)) >= Period
      <3> HIDE DEF lo, C, L
      <3>. QED
        BY <1>11, <2>1, <2>2, <2>4
    <2> DEFINE i == Cardinality(UpTo(L, d))
    <2>6. i \in 1..N /\ rows[i] = d
      <3> HIDE DEF rows, N, L
      <3>. QED
        BY <1>9, <2>2
    <2>7. i \in ends
      <3> HIDE DEF i, rows, N
      <3>1. i \in Period..Len(rows)
        BY <1>1, <1>9, <1>10, <2>5, <2>6 DEF i
      <3>. QED
        BY <2>1, <2>6, <3>1
    <2>. QED
      BY <2>6, <2>7
  <1>14. ASSUME \A d \in dates : \A e \in Latest(C, d, Period) : e >= from - Period * 2
         PROVE  Sma(t, from) = {<<d, Sum(d)>> : d \in dates}
    <2>1. \A d \in dates : \E i \in ends : rows[i] = d
      BY <1>13, <1>14
    <2> HIDE DEF rows, ends, dates, Sum, Window
    <2>. QED
      BY <1>7, <1>12, <2>1
  <1>. QED
    BY <1>14 DEF UpTo, Latest, Since

-----------------------------------------------------------------------------
(***************************************************************************)
(* A missing row makes no loss.                                            *)
(***************************************************************************)

\* When no close falls, what is known does not.
LEMMA KnownGrows ==
  ASSUME RowsOK, NEW t \in Tickers, NEW from \in 1..today, NeverFell(t, from),
         NEW d \in Int, NEW e \in Int, d <= e
  PROVE  Known(t, d, from) <= Known(t, e, from)
  <1> DEFINE C == Closes(t, from)
             Up(x) == {y \in C : y <= x}
             Pt(x) == IF Up(x) # {} THEN Max(Up(x)) ELSE Min(C)
  <1>1. from \in 1..LastDay /\ today \in Int
    BY AnalyticsAssumption DEF RowsOK, Days
  <1>2. /\ IsFiniteSet(C) /\ C \subseteq Int /\ \A x \in C : snap[t][x] \in Int /\ x \in Int
        /\ \A x \in Int : IsFiniteSet(Up(x)) /\ Up(x) \subseteq C
    <2>1. /\ IsFiniteSet(C) /\ C \in SUBSET (from..today) /\ \A x \in C : snap[t][x] \in Int
      BY <1>1, ClosesAreDays
    <2>2. C \subseteq Int
      BY <1>1, <2>1
    <2>3. \A x \in Int : IsFiniteSet(Up(x)) /\ Up(x) \subseteq C
      BY <2>1, FS_Subset
    <2>. QED
      BY <2>1, <2>2, <2>3
  <1>3. CASE C = {}
    <2>1. Known(t, d, from) = 0 /\ Known(t, e, from) = 0
      BY <1>3 DEF Known, FirstClose
    <2>. QED
      BY <2>1
  <1>4. CASE C # {}
    <2>1. ASSUME NEW x \in Int
          PROVE  /\ Pt(x) \in C /\ Known(t, x, from) = snap[t][Pt(x)]
                 /\ \A y \in Up(x) : Up(x) # {} /\ y <= Pt(x)
                 /\ Up(x) # {} => Pt(x) \in Up(x)
                 /\ Up(x) = {} => \A y \in C : Pt(x) <= y
      <3>1. Known(t, x, from) = IF Up(x) # {} THEN snap[t][Max(Up(x))] ELSE snap[t][Min(C)]
        BY <1>4 DEF Known, FirstClose
      <3>2. IsFiniteSet(Up(x)) /\ Up(x) \subseteq Int /\ Up(x) \subseteq C
        BY <1>2
      <3> HIDE DEF C, Up
      <3>3. Min(C) \in C /\ \A y \in C : Min(C) <= y
        BY <1>2, <1>4, Extremes
      <3>4. Up(x) # {} => Max(Up(x)) \in Up(x) /\ \A y \in Up(x) : y <= Max(Up(x))
        BY <3>2, Extremes
      <3>. QED
        BY <3>1, <3>2, <3>3, <3>4
    <2>2. Up(d) \subseteq Up(e)
      BY <1>2
    <2> HIDE DEF Pt
    <2>3. Pt(d) <= Pt(e)
      <3>1. CASE Up(d) # {}
        <4> HIDE DEF Up
        <4>. QED
          BY <2>1, <2>2, <3>1
      <3>2. CASE Up(d) = {}
        <4> HIDE DEF Up
        <4>. QED
          BY <2>1, <3>2
      <3>. QED
        BY <3>1, <3>2
    <2>4. Pt(d) \in C /\ Pt(e) \in C /\ Known(t, d, from) = snap[t][Pt(d)]
            /\ Known(t, e, from) = snap[t][Pt(e)]
      BY <2>1
    <2>5. snap[t][Pt(d)] <= snap[t][Pt(e)]
      <3>1. CASE Pt(d) = Pt(e)
        BY <1>2, <2>4, <3>1
      <3>2. CASE Pt(d) # Pt(e)
        <4>1. Pt(d) < Pt(e)
          BY <1>2, <2>3, <2>4, <3>2
        <4>. QED
          BY <2>4, <4>1 DEF NeverFell
      <3>. QED
        BY <3>1, <3>2
    <2>. QED
      BY <2>4, <2>5
  <1>. QED
    BY <1>3, <1>4

\* The latest close known today is the price.
LEMMA KnownToday ==
  ASSUME RowsOK, NEW t \in Tickers, NEW from \in 1..today, Price(t) # 0
  PROVE  Known(t, today, from) = Price(t) /\ Closes(t, from) # {}
  <1> DEFINE C == Closes(t, from)
             ds == {e \in C : e <= today}
  <1>1. from \in 1..LastDay /\ today \in Int /\ from <= today
    BY AnalyticsAssumption DEF RowsOK, Days
  <1>2. today \in C
    BY <1>1 DEF Closes, Price
  <1>3. IsFiniteSet(ds) /\ ds \subseteq Int /\ today \in ds /\ \A e \in ds : e <= today /\ e \in Int
    <2>1. IsFiniteSet(C) /\ C \in SUBSET (from..today)
      BY <1>1, ClosesAreDays
    <2>2. IsFiniteSet(ds) /\ ds \in SUBSET (from..today)
      BY <2>1, FS_Subset
    <2>. QED
      BY <1>1, <1>2, <2>2
  <1>4. Max(ds) = today /\ ds # {}
    <2> HIDE DEF ds
    <2>1. Max(ds) \in ds /\ today <= Max(ds)
      BY <1>3, Extremes
    <2>2. Max(ds) <= today /\ Max(ds) \in Int
      BY <1>3, <2>1
    <2>. QED
      BY <1>1, <1>3, <2>1, <2>2
  <1>. QED
    BY <1>2, <1>4 DEF Known, Price

\* A series that never falls has no drawdown.
LEMMA NoFall ==
  ASSUME NEW N \in Positive, NEW s \in [1..N -> Positive], Len(s) = N,
         \A i, j \in 1..N : i <= j => s[i] <= s[j]
  PROVE  Mdd(s)[1] = 0
  <1> DEFINE m == Mdd(s)
  <1>1. N \in Nat /\ N >= 1
    BY DEF Positive
  <1>2. m \in Int \X Positive /\ Deepest(s, N, m)
    BY <1>1, MddIsOfAFall
  <1> HIDE DEF m
  <1>3. m = <<m[1], m[2]>> /\ m[1] \in Int /\ m[2] \in Positive
    BY <1>2
  <1>4. s[1] \in Positive /\ ~Above(<<s[1] - s[1], s[1]>>, m)
    <2>1. 1 \in 1..N /\ 1 \in 1..N
      BY <1>1
    <2>. QED
      BY <1>2, <2>1 DEF Deepest
  <1>5. m[1] >= 0
    <2>1. ~((s[1] - s[1]) * m[2] > m[1] * s[1])
      BY <1>4 DEF Above
    <2>2. s[1] - s[1] = 0 /\ 0 * m[2] = 0
      BY <1>3, <1>4 DEF Positive
    <2>3. ~(0 > m[1] * s[1])
      BY <2>1, <2>2
    <2>4. ASSUME NEW a \in Int, NEW b \in Int, a < 0, b > 0 PROVE a * b < 0
      BY <2>4
    <2>5. s[1] \in Int /\ s[1] > 0
      BY <1>4 DEF Positive
    <2>6. ~(m[1] < 0)
      BY <1>3, <2>3, <2>4, <2>5
    <2>. QED
      BY <1>3, <2>6
  <1>6. m[1] <= 0
    <2>1. CASE m = <<0, 1>>
      BY <2>1
    <2>2. CASE m # <<0, 1>>
      <3>1. PICK i \in 1..N : \E j \in i..N : m = <<s[i] - s[j], s[i]>>
        BY <1>2, <2>2 DEF Deepest
      <3>2. PICK j \in i..N : m = <<s[i] - s[j], s[i]>>
        BY <3>1
      <3>3. j \in 1..N /\ i <= j /\ s[i] <= s[j] /\ s[i] \in Positive /\ s[j] \in Positive
        BY <1>1
      <3>4. m[1] = s[i] - s[j]
        BY <3>2
      <3>. QED
        BY <3>3, <3>4 DEF Positive
    <2>. QED
      BY <2>1, <2>2
  <1>. QED
    BY <1>3, <1>5, <1>6 DEF m

\* A sum of positive amounts is one.
LEMMA SumOfPositive ==
  ASSUME NEW S, IsFiniteSet(S), S # {}, NEW f \in [S -> Positive]
  PROVE  SumOf(f, S) \in Positive
  <1>1. PICK x \in S : TRUE
    OBVIOUS
  <1>2. f \in [S -> Int] /\ f[x] \in Positive /\ \A y \in S : f[y] >= 0
    BY DEF Positive
  <1>3. S \ {x} \in SUBSET S /\ IsFiniteSet(S \ {x})
    BY FS_Subset
  <1>4. SumOf(f, S \ {x}) \in Int /\ SumOf(f, S \ {x}) >= 0
    BY <1>2, <1>3, SumType, SumOfSigned
  <1>5. SumOf(f, S) = f[x] + SumOf(f, S \ {x})
    BY <1>2, SumTakes
  <1>. QED
    BY <1>2, <1>4, <1>5 DEF Positive

\* A ticker of one portfolio is held once.
LEMMA HeldOnce ==
  ASSUME RowsOK, ~Twice, NEW r \in Rows
  PROVE  Qty(r[2]) = 1
  <1> DEFINE t == r[2]
             p == r[1]
             own == [q \in Portfolios |-> hold[q][t]]
  <1>1. t \in Tickers /\ p \in Portfolios /\ hold[p][t] > 0
    BY RowsFinite DEF Rows
  <1>2. \A q \in Portfolios : hold[q][t] \in {0, 1}
    BY <1>1 DEF RowsOK
  <1>3. hold[p][t] = 1
    BY <1>1, <1>2
  <1>4. \A q \in Portfolios \ {p} : hold[q][t] = 0
    BY <1>1, <1>2, <1>3 DEF Twice
  <1>5. own \in [Portfolios -> Int] /\ own[p] = 1 /\ \A q \in Portfolios \ {p} : own[q] = 0
    BY <1>1, <1>2, <1>3, <1>4
  <1>6. Qty(t) = SumFunction(own)
    BY DEF Qty, Total
  <1> HIDE DEF own, p, t
  <1>7. Portfolios \ {p} \in SUBSET Portfolios /\ IsFiniteSet(Portfolios)
          /\ IsFiniteSet(Portfolios \ {p})
    BY AnalyticsAssumption, FS_Subset
  <1>8. SumOf(own, Portfolios) = own[p] + SumOf(own, Portfolios \ {p})
    BY <1>1, <1>5, <1>7, SumTakes
  <1>9. SumOf(own, Portfolios \ {p}) = 0
    BY <1>5, <1>7, SumOfSigned
  <1>10. Qty(t) = 1
    BY <1>5, <1>6, <1>8, <1>9, TotalIs
  <1>. QED
    BY <1>10 DEF t

\* The series of a function that never falls never falls.
LEMMA SeriesGrows ==
  ASSUME NEW S, IsFiniteSet(S), S \subseteq Int, NEW f \in [S -> Positive],
         \A d, e \in S : d <= e => f[d] <= f[e]
  PROVE  \A i, j \in 1..Cardinality(S) : i <= j => Series(f)[i] <= Series(f)[j]
  <1> DEFINE N == Cardinality(S)
             s == Sorted(S)
  <1>1. /\ s \in [1..N -> S] /\ N \in Nat
        /\ \A i, j \in 1..N : i < j <=> s[i] < s[j]
    BY SortedInOrder
  <1>2. \A i \in 1..N : Series(f)[i] = f[s[i]]
    <2>1. IsSeries(f, S, Positive)
      BY SeriesOf
    <2>. QED
      BY <2>1 DEF IsSeries
  <1> HIDE DEF N, s
  <1>3. ASSUME NEW i \in 1..N, NEW j \in 1..N, i <= j PROVE Series(f)[i] <= Series(f)[j]
    <2>0. s[i] \in S /\ s[j] \in S /\ i \in Int /\ j \in Int
      BY <1>1
    <2>1. s[i] \in S /\ s[j] \in S /\ s[i] \in Int /\ s[j] \in Int /\ i \in Int /\ j \in Int
      BY <2>0
    <2>2. ~(s[j] < s[i])
      BY <1>1, <1>3, <2>1
    <2>3. s[i] <= s[j]
      BY <2>1, <2>2
    <2>. QED
      BY <1>2, <2>1, <2>3
  <1>. QED
    BY <1>3 DEF N

\* When no close falls, the history does not.
LEMMA HistoryGrows ==
  ASSUME RowsOK, NEW from \in 1..today, \A t \in Held : NeverFell(t, from),
         NEW d \in Dates(from), NEW e \in Dates(from), d <= e
  PROVE  History(from)[d] <= History(from)[e]
  <1> DEFINE val(x) == [t \in Held |-> Qty(t) * Known(t, x, from)]
  <1>1. d \in Int /\ e \in Int
    BY DatesAreDays
  <1>2. /\ val(d) \in [Held -> Nat] /\ History(from)[d] = SumOf(val(d), Held)
        /\ val(e) \in [Held -> Nat] /\ History(from)[e] = SumOf(val(e), Held)
    BY HistoryIs
  <1>3. ASSUME NEW t \in Held PROVE val(d)[t] <= val(e)[t]
    <2>1. t \in Tickers /\ Qty(t) \in Nat
      BY RowsAreHeld DEF Held
    <2>2. Known(t, d, from) \in Nat /\ Known(t, e, from) \in Nat
            /\ Known(t, d, from) <= Known(t, e, from)
      BY <1>1, <2>1, KnownIsAClose, KnownGrows
    <2>3. Qty(t) * Known(t, d, from) <= Qty(t) * Known(t, e, from)
      BY <2>1, <2>2, RateGrows
    <2>. QED
      BY <2>3
  <1> HIDE DEF val
  <1>4. val(d) \in [Held -> Int] /\ val(e) \in [Held -> Int]
    BY <1>2
  <1>5. SumOf(val(d), Held) <= SumOf(val(e), Held)
    BY <1>3, <1>4, HeldFinite, SumGrows
  <1>. QED
    BY <1>2, <1>5

\* A shorter period has no more falls.
LEMMA FellFrom ==
  ASSUME RowsOK, NEW t \in Tickers, NEW from \in 1..today, NeverFell(t, 1)
  PROVE  NeverFell(t, from)
  <1>1. Closes(t, from) \subseteq Closes(t, 1)
    BY DEF Closes, RowsOK, Days
  <1>. QED
    BY <1>1 DEF NeverFell

\* Nor is the change over a period a loss.
LEMMA MineIsNoLoss ==
  ASSUME RowsOK, NEW from \in 1..today, \A t \in Held : NeverFell(t, 1)
  PROVE  Mine(from)[1] >= 0
  <1> DEFINE s == Series(History(from))
             S == Dates(from)
             N == Cardinality(S)
  <1>1. s \in [1..N -> Positive] /\ Len(s) = N /\ N \in Nat
    BY HistorySeries
  <1>2. Mine(from) = IF Len(s) >= 2 THEN <<s[Len(s)] - s[1], s[1]>> ELSE <<0, 1>>
    BY DEF Mine
  <1>3. CASE N >= 2
    <2>1. \A t \in Held : NeverFell(t, from)
      BY FellFrom DEF Held
    <2>2. History(from) \in [S -> Positive]
      <3>1. History(from) = [d \in S |-> History(from)[d]]
        BY DEF History
      <3>2. \A d \in S : History(from)[d] \in Positive
        BY HistoryIs
      <3>. QED
        BY <3>1, <3>2
    <2>3. \A d, e \in S : d <= e => History(from)[d] <= History(from)[e]
      BY <2>1, HistoryGrows
    <2>4. IsFiniteSet(S) /\ S \subseteq Int
      BY DatesAreDays
    <2>5. \A i, j \in 1..N : i <= j => s[i] <= s[j]
      <3> HIDE DEF S
      <3>. QED
        BY <2>2, <2>3, <2>4, SeriesGrows
    <2>6. s[1] <= s[N] /\ s[1] \in Int /\ s[N] \in Int
      <3> HIDE DEF s, N
      <3>. QED
        BY <1>1, <1>3, <2>5 DEF Positive
    <2> HIDE DEF s, N
    <2>7. Mine(from)[1] = s[N] - s[1]
      BY <1>1, <1>2, <1>3
    <2>. QED
      BY <2>6, <2>7
  <1>4. CASE ~(N >= 2)
    <2> HIDE DEF s, N
    <2>1. Mine(from)[1] = 0
      BY <1>1, <1>2, <1>4
    <2>. QED
      BY <2>1
  <1>. QED
    BY <1>3, <1>4

\* Nor has the series with the value of now a drawdown.
LEMMA DrawdownIsNone ==
  ASSUME RowsOK, Rows # {}, ~Twice, \A t \in Held : NeverFell(t, 1) /\ Price(t) # 0
  PROVE  Drawdown(1)[1] = 0
  <1> DEFINE S == Dates(1)
             N == Cardinality(S)
             val(d) == [r \in Rows |-> Known(r[2], d, 1)]
             now == [r \in Rows |-> Price(r[2])]
             q == Series(Metrics(1))
             u == q \o <<Current>>
  <1>1. 1 \in 1..today /\ today \in Int
    BY AnalyticsAssumption DEF RowsOK, Days
  <1>2. IsFiniteSet(S) /\ S \subseteq Int /\ S \subseteq 1..today /\ N \in Nat
    BY <1>1, DatesAreDays, FS_CardinalityType
  <1>3. ASSUME NEW r \in Rows
        PROVE  /\ r[2] \in Tickers /\ r[2] \in Held /\ Qty(r[2]) = 1
               /\ Price(r[2]) \in Positive /\ Price(r[2]) # 0
               /\ Known(r[2], today, 1) = Price(r[2]) /\ Closes(r[2], 1) # {}
    <2>1. r[2] \in Tickers /\ r[2] \in Held
      BY RowsFinite, RowsAreHeld
    <2>2. Price(r[2]) \in Nat /\ Price(r[2]) # 0
      BY <2>1, Amounts
    <2>3. Known(r[2], today, 1) = Price(r[2]) /\ Closes(r[2], 1) # {}
      BY <1>1, <2>1, <2>2, KnownToday
    <2>. QED
      BY <2>1, <2>2, <2>3, HeldOnce DEF Positive
  <1>4. ASSUME NEW r \in Rows, NEW d \in Int
        PROVE Known(r[2], d, 1) \in Positive
    BY <1>1, <1>3, KnownIsAClose
  <1>5. ASSUME NEW r \in Rows, NEW d \in Int, NEW e \in Int, d <= e
        PROVE Known(r[2], d, 1) <= Known(r[2], e, 1)
    BY <1>1, <1>3, <1>5, KnownGrows
  <1>6. \A d \in Int : val(d) \in [Rows -> Positive]
    BY <1>4
  <1>7. now \in [Rows -> Positive]
    BY <1>3
  <1>8. ASSUME NEW d \in S PROVE Metrics(1)[d] = SumFunction(val(d))
    <2>1. ASSUME NEW r \in Rows PROVE Qty(r[2]) * Effective(r[2], d, 1) = Known(r[2], d, 1)
      <3>1. Effective(r[2], d, 1) = Known(r[2], d, 1)
        BY <1>1, <1>2, <1>3, EffectiveIsKnown
      <3>2. Known(r[2], d, 1) \in Int
        BY <1>2, <1>4 DEF Positive
      <3>. QED
        BY <1>3, <3>1, <3>2
    <2>2. [r \in Rows |-> Qty(r[2]) * Effective(r[2], d, 1)] = val(d)
      BY <2>1
    <2>3. Metrics(1)[d] = SumFunction([r \in Rows |-> Qty(r[2]) * Effective(r[2], d, 1)])
      BY DEF Metrics, Total
    <2>. QED
      BY <2>2, <2>3
  <1>9. Current = SumFunction(now)
    <2>1. [r \in Rows |-> IF Price(r[2]) # 0 THEN Price(r[2]) ELSE avg[r[2]]] = now
      BY <1>3
    <2>. QED
      BY <2>1 DEF Current, Total
  <1>10. \A d \in Int : \A r \in Rows : d <= today => val(d)[r] <= now[r]
    BY <1>1, <1>3, <1>5
  <1>11. \A d, e \in Int : \A r \in Rows : d <= e => val(d)[r] <= val(e)[r]
    BY <1>5
  <1> HIDE DEF val, now, S
  <1>12. ASSUME NEW f \in [Rows -> Positive]
         PROVE  /\ SumFunction(f) = SumOf(f, Rows) /\ SumOf(f, Rows) \in Positive
                /\ f \in [Rows -> Int] /\ IsFiniteSet(Rows)
    <2>1. f \in [Rows -> Int]
      BY DEF Positive
    <2>. QED
      BY <2>1, RowsFinite, TotalIs, SumOfPositive
  <1>13. ASSUME NEW d \in S
         PROVE  /\ Metrics(1)[d] = SumOf(val(d), Rows) /\ Metrics(1)[d] \in Positive
                /\ Metrics(1)[d] <= Current
    <2>1. d \in Int /\ d <= today /\ val(d) \in [Rows -> Positive]
      BY <1>1, <1>2, <1>6
    <2>2. SumOf(val(d), Rows) <= SumOf(now, Rows)
      <3>1. val(d) \in [Rows -> Int] /\ now \in [Rows -> Int] /\ IsFiniteSet(Rows)
        BY <1>7, <1>12, <2>1
      <3>2. \A r \in Rows : val(d)[r] <= now[r]
        BY <1>10, <2>1
      <3>. QED
        BY <3>1, <3>2, SumGrows
    <2>. QED
      BY <1>7, <1>8, <1>9, <1>12, <2>1, <2>2
  <1>14. Current \in Positive
    BY <1>7, <1>9, <1>12
  <1>15. ASSUME NEW d \in S, NEW e \in S, d <= e PROVE Metrics(1)[d] <= Metrics(1)[e]
    <2>1. d \in Int /\ e \in Int /\ val(d) \in [Rows -> Positive] /\ val(e) \in [Rows -> Positive]
      BY <1>2, <1>6
    <2>2. val(d) \in [Rows -> Int] /\ val(e) \in [Rows -> Int] /\ IsFiniteSet(Rows)
      BY <1>12, <2>1
    <2>3. \A r \in Rows : val(d)[r] <= val(e)[r]
      BY <1>11, <1>15, <2>1
    <2>4. SumOf(val(d), Rows) <= SumOf(val(e), Rows)
      BY <2>2, <2>3, SumGrows
    <2>. QED
      BY <1>13, <2>4
  <1>16. Metrics(1) \in [S -> Positive]
    <2>1. Metrics(1) = [d \in S |-> Metrics(1)[d]]
      BY DEF Metrics, S
    <2>. QED
      BY <1>13, <2>1
  <1>17. /\ q \in [1..N -> Positive] /\ q \in Seq(Positive) /\ Len(q) = N
         /\ \A i, j \in 1..N : i <= j => q[i] <= q[j]
         /\ \A i \in 1..N : q[i] <= Current
    <2>1. /\ q \in [1..N -> Positive] /\ q \in Seq(Positive) /\ Len(q) = N
          /\ \A i \in 1..N : q[i] = Metrics(1)[Sorted(S)[i]]
      <3>1. IsSeries(Metrics(1), S, Positive)
        BY <1>2, <1>16, SeriesOf
      <3>. QED
        BY <3>1 DEF IsSeries
    <2>2. \A i, j \in 1..N : i <= j => q[i] <= q[j]
      <3>1. \A d, e \in S : d <= e => Metrics(1)[d] <= Metrics(1)[e]
        BY <1>15
      <3>. QED
        BY <1>2, <1>16, <3>1, SeriesGrows
    <2>3. \A i \in 1..N : Sorted(S)[i] \in S
      <3>1. Sorted(S) \in [1..N -> S]
        BY <1>2, SortedInOrder
      <3> HIDE DEF N, q
      <3>. QED
        BY <3>1
    <2> HIDE DEF q, N
    <2>4. \A i \in 1..N : q[i] <= Current
      BY <1>13, <2>1, <2>3
    <2>. QED
      BY <2>1, <2>2, <2>4
  <1> HIDE DEF q, N
  <1>18. /\ u \in [1..(N + 1) -> Positive] /\ Len(u) = N + 1 /\ N + 1 \in Positive
         /\ \A i \in 1..N : u[i] = q[i]
         /\ u[N + 1] = Current
    <2>1. <<Current>> \in Seq(Positive) /\ Len(<<Current>>) = 1 /\ <<Current>>[1] = Current
      BY <1>14
    <2>2. u \in Seq(Positive) /\ Len(u) = N + 1
      BY <1>17, <2>1
    <2>3. u \in [1..(N + 1) -> Positive]
      <3> HIDE DEF u
      <3>. QED
        BY <2>2
    <2>4. \A i \in 1..N : u[i] = q[i]
      BY <1>17, <2>1
    <2>5. u[N + 1] = Current
      BY <1>2, <1>17, <2>1
    <2> HIDE DEF u
    <2>. QED
      BY <1>2, <2>2, <2>3, <2>4, <2>5 DEF Positive
  <1>19. \A i, j \in 1..(N + 1) : i <= j => u[i] <= u[j]
    <2> HIDE DEF u
    <2> SUFFICES ASSUME NEW i \in 1..(N + 1), NEW j \in 1..(N + 1), i <= j PROVE u[i] <= u[j]
      OBVIOUS
    <2>1. CASE j \in 1..N
      <3>1. i \in 1..N
        BY <1>2, <2>1
      <3>. QED
        BY <1>17, <1>18, <2>1, <3>1
    <2>2. CASE j = N + 1 /\ i \in 1..N
      BY <1>17, <1>18, <2>2
    <2>3. CASE j = N + 1 /\ i = N + 1
      BY <1>14, <1>18, <2>3 DEF Positive
    <2>4. (j \in 1..N) \/ (j = N + 1 /\ i \in 1..N) \/ (j = N + 1 /\ i = N + 1)
      BY <1>2
    <2>. QED
      BY <2>1, <2>2, <2>3, <2>4
  <1>20. Drawdown(1) = Mdd(u)
    BY DEF Drawdown, q
  <1> HIDE DEF u
  <1>21. Mdd(u)[1] = 0
    <2> DEFINE M == N + 1
    <2>1. M \in Positive /\ u \in [1..M -> Positive] /\ Len(u) = M /\ \A i, j \in 1..M : i <= j =>
             u[i] <= u[j]
      BY <1>18, <1>19
    <2> HIDE DEF M
    <2>. QED
      BY <2>1, NoFall
  <1>. QED
    BY <1>20, <1>21

\* The days of a month with a close.
MonthDays(t, m) == {d \in Closes(t, 1) : MonthOf[d] = m}

\* A month's close is that of one of its days.
LEMMA MonthCloseIs ==
  ASSUME RowsOK, NEW t \in Tickers, NEW m, MonthClose(t, m) # 0
  PROVE  \E d \in Closes(t, 1) : MonthOf[d] = m /\ MonthClose(t, m) = snap[t][d]
  <1> DEFINE ds == MonthDays(t, m)
  <1>1. MonthClose(t, m) = IF ds = {} THEN 0 ELSE snap[t][Max(ds)]
    BY DEF MonthClose, MonthDays
  <1>2. IsFiniteSet(ds) /\ ds \subseteq Int
    <2>1. 1 \in 1..LastDay /\ today \in Int
      BY AnalyticsAssumption DEF RowsOK, Days
    <2>2. IsFiniteSet(Closes(t, 1)) /\ Closes(t, 1) \in SUBSET (1..today)
      BY <2>1, ClosesAreDays
    <2>. QED
      BY <2>2, FS_Subset DEF MonthDays
  <1> HIDE DEF ds
  <1>3. ds # {} /\ Max(ds) \in ds /\ MonthClose(t, m) = snap[t][Max(ds)]
    BY <1>1, <1>2, Extremes
  <1>. QED
    BY <1>3 DEF ds, MonthDays

\* Months are numbers.
LEMMA MonthsOf ==
  ASSUME RowsOK
  PROVE  Months(1) \subseteq Nat
  <1>1. 1 \in 1..today
    BY AnalyticsAssumption DEF RowsOK, Days
  <1>2. Dates(1) \subseteq Days
    BY <1>1, DatesAreDays
  <1>. QED
    BY <1>2, AnalyticsAssumption DEF Months

\* When no close falls, no month's close is below an earlier one's.
LEMMA MonthsGrow ==
  ASSUME RowsOK, NEW t \in Held, NeverFell(t, 1), NEW m \in Nat, NEW n \in Nat, m < n,
         MonthClose(t, m) # 0, MonthClose(t, n) # 0
  PROVE  /\ MonthClose(t, m) \in Positive /\ MonthClose(t, n) \in Positive
         /\ MonthClose(t, m) <= MonthClose(t, n)
  <1>1. t \in Tickers /\ 1 \in 1..LastDay
    BY AnalyticsAssumption DEF Held
  <1>2. PICK d \in Closes(t, 1) : MonthOf[d] = m /\ MonthClose(t, m) = snap[t][d]
    BY <1>1, MonthCloseIs
  <1>3. PICK e \in Closes(t, 1) : MonthOf[e] = n /\ MonthClose(t, n) = snap[t][e]
    BY <1>1, MonthCloseIs
  <1>4. /\ d \in Days /\ e \in Days /\ d \in Int /\ e \in Int
        /\ snap[t][d] \in Positive /\ snap[t][e] \in Positive
    <2>1. /\ Closes(t, 1) \subseteq Days /\ \A x \in Closes(t, 1) : snap[t][x] \in Positive
      BY <1>1, ClosesAreDays DEF Positive
    <2>2. Days \subseteq Int
      BY AnalyticsAssumption DEF Days
    <2>. QED
      BY <2>1, <2>2
  <1>5. d < e
    <2>1. e <= d => MonthOf[e] <= MonthOf[d]
      BY <1>4, AnalyticsAssumption
    <2>2. ~(e <= d)
      BY <1>2, <1>3, <2>1
    <2>. QED
      BY <1>4, <2>2
  <1>6. snap[t][d] <= snap[t][e]
    BY <1>5 DEF NeverFell
  <1>. QED
    BY <1>2, <1>3, <1>4, <1>6

\* Nor is a month's return a loss.
LEMMA MonthlyIsNoLoss ==
  ASSUME RowsOK, \A t \in Held : NeverFell(t, 1),
         NEW m \in Months(1), NEW n \in Months(1), m < n
  PROVE  Monthly(m, n)[1] >= 0
  <1> DEFINE ts == Compared(m, n)
             base == [t \in ts |-> MonthClose(t, m)]
             Dens(r) == r = [T \in SUBSET ts |->
                IF T = {} THEN 1 ELSE MonthClose(Pick(T), m) * r[T \ {Pick(T)}]]
             den == FoldSet(LAMBDA t, acc : MonthClose(t, m) * acc, 1, ts)
             gain == [t \in ts |-> (MonthClose(t, n) - MonthClose(t, m)) * MonthClose(t, n)
                                      * (den \div MonthClose(t, m))]
  <1>1. IsFiniteSet(ts) /\ ts \subseteq Held
    BY HeldFinite, FS_Subset DEF Compared
  <1>2. m \in Nat /\ n \in Nat
    BY MonthsOf
  <1>3. ASSUME NEW t \in ts
        PROVE  /\ MonthClose(t, m) \in Positive /\ MonthClose(t, n) \in Positive
               /\ MonthClose(t, m) <= MonthClose(t, n)
    <2>1. t \in Held /\ MonthClose(t, m) # 0 /\ MonthClose(t, n) # 0 /\ NeverFell(t, 1)
      BY <1>1 DEF Compared
    <2>. QED
      BY <1>2, <2>1, MonthsGrow
  <1>4. base \in [ts -> Nat]
    BY <1>3 DEF Positive
  <1>5. den \in Nat
    <2>1. ASSUME NEW r PROVE Dens(r) <=> Folds("product", base, ts, r)
      <3>1. \A T \in SUBSET ts : T # {} => Pick(T) \in ts
        BY DEF Pick
      <3>2. \A T \in SUBSET ts : T # {} => base[Pick(T)] = MonthClose(Pick(T), m)
        BY <3>1
      <3> HIDE DEF base, ts
      <3>. QED
        BY <3>2 DEF Folds, Unit, Join
    <2>2. den = (CHOOSE r : Dens(r))[ts]
      BY DEF FoldSet, MapThenFoldSet, Pick
    <2> DEFINE it == CHOOSE r : Dens(r)
    <2>3. Folds("product", base, ts, it)
      <3> HIDE DEF Dens, base, ts
      <3>1. \E r : Folds("product", base, ts, r)
        BY <1>1, FoldsExist
      <3>2. \E r : Dens(r)
        BY <2>1, <3>1
      <3>3. Dens(it)
        BY <3>2
      <3>. QED
        BY <2>1, <3>3
    <2> HIDE DEF it, base, ts, den
    <2>4. it[ts] \in Nat
      BY <1>1, <1>4, <2>3, ProductType
    <2>. QED
      BY <2>2, <2>4 DEF it
  <1> HIDE DEF den
  <1>6. ASSUME NEW a \in Positive, NEW b \in Positive, a <= b
        PROVE (b - a) * b * (den \div a) \in Nat
    <2>1. den \div a \in Nat
      BY <1>5 DEF Positive
    <2>2. (b - a) * b \in Nat
      <3>1. b - a \in Nat /\ b \in Nat
        BY <1>6 DEF Positive
      <3>. QED
        BY <3>1
    <2>. QED
      BY <2>1, <2>2
  <1>7. gain \in [ts -> Int] /\ \A t \in ts : gain[t] >= 0
    <2>1. \A t \in ts : (MonthClose(t, n) - MonthClose(t, m)) * MonthClose(t, n)
                                      * (den \div MonthClose(t, m)) \in Nat
      BY <1>3, <1>6
    <2> HIDE DEF ts
    <2>. QED
      BY <2>1
  <1>8. Monthly(m, n)[1] = SumFunction(gain)
    BY DEF Monthly, Total, den
  <1> HIDE DEF gain, ts
  <1>9. SumOf(gain, ts) \in Int /\ SumOf(gain, ts) >= 0
    BY <1>1, <1>7, SumType, SumOfSigned
  <1>. QED
    BY <1>7, <1>8, <1>9, TotalIs

\* When no close ever fell and every price is known, there is no drawdown, no
\* period and no month of loss, whatever rows are missing
\* (api/analytics_metrics.py, analytics_benchmark.py).
THEOREM NoFalseLossAlways == Spec => []NoFalseLoss
  <1>1. RowsOK => NoFalseLoss
    <2> SUFFICES ASSUME RowsOK, \A t \in Held : NeverFell(t, 1) /\ Price(t) # 0
        PROVE  /\ Rows # {} /\ ~Twice => Drawdown(1)[1] = 0
               /\ \A from \in 1..today : Mine(from)[1] >= 0
               /\ \A m, n \in Months(1) : m < n => Monthly(m, n)[1] >= 0
      BY DEF NoFalseLoss
    <2>. QED
      BY DrawdownIsNone, MineIsNoLoss, MonthlyIsNoLoss
  <1>. QED
    BY <1>1, RowsTyped, PTL

\* The drawdown, the moving average and the exchange gains are exact for every
\* table of rows (api/analytics_metrics.py, analytics_sma.py, analytics_fx.py).
THEOREM FiguresExactAlways == Spec => []FiguresExact
  <1>1. RowsOK => FiguresExact
    BY DeepestAlways, SmaIsOfLatest, GainsAddUp DEF FiguresExact
  <1>. QED
    BY <1>1, RowsTyped, PTL

=============================================================================
