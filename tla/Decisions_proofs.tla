--------------------------- MODULE Decisions_proofs ---------------------------
(***************************************************************************)
(* Proofs about the two halves of the decisions package: the assessment    *)
(* (Decisions) and, at the end, the explanation of a finished one with its *)
(* budget (ProviderBudget).                                                *)
(*                                                                         *)
(* The engine adds up numbers with one fold, the verifier with another.    *)
(* Neither can be unfolded by induction here, so both are identified with  *)
(* the cardinality of a set of units, f[x] of them for every x: a sum is   *)
(* then as large, as monotone and as additive as that set.  What a fold    *)
(* is at all follows from well-founded induction over the subsets of its   *)
(* finite domain, by the least subset for which it would fail.             *)
(***************************************************************************)
EXTENDS Decisions, ProviderBudget, FiniteSetTheorems, WellFoundedInduction, TLAPS
-------------------------------------------------------------------------------
(* Sums are cardinalities, and folds over finite sets exist.               *)

Pick(s) == CHOOSE x \in s : TRUE
Units(f, s) == UNION {{x} \X (1..f[x]) : x \in s}

IsSum(f, S, h) ==
  h = [s \in SUBSET S |-> IF s = {} THEN 0 ELSE f[Pick(s)] + h[s \ {Pick(s)}]]

LEMMA TotalFold ==
  ASSUME NEW f
  PROVE  Total(f) = (CHOOSE h : IsSum(f, DOMAIN f, h))[DOMAIN f]
BY DEF Total, FoldFunction, FoldFunctionOnSet, MapThenFoldSet, IsSum, Pick

LEMMA Interval ==
  ASSUME NEW n \in Nat PROVE IsFiniteSet(1..n) /\ Cardinality(1..n) = n
<1>1. 1 \in Int /\ n \in Int
  OBVIOUS
<1>2. IsFiniteSet(1..n) /\ Cardinality(1..n) = IF 1 > n THEN 0 ELSE n - 1 + 1
  BY <1>1, FS_Interval
<1> QED BY <1>2

LEMMA Column ==
  ASSUME NEW x, NEW n \in Nat
  PROVE  IsFiniteSet({x} \X (1..n)) /\ Cardinality({x} \X (1..n)) = n
<1>1. IsFiniteSet({x}) /\ Cardinality({x}) = 1
  BY FS_Singleton
<1>2. IsFiniteSet({x} \X (1..n)) /\ Cardinality({x} \X (1..n)) = 1 * n
  BY <1>1, Interval, FS_Product
<1> QED BY <1>2

LEMMA UnitsFinite ==
  ASSUME NEW S, IsFiniteSet(S), NEW f \in [S -> Nat], NEW s \in SUBSET S
  PROVE  IsFiniteSet(Units(f, s)) /\ Cardinality(Units(f, s)) \in Nat
<1> DEFINE column == [x \in s |-> {x} \X (1..f[x])]
           T == {column[x] : x \in s}
<1>1. IsFiniteSet(s)
  BY FS_Subset
<1>2. column \in Surjection(s, T)
  BY DEF Surjection
<1>3. IsFiniteSet(T)
  <2> HIDE DEF column, T
  <2> QED BY <1>1, <1>2, FS_Surjection
<1>4. \A x \in s : IsFiniteSet({x} \X (1..f[x]))
  BY Column
<1>5. \A t \in T : IsFiniteSet(t)
  BY <1>4
<1>6. IsFiniteSet(UNION T)
  <2> HIDE DEF T
  <2> QED BY <1>3, <1>5, FS_UNION
<1>7. UNION T = Units(f, s)
  BY DEF Units
<1> QED BY <1>6, <1>7, FS_CardinalityType

LEMMA UnitsSplit ==
  ASSUME NEW S, IsFiniteSet(S), NEW f \in [S -> Nat], NEW s \in SUBSET S, NEW x \in s
  PROVE  Cardinality(Units(f, s)) = f[x] + Cardinality(Units(f, s \ {x}))
<1> DEFINE own == {x} \X (1..f[x])
           rest == Units(f, s \ {x})
<1>1. IsFiniteSet(own) /\ Cardinality(own) = f[x] /\ f[x] \in Nat
  <2>1. f[x] \in Nat
    OBVIOUS
  <2> QED BY <2>1, Column
<1>2. IsFiniteSet(rest) /\ Cardinality(rest) \in Nat
  <2>1. s \ {x} \in SUBSET S
    OBVIOUS
  <2> QED BY <2>1, UnitsFinite
<1>3. Units(f, s) = own \cup rest
  BY DEF Units
<1>4. own \cap rest = {}
  BY DEF Units
<1>5. Cardinality(own \cup rest) = Cardinality(own) + Cardinality(rest) - Cardinality({})
  <2> HIDE DEF own, rest
  <2> QED BY <1>1, <1>2, <1>4, FS_Union
<1> QED BY <1>1, <1>2, <1>3, <1>5, FS_EmptySet

LEMMA SumExists ==
  ASSUME NEW S, IsFiniteSet(S), NEW f \in [S -> Nat]
  PROVE  IsSum(f, S, [s \in SUBSET S |-> Cardinality(Units(f, s))])
<1> DEFINE h == [s \in SUBSET S |-> Cardinality(Units(f, s))]
           g == [s \in SUBSET S |-> IF s = {} THEN 0 ELSE f[Pick(s)] + h[s \ {Pick(s)}]]
<1>1. ASSUME NEW s \in SUBSET S PROVE h[s] = g[s]
  <2>1. CASE s = {}
    <3>1. Units(f, s) = {}
      BY <2>1 DEF Units
    <3> QED BY <2>1, <3>1, FS_EmptySet
  <2>2. CASE s # {}
    <3>1. Pick(s) \in s
      BY <2>2 DEF Pick
    <3>2. Cardinality(Units(f, s)) = f[Pick(s)] + Cardinality(Units(f, s \ {Pick(s)}))
      BY <3>1, UnitsSplit
    <3>3. s \ {Pick(s)} \in SUBSET S
      OBVIOUS
    <3> QED BY <2>2, <3>2, <3>3
  <2> QED BY <2>1, <2>2
<1>2. h = g
  BY <1>1
<1> QED BY <1>2 DEF IsSum

LEMMA SubsetsWellFounded ==
  ASSUME NEW S, IsFiniteSet(S)
  PROVE  IsWellFoundedOn(StrictSubsetOrdering(S), SUBSET S)
BY FS_StrictSubsetOrderingWellFounded, FS_FiniteSubsetsOfFinite

LEMMA SumUnique ==
  ASSUME NEW S, IsFiniteSet(S), NEW f, NEW h, IsSum(f, S, h), NEW k, IsSum(f, S, k)
  PROVE  h = k
<1> DEFINE Bad == {s \in SUBSET S : h[s] # k[s]}
<1>1. SUFFICES ASSUME Bad # {} PROVE FALSE
  <2>1. \A s \in SUBSET S : h[s] = k[s]
    BY <1>1
  <2>2. h = [s \in SUBSET S |-> h[s]] /\ k = [s \in SUBSET S |-> k[s]]
    BY DEF IsSum
  <2> QED BY <2>1, <2>2
<1>3. PICK s \in Bad : \A t \in Bad : <<t, s>> \notin StrictSubsetOrdering(S)
  <2>1. Bad \subseteq SUBSET S
    OBVIOUS
  <2> HIDE DEF Bad
  <2> QED BY <1>1, <2>1, SubsetsWellFounded, WFMin
<1>4. s # {}
  BY DEF IsSum
<1>5. Pick(s) \in s
  BY <1>4 DEF Pick
<1>6. s \ {Pick(s)} \in SUBSET S /\ s \in SUBSET S
  OBVIOUS
<1>7. <<s \ {Pick(s)}, s>> \in StrictSubsetOrdering(S)
  BY <1>5, <1>6 DEF StrictSubsetOrdering
<1>8. h[s \ {Pick(s)}] = k[s \ {Pick(s)}]
  BY <1>3, <1>6, <1>7
<1>9. h[s] = k[s]
  BY <1>4, <1>6, <1>8 DEF IsSum
<1> QED BY <1>9

LEMMA TotalCounts ==
  ASSUME NEW S, IsFiniteSet(S), NEW f \in [S -> Nat]
  PROVE  Total(f) = Cardinality(Units(f, S))
<1> DEFINE c == [s \in SUBSET S |-> Cardinality(Units(f, s))]
           h == CHOOSE h : IsSum(f, S, h)
<1>1. IsSum(f, S, c)
  BY SumExists
<1>2. IsSum(f, S, h)
  <2> HIDE DEF c
  <2> QED BY <1>1
<1>3. h = c
  <2> HIDE DEF c, h
  <2> QED BY <1>1, <1>2, SumUnique
<1>4. DOMAIN f = S
  OBVIOUS
<1>5. Total(f) = h[S]
  BY <1>4, TotalFold
<1> QED BY <1>3, <1>5

(* A fold whose step stays within a set has values in that set.            *)
IsFold(op, base, f, S, h) ==
  h = [s \in SUBSET S |-> IF s = {} THEN base ELSE op[f[Pick(s)], h[s \ {Pick(s)}]]]

LEMMA FoldUnique ==
  ASSUME NEW S, IsFiniteSet(S), NEW op, NEW base, NEW f,
         NEW h, IsFold(op, base, f, S, h), NEW k, IsFold(op, base, f, S, k)
  PROVE  h = k
<1> DEFINE Bad == {s \in SUBSET S : h[s] # k[s]}
<1>1. SUFFICES ASSUME Bad # {} PROVE FALSE
  <2>1. \A s \in SUBSET S : h[s] = k[s]
    BY <1>1
  <2>2. h = [s \in SUBSET S |-> h[s]] /\ k = [s \in SUBSET S |-> k[s]]
    BY DEF IsFold
  <2> QED BY <2>1, <2>2
<1>2. PICK s \in Bad : \A t \in Bad : <<t, s>> \notin StrictSubsetOrdering(S)
  <2>1. Bad \subseteq SUBSET S
    OBVIOUS
  <2> HIDE DEF Bad
  <2> QED BY <1>1, <2>1, SubsetsWellFounded, WFMin
<1>3. s # {}
  BY DEF IsFold
<1>4. Pick(s) \in s
  BY <1>3 DEF Pick
<1>5. s \ {Pick(s)} \in SUBSET S /\ s \in SUBSET S
  OBVIOUS
<1>6. <<s \ {Pick(s)}, s>> \in StrictSubsetOrdering(S)
  BY <1>4, <1>5 DEF StrictSubsetOrdering
<1>7. h[s \ {Pick(s)}] = k[s \ {Pick(s)}]
  BY <1>2, <1>5, <1>6
<1>8. h[s] = k[s]
  BY <1>3, <1>5, <1>7, ZenonT(60) DEF IsFold
<1> QED BY <1>8

LEMMA FoldRestricts ==
  ASSUME NEW S, NEW op, NEW base, NEW f, NEW h, IsFold(op, base, f, S, h),
         NEW T \in SUBSET S, NEW k, k = [s \in SUBSET T |-> h[s]]
  PROVE  IsFold(op, base, f, T, k)
<1>1. ASSUME NEW s \in SUBSET T
      PROVE  k[s] = IF s = {} THEN base ELSE op[f[Pick(s)], k[s \ {Pick(s)}]]
  <2>1. s \in SUBSET S /\ s \ {Pick(s)} \in SUBSET T
    OBVIOUS
  <2>2. h[s] = IF s = {} THEN base ELSE op[f[Pick(s)], h[s \ {Pick(s)}]]
    BY <2>1 DEF IsFold
  <2> QED BY <2>1, <2>2
<1>2. k = [s \in SUBSET T |-> IF s = {} THEN base ELSE op[f[Pick(s)], k[s \ {Pick(s)}]]]
  BY <1>1
<1> QED BY <1>2 DEF IsFold

LEMMA FoldExists ==
  ASSUME NEW S, IsFiniteSet(S), NEW A, NEW B, NEW op \in [A \X B -> B], NEW base \in B,
         NEW f \in [S -> A]
  PROVE  \E h \in [SUBSET S -> B] : IsFold(op, base, f, S, h)
<1> DEFINE Good(s) == \E h \in [SUBSET s -> B] : IsFold(op, base, f, s, h)
           Bad == {s \in SUBSET S : ~Good(s)}
<1>1. SUFFICES ASSUME Bad # {} PROVE FALSE
  <2>1. S \in SUBSET S
    OBVIOUS
  <2> QED BY <1>1, <2>1
<1>3. PICK s \in Bad : \A t \in Bad : <<t, s>> \notin StrictSubsetOrdering(S)
  <2>1. Bad \subseteq SUBSET S
    OBVIOUS
  <2> HIDE DEF Bad
  <2> QED BY <1>1, <2>1, SubsetsWellFounded, WFMin
<1>4. s \in SUBSET S /\ ~Good(s)
  OBVIOUS
<1>5. \A t \in SUBSET s : t # s => Good(t)
  <2>1. ASSUME NEW t \in SUBSET s, t # s PROVE Good(t)
    <3>1. t \in SUBSET S /\ <<t, s>> \in StrictSubsetOrdering(S)
      BY <1>4, <2>1 DEF StrictSubsetOrdering
    <3> HIDE DEF Good
    <3> QED BY <1>3, <3>1
  <2> QED BY <2>1
<1> DEFINE FoldOn(t) == CHOOSE h \in [SUBSET t -> B] : IsFold(op, base, f, t, h)
           own == Pick(s)
           H == [t \in SUBSET s |-> IF t = s /\ s # {} THEN op[f[own], FoldOn(s \ {own})[s \ {own}]]
                                    ELSE IF s = {} THEN base ELSE FoldOn(t)[t]]
<1>6. ASSUME NEW t \in SUBSET s, t # s
      PROVE  FoldOn(t) \in [SUBSET t -> B] /\ IsFold(op, base, f, t, FoldOn(t))
  <2>1. Good(t)
    BY <1>5, <1>6
  <2> QED BY <2>1
<1>7. ASSUME NEW t \in SUBSET s, t # s, NEW u \in SUBSET t
      PROVE  FoldOn(t)[u] = FoldOn(u)[u]
  <2>1. u \in SUBSET s /\ u # s
    BY <1>7
  <2>2. IsFold(op, base, f, u, FoldOn(u)) /\ IsFold(op, base, f, t, FoldOn(t))
    BY <1>6, <1>7, <2>1
  <2>3. IsFiniteSet(u)
    BY <1>4, <2>1, FS_Subset
  <2> DEFINE p == FoldOn(t)
             q == FoldOn(u)
             r == [v \in SUBSET u |-> p[v]]
  <2>4. IsFold(op, base, f, u, r)
    <3>1. IsFold(op, base, f, t, p)
      BY <2>2
    <3> HIDE DEF p
    <3>2. r = [v \in SUBSET u |-> p[v]]
      OBVIOUS
    <3> HIDE DEF r
    <3> QED BY <3>1, <3>2, FoldRestricts, ZenonT(60)
  <2>5. r = q
    <3> HIDE DEF r
    <3> QED BY <2>2, <2>3, <2>4, FoldUnique
  <2>6. r[u] = p[u]
    <3> HIDE DEF p
    <3> QED OBVIOUS
  <2> QED BY <2>5, <2>6
<1>8. s # {} => own \in s /\ s \ {own} \in SUBSET s /\ s \ {own} # s
  BY DEF Pick
<1>9. H \in [SUBSET s -> B]
  <2>1. ASSUME NEW t \in SUBSET s PROVE H[t] \in B
    <3>1. CASE s = {}
      BY <3>1
    <3>2. CASE s # {} /\ t = s
      <4>1. FoldOn(s \ {own})[s \ {own}] \in B
        BY <1>6, <1>8, <3>2
      <4>2. f[own] \in A
        BY <1>4, <1>8, <3>2
      <4> QED BY <3>2, <4>1, <4>2
    <3>3. CASE s # {} /\ t # s
      <4>1. FoldOn(t)[t] \in B
        BY <1>6, <3>3
      <4> QED BY <3>3, <4>1
    <3> QED BY <3>1, <3>2, <3>3
  <2> QED BY <2>1
<1>10. /\ H = [t \in SUBSET s |-> H[t]]
       /\ s = {} => H[s] = base
       /\ s # {} => H[s] = op[f[own], FoldOn(s \ {own})[s \ {own}]]
       /\ \A t \in SUBSET s : s # {} /\ t # s => H[t] = FoldOn(t)[t]
  <2>1. H = [t \in SUBSET s |-> H[t]]
    <3> HIDE DEF H
    <3> QED BY <1>9
  <2>2. s = {} => H[s] = base
    OBVIOUS
  <2>3. s # {} => H[s] = op[f[own], FoldOn(s \ {own})[s \ {own}]]
    <3>1. s \in SUBSET s
      OBVIOUS
    <3> HIDE DEF own, FoldOn
    <3> QED BY <3>1
  <2>4. \A t \in SUBSET s : s # {} /\ t # s => H[t] = FoldOn(t)[t]
    <3> HIDE DEF own, FoldOn
    <3> QED OBVIOUS
  <2> HIDE DEF H
  <2> QED BY <2>1, <2>2, <2>3, <2>4
<1> HIDE DEF H
<1>11. ASSUME NEW t \in SUBSET s
       PROVE  H[t] = IF t = {} THEN base ELSE op[f[Pick(t)], H[t \ {Pick(t)}]]
  <2>1. CASE s = {}
    BY <1>10, <2>1
  <2>2. CASE s # {} /\ t = s
    <3>1. H[s \ {own}] = FoldOn(s \ {own})[s \ {own}]
      BY <1>8, <1>10, <2>2
    <3>2. H[s] = op[f[own], H[s \ {own}]]
      BY <1>10, <2>2, <3>1
    <3> QED BY <2>2, <3>2
  <2>3. CASE s # {} /\ t # s
    <3> DEFINE p == FoldOn(t)
    <3>1. H[t] = p[t]
      BY <1>10, <2>3
    <3>2. IsFold(op, base, f, t, p)
      BY <1>6, <2>3
    <3>3. p[t] = IF t = {} THEN base ELSE op[f[Pick(t)], p[t \ {Pick(t)}]]
      <4>1. t \in SUBSET t
        OBVIOUS
      <4> HIDE DEF p
      <4> QED BY <3>2, <4>1 DEF IsFold
    <3>4. ASSUME t # {} PROVE p[t \ {Pick(t)}] = H[t \ {Pick(t)}]
      <4>1. Pick(t) \in t
        BY <3>4 DEF Pick
      <4> DEFINE u == t \ {Pick(t)}
      <4>2. u \in SUBSET s /\ u # s /\ u \in SUBSET t
        BY <2>3, <4>1
      <4>3. H[u] = FoldOn(u)[u]
        BY <1>10, <2>3, <4>2
      <4>4. FoldOn(t)[u] = FoldOn(u)[u]
        <5> HIDE DEF u
        <5> QED BY <1>7, <2>3, <4>2
      <4> QED BY <4>3, <4>4
    <3> HIDE DEF p
    <3> QED BY <3>1, <3>3, <3>4
  <2> QED BY <2>1, <2>2, <2>3
<1>12. H = [t \in SUBSET s |-> IF t = {} THEN base ELSE op[f[Pick(t)], H[t \ {Pick(t)}]]]
  BY <1>10, <1>11
<1>13. Good(s)
  BY <1>9, <1>12 DEF IsFold
<1> QED BY <1>4, <1>13
-------------------------------------------------------------------------------
(* The verifier's sums.                                                    *)

LEMMA SumUnit ==
  ASSUME NEW S, IsFiniteSet(S), NEW f \in [S -> Nat], NEW h, IsSum(f, S, h)
  PROVE  h[S] = Cardinality(Units(f, S))
<1> DEFINE c == [s \in SUBSET S |-> Cardinality(Units(f, s))]
<1>1. IsSum(f, S, c)
  BY SumExists
<1>2. h = c
  <2> HIDE DEF c
  <2> QED BY <1>1, SumUnique
<1> QED BY <1>2

LEMMA SumCounts ==
  ASSUME NEW S, IsFiniteSet(S), NEW f \in [S -> Nat]
  PROVE  /\ Verifier!SumFunction(f) = Cardinality(Units(f, S))
         /\ Verifier!SumFunction(f) \in Nat
<1> DEFINE h == CHOOSE h : IsSum(f, S, h)
<1>1. IsSum(f, S, h)
  <2>1. IsSum(f, S, [s \in SUBSET S |-> Cardinality(Units(f, s))])
    BY SumExists
  <2> QED BY <2>1
<1>2. DOMAIN f = S
  OBVIOUS
<1>3. Verifier!SumFunction(f) = h[S]
  BY <1>2 DEF Verifier!SumFunction, Verifier!SumFunctionOnSet, Verifier!FoldFunctionOnSet,
              Verifier!MapThenFoldSet, IsSum, Pick
<1>4. h[S] = Cardinality(Units(f, S))
  <2> HIDE DEF h
  <2> QED BY <1>1, SumUnit
<1>5. S \in SUBSET S
  OBVIOUS
<1> QED BY <1>3, <1>4, <1>5, UnitsFinite

IsProductOf(f, S, h) ==
  h = [s \in SUBSET S |-> IF s = {} THEN 1 ELSE f[Pick(s)] * h[s \ {Pick(s)}]]

LEMMA ProductIs ==
  ASSUME NEW S, IsFiniteSet(S), NEW f \in [S -> Nat \ {0}]
  PROVE  \E k \in [SUBSET S -> Nat \ {0}] : IsProductOf(f, S, k) /\ Verifier!Product(f) = k[S]
<1> DEFINE A == Nat \ {0}
           op == [x \in A \X A |-> x[1] * x[2]]
           IsProduct(h) == IsProductOf(f, S, h)
           p == CHOOSE h : IsProduct(h)
<1>1. op \in [A \X A -> A]
  OBVIOUS
<1>2. PICK k \in [SUBSET S -> A] : IsFold(op, 1, f, S, k)
  <2>1. 1 \in A
    OBVIOUS
  <2> HIDE DEF op, A
  <2>2. f \in [S -> A]
    BY DEF A
  <2> QED BY <1>1, <2>1, <2>2, FoldExists
<1>3. \A s \in SUBSET S : s # {} => op[f[Pick(s)], k[s \ {Pick(s)}]] = f[Pick(s)] * k[s \ {Pick(s)}]
  <2>1. SUFFICES ASSUME NEW s \in SUBSET S, s # {}
                 PROVE  op[f[Pick(s)], k[s \ {Pick(s)}]] = f[Pick(s)] * k[s \ {Pick(s)}]
    OBVIOUS
  <2>2. Pick(s) \in S
    BY <2>1 DEF Pick
  <2>3. f[Pick(s)] \in A /\ k[s \ {Pick(s)}] \in A
    BY <1>2, <2>2
  <2> QED BY <2>3
<1>4. IsProduct(k)
  BY <1>2, <1>3 DEF IsFold, IsProductOf
<1>5. ASSUME NEW h, IsProduct(h) PROVE h = k
  <2> DEFINE Bad == {s \in SUBSET S : h[s] # k[s]}
  <2>1. SUFFICES ASSUME Bad # {} PROVE FALSE
    <3>1. \A s \in SUBSET S : h[s] = k[s]
      BY <2>1
    <3>2. h = [s \in SUBSET S |-> h[s]] /\ k = [s \in SUBSET S |-> k[s]]
      BY <1>4, <1>5 DEF IsProductOf
    <3> QED BY <3>1, <3>2
  <2>2. PICK s \in Bad : \A t \in Bad : <<t, s>> \notin StrictSubsetOrdering(S)
    <3>1. Bad \subseteq SUBSET S
      OBVIOUS
    <3> HIDE DEF Bad
    <3> QED BY <2>1, <3>1, SubsetsWellFounded, WFMin, ZenonT(60)
  <2>3. s # {}
    BY <1>4, <1>5 DEF IsProductOf
  <2>4. Pick(s) \in s
    BY <2>3 DEF Pick
  <2>5. s \ {Pick(s)} \in SUBSET S /\ s \in SUBSET S
    OBVIOUS
  <2>6. <<s \ {Pick(s)}, s>> \in StrictSubsetOrdering(S)
    BY <2>4, <2>5 DEF StrictSubsetOrdering
  <2>7. h[s \ {Pick(s)}] = k[s \ {Pick(s)}]
    BY <2>2, <2>5, <2>6
  <2>8. h[s] = k[s]
    BY <1>4, <1>5, <2>3, <2>5, <2>7 DEF IsProductOf
  <2> QED BY <2>8
<1>6. p = k
  <2> HIDE DEF IsProduct
  <2> QED BY <1>4, <1>5 DEF IsProductOf
<1>7. DOMAIN f = S
  OBVIOUS
<1>8. Verifier!Product(f) = p[S]
  BY <1>7 DEF Verifier!Product, Verifier!FoldSeq, Verifier!FoldFunction, Verifier!FoldFunctionOnSet,
              Verifier!MapThenFoldSet, Pick, IsProductOf
<1> QED BY <1>2, <1>4, <1>6, <1>8

LEMMA ProductType ==
  ASSUME NEW S, IsFiniteSet(S), NEW f \in [S -> Nat \ {0}]
  PROVE  Verifier!Product(f) \in Nat \ {0}
<1>1. PICK k \in [SUBSET S -> Nat \ {0}] : Verifier!Product(f) = k[S]
  BY ProductIs, Zenon
<1> QED BY <1>1
-------------------------------------------------------------------------------
(* What the verifier expects of a plan, part by part, and what a passed    *)
(* demand says.                                                            *)

LEMMA VerifierNames ==
  /\ Verifier!Unknown = Unknown /\ Verifier!GroupSet = GroupSet /\ Verifier!Groups = Groups
  /\ Verifier!Amounts = Amounts /\ Verifier!PlanKeys = PlanKeys
  /\ \A a, b : Verifier!Before(a, b) <=> Before(a, b)
  /\ \A o : Verifier!RawWeights(o) = RawWeights(o)
BY DEF Verifier!Unknown, Unknown, Verifier!GroupSet, GroupSet, Verifier!Groups, Groups, Verifier!Amounts, Amounts,
       Verifier!PlanKeys, PlanKeys, Verifier!Before, Before, Verifier!RawWeights, RawWeights, Verifier!Preset, Preset

LEMMA ExpectedParts ==
  ASSUME NEW s, NEW o, NEW key
  PROVE  LET e == Verifier!Expected(s, o, key)
             plan == Verifier!PlanOf(key)
             lines == Verifier!ExpectedLines(s, plan, o.horizon)
             sums == Verifier!ExpectedSums(lines, o.horizon)
             states == Verifier!ExpectedStates(s, o, plan, sums)
             criteria == Verifier!ExpectedCriteria(s, o, plan, sums)
         IN  /\ e.key = key /\ e.lines = lines /\ e.sums = sums /\ e.states = states
             /\ e.criteria = criteria
             /\ e.status = "ELIGIBLE" =>
                  /\ \A state \in states : state[2] \notin {"FAIL", "UNKNOWN"}
                  /\ sums.complete
                  /\ e.score = Verifier!WeightedPoints(criteria, Verifier!RawWeights(o))
BY DEF Verifier!Expected

LEMMA StatesMet ==
  ASSUME NEW s \in ScenarioInputs, NEW o, NEW plan, NEW sums,
         \A state \in Verifier!ExpectedStates(s, o, plan, sums) : state[2] \notin {"FAIL", "UNKNOWN"}
  PROVE  /\ o.date \in Catalog.priceDate..Catalog.validUntil
         /\ s.region = "EU" /\ plan.staff <= s.staff
         /\ s.hard => /\ Unknown \notin {s.initial, s.monthly}
                      /\ sums.startup <= s.initial /\ sums.monthly <= s.monthly
<1> DEFINE states == Verifier!ExpectedStates(s, o, plan, sums)
           date == Verifier!State(<<"plan", "price_validity">>,
                                  ~(o.date \in Catalog.priceDate..Catalog.validUntil), TRUE)
           region == Verifier!State(<<"plan", "region">>, FALSE, s.region = "EU")
           staff == Verifier!State(<<"plan", "staff">>, s.staff = Verifier!Unknown, plan.staff <= s.staff)
           budget == Verifier!State(<<"plan", "budget">>,
                       ~sums.complete \/ s.initial = Verifier!Unknown \/ s.monthly = Verifier!Unknown,
                       sums.startup <= s.initial /\ sums.monthly <= s.monthly)
<1>1. date \in states /\ region \in states /\ staff \in states
  <2>1. date \in states
    BY DEF Verifier!ExpectedStates
  <2>2. region \in states
    BY DEF Verifier!ExpectedStates
  <2>3. staff \in states
    BY DEF Verifier!ExpectedStates
  <2> QED BY <2>1, <2>2, <2>3
<1>2. s.hard => budget \in states
  BY DEF Verifier!ExpectedStates
<1>4. o.date \in Catalog.priceDate..Catalog.validUntil
  <2>1. date[2] \notin {"FAIL", "UNKNOWN"}
    BY <1>1
  <2> QED BY <2>1 DEF Verifier!State
<1>5. s.region = "EU"
  <2>1. region[2] \notin {"FAIL", "UNKNOWN"}
    BY <1>1
  <2> QED BY <2>1 DEF Verifier!State
<1>6. plan.staff <= s.staff
  <2>1. staff[2] \notin {"FAIL", "UNKNOWN"}
    BY <1>1
  <2> QED BY <2>1 DEF Verifier!State
<1>7. ASSUME s.hard
      PROVE  /\ Unknown \notin {s.initial, s.monthly}
             /\ sums.startup <= s.initial /\ sums.monthly <= s.monthly
  <2>1. budget[2] \notin {"FAIL", "UNKNOWN"}
    BY <1>2, <1>7
  <2> QED BY <2>1 DEF Verifier!State, Verifier!Unknown, Unknown
<1> QED BY <1>4, <1>5, <1>6, <1>7

LEMMA WorkloadMet ==
  ASSUME NEW s \in ScenarioInputs, NEW o, NEW plan \in CatalogPlans, NEW sums, NEW i \in DOMAIN s.workloads,
         \A state \in Verifier!ExpectedStates(s, o, plan, sums) : state[2] \notin {"FAIL", "UNKNOWN"}
  PROVE  MeetsDemands(plan, s.workloads[i])
<1> DEFINE w == s.workloads[i]
           all == Verifier!WorkloadStates(w, plan)
<1>1. w \in Verifier!Workloads(s) /\ w \in WorkloadInputs
  BY DEF Verifier!Workloads, Verifier!ToSet, ScenarioInputs
<1>2. \A state \in all : state[2] \notin {"FAIL", "UNKNOWN"}
  <2>1. all \subseteq Verifier!ExpectedStates(s, o, plan, sums)
    BY <1>1 DEF Verifier!ExpectedStates
  <2> QED BY <2>1
<1>3. /\ \A f \in {"max_latency_ms", "availability_percent", "rto_seconds", "rpo_seconds"} : w[f] # Unknown
      /\ w.max_latency_ms >= plan.latency /\ w.availability_percent <= plan.availability
      /\ w.rto_seconds >= plan.rto /\ w.rpo_seconds >= plan.rpo
  <2>1. /\ Verifier!State(<<w.key, "max_latency_ms">>, w.max_latency_ms = Verifier!Unknown, w.max_latency_ms >= plan.latency) \in all
        /\ Verifier!State(<<w.key, "availability_percent">>, w.availability_percent = Verifier!Unknown,
                          w.availability_percent <= plan.availability) \in all
        /\ Verifier!State(<<w.key, "rto_seconds">>, w.rto_seconds = Verifier!Unknown, w.rto_seconds >= plan.rto) \in all
        /\ Verifier!State(<<w.key, "rpo_seconds">>, w.rpo_seconds = Verifier!Unknown, w.rpo_seconds >= plan.rpo) \in all
    BY DEF Verifier!WorkloadStates, Verifier!AvailabilityMet
  <2> HIDE DEF w, all
  <2> QED BY <1>2, <2>1 DEF Verifier!State, Verifier!Unknown, Unknown
<1>4. \A a \in {"user_count", "vcpu_count", "memory_gib", "storage_gib"} :
        w[a] # Unknown /\ plan.capacities[a] \in w[a]..MaxPrice
  <2>1. ASSUME NEW a \in {"user_count", "vcpu_count", "memory_gib", "storage_gib"}
        PROVE  w[a] # Unknown /\ plan.capacities[a] \in w[a]..MaxPrice
    <3> DEFINE capacity == Verifier!ValidPrice(plan.capacities[a])
               state == Verifier!State(<<w.key, a>>, w[a] = Verifier!Unknown \/ capacity = Verifier!Unknown, capacity >= w[a])
    <3>1. a \in Verifier!ToSet(Verifier!Amounts)
      BY DEF Verifier!ToSet, Verifier!Amounts
    <3>2. state \in all
      BY <3>1 DEF Verifier!WorkloadStates
    <3> HIDE DEF all, w, capacity
    <3>3. w[a] # Unknown /\ capacity # Unknown /\ capacity >= w[a]
      BY <1>2, <3>2 DEF Verifier!State, Verifier!Unknown, Unknown
    <3>4. w[a] \in Known /\ plan.capacities[a] \in Int
      BY <1>1 DEF WorkloadInputs, Positive, Known, CatalogPlans, Amounts
    <3>5. capacity = plan.capacities[a] /\ plan.capacities[a] <= MaxPrice
      BY <3>3, <3>4, ScaleAssumption DEF capacity, Verifier!ValidPrice, Verifier!Unknown, Unknown
    <3> QED BY <3>3, <3>4, <3>5, ScaleAssumption DEF Known
  <2> QED BY <2>1
<1>5. w.internet = "yes" /\ w.sensitivity \notin {"unknown", "RESTRICTED"} /\ w.type \in plan.supported
  <2>1. /\ Verifier!State(<<w.key, "function">>, FALSE, w.type \in plan.supported) \in all
        /\ Verifier!State(<<w.key, "internet">>, w.internet = "unknown", w.internet # "no") \in all
        /\ Verifier!State(<<w.key, "sensitivity">>, w.sensitivity = "unknown", w.sensitivity # "RESTRICTED") \in all
    BY DEF Verifier!WorkloadStates
  <2>2. w.internet \in {"yes", "no", "unknown"}
    BY <1>1 DEF WorkloadInputs
  <2> HIDE DEF w, all
  <2> QED BY <1>2, <2>1, <2>2 DEF Verifier!State
<1>6. \A a \in ToSet(Amounts) : a \in {"user_count", "vcpu_count", "memory_gib", "storage_gib"}
  BY DEF ToSet, Amounts
<1>7. \A f \in MeasuredFields :
        f \in {"user_count", "vcpu_count", "memory_gib", "storage_gib"}
             \cup {"max_latency_ms", "availability_percent", "rto_seconds", "rpo_seconds"}
  BY DEF MeasuredFields
<1>8. /\ w.max_latency_ms \in Int /\ w.availability_percent \in Int /\ w.rto_seconds \in Int
      /\ w.rpo_seconds \in Int
      /\ plan.latency \in Int /\ plan.availability \in Int /\ plan.rto \in Int /\ plan.rpo \in Int
  <2>1. Known \subseteq Int /\ Positive \subseteq Int
    BY DEF Known, Positive, Unknown
  <2> HIDE DEF w
  <2>2. /\ w.max_latency_ms \in Positive /\ w.availability_percent \in Known
        /\ w.rto_seconds \in Known /\ w.rpo_seconds \in Known
    BY <1>1 DEF WorkloadInputs
  <2>3. plan.latency \in Nat /\ plan.availability \in Nat /\ plan.rto \in Nat /\ plan.rpo \in Nat
    BY DEF CatalogPlans
  <2>4. /\ w.max_latency_ms \in Int /\ w.availability_percent \in Int
        /\ w.rto_seconds \in Int /\ w.rpo_seconds \in Int
    BY <2>1, <2>2, Zenon
  <2>5. plan.latency \in Int /\ plan.availability \in Int /\ plan.rto \in Int /\ plan.rpo \in Int
    BY <2>3
  <2> QED BY <2>4, <2>5
<1> HIDE DEF w
<1>9. MeetsDemands(plan, w)
  BY <1>3, <1>4, <1>5, <1>6, <1>7, <1>8 DEF MeetsDemands
<1> QED BY <1>9 DEF w
-------------------------------------------------------------------------------
(* Cost lines: their types, and that the verifier's sums of them add up.   *)

LEMMA CentsType ==
  ASSUME NEW n \in Nat, NEW d \in Nat \ {0}
  PROVE  Verifier!Cents(n, d) \in Nat
BY DEF Verifier!Cents

LEMMA Multiple ==
  ASSUME NEW h \in Nat \ {0}, NEW n \in Nat
  PROVE  (h * n) \div h = n
OBVIOUS

LEMMA TimesType ==
  ASSUME NEW a \in Nat, NEW b \in Nat PROVE a * b \in Nat
OBVIOUS

LineFits(l, h) ==
  /\ l.total \in Known
  /\ l.category \in {"CAPEX", "OPEX"} /\ l.recurrence \in {"ONCE", "MONTHLY"}
  /\ l.total # Unknown => l.price \in 0..MaxPrice
  /\ l.total # Unknown /\ l.recurrence = "MONTHLY" => \E n \in Nat : l.total = h * n

LEMMA ExpectedLineFits ==
  ASSUME NEW id, NEW category \in {"CAPEX", "OPEX"}, NEW recurrence \in {"ONCE", "MONTHLY"},
         NEW quantity \in Known, NEW price \in Int, NEW source, NEW times \in Nat, NEW h,
         recurrence = "MONTHLY" => times = h
  PROVE  LineFits(Verifier!ExpectedLine(id, category, recurrence, quantity,
                                        Verifier!ValidPrice(price), source, times), h)
<1> DEFINE p == Verifier!ValidPrice(price)
           l == Verifier!ExpectedLine(id, category, recurrence, quantity, p, source, times)
           cents == Verifier!Cents(quantity * p, QuantityScale)
<1>1. p \in Known /\ (p # Unknown => p \in 0..MaxPrice)
  BY ScaleAssumption DEF Verifier!ValidPrice, Verifier!Unknown, Unknown, Known
<1> HIDE DEF p
<1>2. /\ l.category = category /\ l.recurrence = recurrence /\ l.price = p
      /\ l.total = IF Unknown \in {quantity, p} THEN Unknown ELSE times * cents
  BY DEF Verifier!ExpectedLine, Verifier!Unknown, Unknown
<1>3. Unknown \notin {quantity, p} => cents \in Nat /\ times * cents \in Nat
  <2>1. SUFFICES ASSUME Unknown \notin {quantity, p} PROVE cents \in Nat /\ times * cents \in Nat
    OBVIOUS
  <2>2. quantity \in Nat /\ p \in Nat
    BY <1>1, <2>1 DEF Known
  <2>3. quantity * p \in Nat
    BY <2>2, TimesType
  <2>4. cents \in Nat
    BY <2>3, CentsType, ScaleAssumption
  <2> HIDE DEF cents
  <2> QED BY <2>4, TimesType
<1> HIDE DEF l, cents
<1>4. l.total \in Known
  BY <1>2, <1>3 DEF Known
<1>5. l.total # Unknown => l.price \in 0..MaxPrice
  BY <1>1, <1>2
<1>6. l.total # Unknown /\ l.recurrence = "MONTHLY" => \E n \in Nat : l.total = h * n
  BY <1>2, <1>3
<1>7. LineFits(l, h)
  BY <1>2, <1>4, <1>5, <1>6 DEF LineFits
<1> QED BY <1>7 DEF l, p

LEMMA LinesFit ==
  ASSUME NEW s \in ScenarioInputs, NEW plan \in CatalogPlans, NEW h \in Nat \ {0}
  PROVE  LET L == Verifier!ExpectedLines(s, plan, h)
         IN  IsFiniteSet(L) /\ \A l \in L : LineFits(l, h)
<1> DEFINE runtime(w) == Verifier!ExpectedLine(<<w.key, "runtime">>, "OPEX", "MONTHLY",
                           Verifier!RuntimeQuantity(w, plan), Verifier!ValidPrice(plan.price), plan.key, h)
           storage(w) == Verifier!ExpectedLine(<<w.key, "storage">>, "OPEX", "MONTHLY",
                           w.storage_gib, Verifier!ValidPrice(Catalog.storage), "storage", h)
           memory(w) == Verifier!ExpectedLine(<<w.key, "memory">>, "OPEX", "MONTHLY",
                           w.memory_gib, Verifier!ValidPrice(Catalog.memory), "memory", h)
           setup == Verifier!ExpectedLine(<<"plan", "setup">>,
                      IF plan.key = "HYBRID" THEN "CAPEX" ELSE "OPEX",
                      "ONCE", QuantityScale, Verifier!ValidPrice(plan.setup), plan.key, 1)
           operations == Verifier!ExpectedLine(<<"plan", "operations">>, "OPEX", "MONTHLY",
                           plan.staff, Verifier!ValidPrice(Catalog.staff), "staff", h)
           W == Verifier!Workloads(s)
           L == Verifier!ExpectedLines(s, plan, h)
<1>1. L = (UNION {{runtime(w), storage(w), memory(w)} : w \in W}) \cup {setup, operations}
  BY DEF Verifier!ExpectedLines
<1>2. \A w \in W : w \in WorkloadInputs
  BY DEF Verifier!Workloads, Verifier!ToSet, ScenarioInputs
<1>3. \A w \in W : LineFits(runtime(w), h) /\ LineFits(storage(w), h) /\ LineFits(memory(w), h)
  <2>1. SUFFICES ASSUME NEW w \in W
                 PROVE  LineFits(runtime(w), h) /\ LineFits(storage(w), h) /\ LineFits(memory(w), h)
    OBVIOUS
  <2>2. w \in WorkloadInputs
    BY <1>2
  <2>3. /\ w.storage_gib \in Known /\ w.memory_gib \in Known
        /\ Verifier!RuntimeQuantity(w, plan) \in Known
    BY <2>2, ScaleAssumption DEF WorkloadInputs, Positive, Known, Verifier!RuntimeQuantity, Verifier!Unknown, Unknown
  <2>4. plan.price \in Int /\ Catalog.storage \in Int /\ Catalog.memory \in Int /\ h \in Nat
    BY CatalogAssumption DEF CatalogPlans
  <2>5. LineFits(runtime(w), h)
    BY <2>3, <2>4, ExpectedLineFits
  <2>6. LineFits(storage(w), h)
    BY <2>3, <2>4, ExpectedLineFits
  <2>7. LineFits(memory(w), h)
    BY <2>3, <2>4, ExpectedLineFits
  <2> QED BY <2>5, <2>6, <2>7
<1>4. LineFits(setup, h) /\ LineFits(operations, h)
  <2>1. /\ plan.setup \in Int /\ Catalog.staff \in Int /\ plan.staff \in Known /\ QuantityScale \in Known
        /\ h \in Nat /\ 1 \in Nat
    BY CatalogAssumption, ScaleAssumption DEF CatalogPlans, Known
  <2>2. LineFits(operations, h)
    BY <2>1, ExpectedLineFits
  <2>3. LineFits(setup, h)
    BY <2>1, ExpectedLineFits
  <2> QED BY <2>2, <2>3
<1>5. \A l \in L : LineFits(l, h)
  <2> HIDE DEF runtime, storage, memory, setup, operations, L, W
  <2> QED BY <1>1, <1>3, <1>4
<1>6. IsFiniteSet(L)
  <2> DEFINE rows == [w \in W |-> {runtime(w), storage(w), memory(w)}]
             T == {rows[w] : w \in W}
             at == [i \in 1..Len(s.workloads) |-> s.workloads[i]]
  <2>1. IsFiniteSet(W)
    <3>1. s.workloads \in Seq(WorkloadInputs)
      BY DEF ScenarioInputs
    <3>2. at \in Surjection(1..Len(s.workloads), W)
      <4>1. W = {s.workloads[i] : i \in 1..Len(s.workloads)}
        BY <3>1 DEF Verifier!Workloads, Verifier!ToSet
      <4> HIDE DEF W
      <4> QED BY <4>1 DEF Surjection
    <3>3. IsFiniteSet(1..Len(s.workloads))
      BY <3>1, Interval
    <3> HIDE DEF at, W
    <3> QED BY <3>2, <3>3, FS_Surjection
  <2>2. rows \in Surjection(W, T)
    BY DEF Surjection
  <2>3. IsFiniteSet(T)
    <3> HIDE DEF rows, T, W
    <3> QED BY <2>1, <2>2, FS_Surjection
  <2>4. \A t \in T : IsFiniteSet(t)
    <3>1. ASSUME NEW w \in W PROVE IsFiniteSet({runtime(w), storage(w), memory(w)})
      <4> HIDE DEF runtime, storage, memory
      <4>1. IsFiniteSet({memory(w)})
        BY FS_Singleton
      <4>2. IsFiniteSet({memory(w)} \cup {storage(w)})
        BY <4>1, FS_AddElement
      <4>3. IsFiniteSet({memory(w)} \cup {storage(w)} \cup {runtime(w)})
        BY <4>2, FS_AddElement
      <4>4. {memory(w)} \cup {storage(w)} \cup {runtime(w)} = {runtime(w), storage(w), memory(w)}
        OBVIOUS
      <4> QED BY <4>3, <4>4
    <3> HIDE DEF runtime, storage, memory, W
    <3> QED BY <3>1
  <2>5. IsFiniteSet(UNION T)
    <3> HIDE DEF T
    <3> QED BY <2>3, <2>4, FS_UNION
  <2>6. IsFiniteSet((UNION T) \cup {setup})
    <3> HIDE DEF T, setup
    <3> QED BY <2>5, FS_AddElement
  <2>7. IsFiniteSet(((UNION T) \cup {setup}) \cup {operations})
    <3> HIDE DEF T, setup, operations
    <3> QED BY <2>6, FS_AddElement
  <2>8. ((UNION T) \cup {setup}) \cup {operations} = L
    <3> HIDE DEF runtime, storage, memory, setup, operations, L, W
    <3> QED BY <1>1
  <2> HIDE DEF T, L, setup, operations
  <2> QED BY <2>7, <2>8
<1> QED BY <1>5, <1>6

LEMMA UnitsSame ==
  ASSUME NEW S, NEW f, NEW g, NEW s \in SUBSET S, \A x \in s : f[x] = g[x]
  PROVE  Units(f, s) = Units(g, s)
BY DEF Units

LEMMA UnitsJoin ==
  ASSUME NEW S, IsFiniteSet(S), NEW f \in [S -> Nat], NEW s \in SUBSET S, NEW t \in SUBSET S,
         s \cap t = {}
  PROVE  Cardinality(Units(f, s \cup t)) = Cardinality(Units(f, s)) + Cardinality(Units(f, t))
<1>1. /\ IsFiniteSet(Units(f, s)) /\ Cardinality(Units(f, s)) \in Nat
      /\ IsFiniteSet(Units(f, t)) /\ Cardinality(Units(f, t)) \in Nat
  BY UnitsFinite
<1>2. Units(f, s) \cap Units(f, t) = {}
  BY DEF Units
<1>3. Units(f, s \cup t) = Units(f, s) \cup Units(f, t)
  BY DEF Units
<1>4. Cardinality(Units(f, s) \cup Units(f, t))
        = Cardinality(Units(f, s)) + Cardinality(Units(f, t)) - Cardinality(Units(f, s) \cap Units(f, t))
  BY <1>1, FS_Union
<1>5. Cardinality(Units(f, s) \cap Units(f, t)) = 0
  BY <1>2, FS_EmptySet
<1>6. Cardinality(Units(f, s \cup t)) = Cardinality(Units(f, s)) + Cardinality(Units(f, t)) - 0
  BY <1>3, <1>4, <1>5
<1> QED BY <1>1, <1>6

(* A sum of multiples of a number is a multiple of it.                     *)
LEMMA UnitsMultiple ==
  ASSUME NEW S, IsFiniteSet(S), NEW k \in Nat, NEW g \in [S -> Nat], NEW f \in [S -> Nat],
         \A x \in S : f[x] = k * g[x]
  PROVE  Cardinality(Units(f, S)) = k * Cardinality(Units(g, S))
<1> DEFINE h == [s \in SUBSET S |-> k * Cardinality(Units(g, s))]
           q == [s \in SUBSET S |-> IF s = {} THEN 0 ELSE f[Pick(s)] + h[s \ {Pick(s)}]]
<1>1. ASSUME NEW s \in SUBSET S PROVE h[s] = q[s]
  <2>1. CASE s = {}
    <3>1. Units(g, s) = {}
      BY <2>1 DEF Units
    <3>2. h[s] = k * 0
      BY <3>1, FS_EmptySet
    <3> QED BY <2>1, <3>2
  <2>2. CASE s # {}
    <3> DEFINE x == Pick(s)
               a == g[x]
               b == Cardinality(Units(g, s \ {x}))
    <3>1. x \in s
      BY <2>2 DEF Pick
    <3>2. Cardinality(Units(g, s)) = a + b
      BY <3>1, UnitsSplit
    <3>3. a \in Nat /\ b \in Nat
      BY <3>1, UnitsFinite
    <3>4. h[s] = k * (a + b)
      BY <3>2
    <3>5. q[s] = f[x] + k * b
      BY <2>2
    <3>6. f[x] = k * a
      BY <3>1
    <3>7. k * (a + b) = k * a + k * b
      <4> HIDE DEF a, b
      <4> QED BY <3>3
    <3> QED BY <3>4, <3>5, <3>6, <3>7
  <2> QED BY <2>1, <2>2
<1>2. h = q
  BY <1>1
<1>3. IsSum(f, S, h)
  BY <1>2 DEF IsSum
<1>4. h[S] = Cardinality(Units(f, S))
  <2> HIDE DEF h
  <2> QED BY <1>3, SumUnit
<1> QED BY <1>4

LEMMA SumOfLines ==
  ASSUME NEW L, IsFiniteSet(L), NEW h, \A l \in L : LineFits(l, h), NEW X \in SUBSET L
  PROVE  /\ Verifier!Sum(X) = Unknown <=> \E l \in X : l.total = Unknown
         /\ Verifier!Sum(X) # Unknown => Verifier!Sum(X) = Cardinality(Units([l \in X |-> l.total], X))
<1>1. CASE \E l \in X : l.total = Unknown
  BY <1>1 DEF Verifier!Sum, Verifier!Unknown, Unknown
<1>2. CASE \A l \in X : l.total # Unknown
  <2> DEFINE f == [l \in X |-> l.total]
  <2>1. IsFiniteSet(X)
    BY FS_Subset
  <2>2. \A l \in X : l.total \in Nat
    BY <1>2 DEF LineFits, Known
  <2>3. Verifier!Sum(X) = Verifier!SumFunction(f)
    BY <1>2 DEF Verifier!Sum, Verifier!Unknown, Unknown
  <2>4. Verifier!Sum(X) = Cardinality(Units(f, X))
    <3>1. f \in [X -> Nat]
      BY <2>2
    <3> HIDE DEF f
    <3> QED BY <2>1, <2>3, <3>1, SumCounts
  <2>5. Cardinality(Units(f, X)) \in Nat
    <3>1. f \in [X -> Nat]
      BY <2>2
    <3> HIDE DEF f
    <3> QED BY <2>1, <3>1, UnitsFinite
  <2>6. Verifier!Sum(X) # Unknown
    <3> HIDE DEF f
    <3> QED BY <2>4, <2>5 DEF Unknown
  <2> QED BY <1>2, <2>4, <2>6
<1> QED BY <1>1, <1>2

LEMMA SumsAddUp ==
  ASSUME NEW L, IsFiniteSet(L), NEW h \in Nat \ {0}, \A l \in L : LineFits(l, h),
         Verifier!ExpectedSums(L, h).complete
  PROVE  LET sums == Verifier!ExpectedSums(L, h)
         IN  /\ \A l \in L : l.total # Unknown
             /\ sums.tco \in Nat /\ sums.startup \in Nat /\ sums.monthly \in Nat
             /\ sums.tco - sums.startup = h * sums.monthly
<1> DEFINE sums == Verifier!ExpectedSums(L, h)
           C == {l \in L : l.category = "CAPEX"}
           O == {l \in L : l.category = "OPEX"}
           M == {l \in L : l.recurrence = "MONTHLY"}
           N == {l \in L : l.recurrence = "ONCE"}
           f == [l \in L |-> l.total]
           g == [l \in M |-> CHOOSE n \in Nat : l.total = h * n]
           m == Cardinality(Units(g, M))
<1>1. /\ sums.complete <=> Verifier!Sum(C) # Unknown /\ Verifier!Sum(O) # Unknown
      /\ sums.tco = IF Unknown \in {Verifier!Sum(C), Verifier!Sum(O)} THEN Unknown
                    ELSE Verifier!Sum(C) + Verifier!Sum(O)
      /\ sums.startup = Verifier!Sum(N)
      /\ sums.monthly = IF Verifier!Sum(M) = Unknown THEN Unknown ELSE Verifier!Sum(M) \div h
  BY DEF Verifier!ExpectedSums, Verifier!Unknown, Unknown
<1> HIDE DEF sums
<1>2. C \cup O = L /\ C \cap O = {} /\ N \cup M = L /\ N \cap M = {}
  BY DEF LineFits
<1>3. \A l \in L : l.total # Unknown
  <2>1. Verifier!Sum(C) # Unknown /\ Verifier!Sum(O) # Unknown
    BY <1>1 DEF sums
  <2>2. \A l \in C : l.total # Unknown
    <3> HIDE DEF C
    <3>1. C \in SUBSET L
      BY DEF C
    <3> QED BY <2>1, <3>1, SumOfLines
  <2>3. \A l \in O : l.total # Unknown
    <3> HIDE DEF O
    <3>1. O \in SUBSET L
      BY DEF O
    <3> QED BY <2>1, <3>1, SumOfLines
  <2> QED BY <1>2, <2>2, <2>3
<1>4. f \in [L -> Nat]
  BY <1>3 DEF LineFits, Known
<1>5. ASSUME NEW X \in SUBSET L
      PROVE  Verifier!Sum(X) = Cardinality(Units(f, X)) /\ Verifier!Sum(X) \in Nat /\ Verifier!Sum(X) # Unknown
  <2> DEFINE fx == [l \in X |-> l.total]
  <2>1. Verifier!Sum(X) # Unknown
    BY <1>3, SumOfLines
  <2>2. Verifier!Sum(X) = Cardinality(Units(fx, X))
    BY <2>1, SumOfLines
  <2>3. \A x \in X : f[x] = fx[x]
    OBVIOUS
  <2> HIDE DEF f, fx
  <2>4. Units(f, X) = Units(fx, X)
    BY <2>3, UnitsSame
  <2>5. Cardinality(Units(f, X)) \in Nat
    BY <1>4, UnitsFinite
  <2> QED BY <2>1, <2>2, <2>4, <2>5
<1>6. /\ Verifier!Sum(C) + Verifier!Sum(O) = Cardinality(Units(f, L))
      /\ Verifier!Sum(N) + Verifier!Sum(M) = Cardinality(Units(f, L))
  <2>1. C \in SUBSET L /\ O \in SUBSET L /\ M \in SUBSET L /\ N \in SUBSET L
    OBVIOUS
  <2> HIDE DEF C, O, M, N, f
  <2>2. Cardinality(Units(f, C \cup O)) = Cardinality(Units(f, C)) + Cardinality(Units(f, O))
    BY <1>2, <1>4, <2>1, UnitsJoin
  <2>3. Cardinality(Units(f, N \cup M)) = Cardinality(Units(f, N)) + Cardinality(Units(f, M))
    BY <1>2, <1>4, <2>1, UnitsJoin
  <2> QED BY <1>2, <1>5, <2>1, <2>2, <2>3
<1>7. Verifier!Sum(M) = h * m /\ m \in Nat
  <2>1. IsFiniteSet(M) /\ M \in SUBSET L
    BY FS_Subset
  <2>2. \A l \in M : \E n \in Nat : l.total = h * n
    BY <1>3 DEF LineFits
  <2>3. g \in [M -> Nat] /\ \A l \in M : f[l] = h * g[l]
    BY <2>2
  <2> DEFINE fm == [l \in M |-> f[l]]
  <2>4. fm \in [M -> Nat] /\ \A l \in M : fm[l] = h * g[l] /\ fm[l] = f[l]
    BY <1>4, <2>3
  <2> HIDE DEF M, f, g, fm
  <2>5. Cardinality(Units(fm, M)) = h * Cardinality(Units(g, M))
    BY <2>1, <2>3, <2>4, UnitsMultiple
  <2>6. Units(fm, M) = Units(f, M)
    BY <2>1, <2>4, UnitsSame, SMTT(30)
  <2>7. Cardinality(Units(g, M)) \in Nat
    BY <2>1, <2>3, UnitsFinite
  <2> QED BY <1>5, <2>1, <2>5, <2>6, <2>7
<1>8. /\ C \in SUBSET L /\ O \in SUBSET L /\ M \in SUBSET L /\ N \in SUBSET L
  OBVIOUS
<1> HIDE DEF C, O, M, N, m, f
<1>9. sums.monthly = m
  <2>1. sums.monthly = (h * m) \div h
    BY <1>1, <1>5, <1>7, <1>8
  <2> QED BY <1>7, <2>1, Multiple
<1>10. sums.tco = Verifier!Sum(C) + Verifier!Sum(O) /\ sums.startup = Verifier!Sum(N)
  BY <1>1, <1>5, <1>8
<1>11. sums.tco \in Nat /\ sums.startup \in Nat /\ sums.tco - sums.startup = Verifier!Sum(M)
  BY <1>5, <1>6, <1>8, <1>10
<1>12. sums.tco - sums.startup = h * sums.monthly /\ sums.monthly \in Nat
  BY <1>7, <1>9, <1>11
<1> QED BY <1>3, <1>11, <1>12 DEF sums
-------------------------------------------------------------------------------
(* Criteria, weights and scores are numbers.                               *)

LEMMA GroupsFinite == IsFiniteSet(GroupSet) /\ GroupSet = {"cost", "performance", "resilience", "operations", "governance"}
<1>1. DOMAIN Groups = 1..5
  BY DEF Groups
<1>2. GroupSet = {Groups[1], Groups[2], Groups[3], Groups[4], Groups[5]}
  BY <1>1 DEF GroupSet
<1>3. GroupSet = {"cost", "performance", "resilience", "operations", "governance"}
  BY <1>2 DEF Groups
<1> DEFINE at == [i \in 1..5 |-> Groups[i]]
<1>4. at \in Surjection(1..5, GroupSet)
  BY <1>1 DEF Surjection, GroupSet
<1>5. IsFiniteSet(1..5)
  BY Interval
<1> HIDE DEF at
<1> QED BY <1>3, <1>4, <1>5, FS_Surjection

LEMMA WeightsType ==
  ASSUME NEW o \in OptionInputs
  PROVE  RawWeights(o) \in [GroupSet -> Nat] /\ \E g \in GroupSet : RawWeights(o)[g] > 0
<1>1. Preset(o.profile) \in [GroupSet -> Nat]
  <2>1. DOMAIN Groups = 1..5 /\ \A g \in GroupSet : \E i \in 1..5 : Groups[i] = g
    BY DEF Groups, GroupSet
  <2>2. \A g \in GroupSet : (CHOOSE i \in DOMAIN Groups : Groups[i] = g) \in 1..5
    BY <2>1
  <2> DEFINE economic == <<35, 15, 20, 20, 10>>
             other == <<15, 35, 25, 10, 15>>
  <2>3. \A i \in 1..5 : economic[i] \in Nat /\ other[i] \in Nat
    OBVIOUS
  <2> HIDE DEF economic, other
  <2>4. Preset(o.profile) = [g \in GroupSet |->
          (IF o.profile = "ECONOMIC" THEN economic ELSE other)[CHOOSE i \in DOMAIN Groups : Groups[i] = g]]
    BY DEF Preset, economic, other
  <2> QED BY <2>2, <2>3, <2>4
<1> QED BY <1>1 DEF RawWeights, OptionInputs

LEMMA LargerType ==
  ASSUME NEW a \in Nat, NEW b \in Int PROVE Verifier!Larger(a, b) \in Nat /\ Verifier!Larger(a, b) >= a
BY DEF Verifier!Larger

LEMMA PositiveSum ==
  ASSUME NEW S, IsFiniteSet(S), NEW f \in [S -> Nat], NEW x \in S, f[x] > 0
  PROVE  Verifier!SumFunction(f) \in Nat \ {0}
<1>1. Cardinality(Units(f, S)) = f[x] + Cardinality(Units(f, S \ {x}))
  BY UnitsSplit
<1>2. Cardinality(Units(f, S \ {x})) \in Nat
  BY UnitsFinite
<1> QED BY <1>1, <1>2, SumCounts

LEMMA WeightedType ==
  ASSUME NEW criteria \in [GroupSet -> Known], NEW weights \in [GroupSet -> Nat],
         NEW g \in GroupSet, weights[g] > 0
  PROVE  Verifier!WeightedPoints(criteria, weights) \in Nat
<1> DEFINE f == [h \in GroupSet |-> weights[h] * Verifier!Larger(0, criteria[h])]
           w == [h \in GroupSet |-> weights[h]]
<1>1. f \in [GroupSet -> Nat]
  <2>1. \A h \in GroupSet : weights[h] \in Nat /\ Verifier!Larger(0, criteria[h]) \in Nat
    <3>1. 0 \in Nat /\ \A h \in GroupSet : weights[h] \in Nat /\ criteria[h] \in Int
      BY DEF Known, Unknown
    <3> QED BY <3>1, LargerType
  <2>2. \A h \in GroupSet : weights[h] * Verifier!Larger(0, criteria[h]) \in Nat
    BY <2>1, TimesType
  <2> QED BY <2>2
<1>2. w \in [GroupSet -> Nat] /\ w[g] > 0
  OBVIOUS
<1> HIDE DEF f, w
<1>3. Verifier!SumFunction(f) \in Nat /\ Verifier!SumFunction(w) \in Nat \ {0}
  BY <1>1, <1>2, GroupsFinite, SumCounts, PositiveSum
<1>4. Verifier!Cents(Verifier!SumFunction(f), Verifier!SumFunction(w)) \in Nat
  BY <1>3, CentsType
<1> QED BY <1>4, VerifierNames DEF Verifier!WeightedPoints, f, w

LEMMA QuotientType ==
  ASSUME NEW a \in Nat, NEW b \in Nat \ {0} PROVE a \div b \in Nat
OBVIOUS

LEMMA PositiveProduct ==
  ASSUME NEW a \in Nat \ {0}, NEW b \in Nat \ {0} PROVE a * b \in Nat \ {0}
OBVIOUS

LEMMA MeanPointsType ==
  ASSUME NEW actual \in Nat, NEW n \in Nat \ {0}, NEW values \in [1..n -> Known \ {0}]
  PROVE  Verifier!MeanPoints(actual, values) \in Known
<1>1. CASE Unknown \in Verifier!ToSet(values)
  BY <1>1 DEF Verifier!MeanPoints, Verifier!Unknown, Unknown, Known
<1>2. CASE Unknown \notin Verifier!ToSet(values)
  <2> DEFINE all == Verifier!Product(values)
             points == [i \in DOMAIN values |->
                          Verifier!Larger(0, 100 * values[i] - actual * 50) * (all \div values[i])]
  <2>1. values \in [1..n -> Nat \ {0}] /\ DOMAIN values = 1..n /\ IsFiniteSet(1..n)
    BY <1>2, Interval DEF Verifier!ToSet, Known
  <2>2. all \in Nat \ {0}
    BY <2>1, ProductType
  <2> HIDE DEF all
  <2>3. points \in [1..n -> Nat]
    <3>1. ASSUME NEW i \in 1..n
          PROVE  Verifier!Larger(0, 100 * values[i] - actual * 50) * (all \div values[i]) \in Nat
      <4>1. values[i] \in Nat \ {0}
        BY <2>1
      <4>2. 100 * values[i] - actual * 50 \in Int
        BY <4>1
      <4>3. all \div values[i] \in Nat
        BY <2>2, <4>1, QuotientType
      <4> QED BY <4>2, <4>3, LargerType, TimesType
    <3> QED BY <2>1, <3>1
  <2> HIDE DEF points
  <2>4. Verifier!SumFunction(points) \in Nat
    BY <2>1, <2>3, SumCounts
  <2>5. PointScale * Verifier!SumFunction(points) \in Nat
    BY <2>4, ScaleAssumption, TimesType
  <2>6. Len(values) = n
    BY <2>1
  <2>7. all * Len(values) \in Nat \ {0}
    BY <2>2, <2>6, PositiveProduct
  <2>8. Verifier!Cents(PointScale * Verifier!SumFunction(points), all * Len(values)) \in Nat
    BY <2>5, <2>7, CentsType
  <2> QED BY <1>2, <2>8 DEF Verifier!MeanPoints, points, all, Verifier!Unknown, Unknown, Known
<1> QED BY <1>1, <1>2

LEMMA CriteriaType ==
  ASSUME NEW s \in ScenarioInputs, NEW o \in OptionInputs, NEW plan \in CatalogPlans, NEW sums,
         sums.tco \in Known
  PROVE  Verifier!ExpectedCriteria(s, o, plan, sums) \in [GroupSet -> Known]
<1> DEFINE n == Len(s.workloads)
           latency == [i \in DOMAIN s.workloads |-> s.workloads[i].max_latency_ms]
           rto == [i \in DOMAIN s.workloads |-> s.workloads[i].rto_seconds]
           rtoAtLeast == [i \in DOMAIN rto |-> Verifier!Larger(1, rto[i])]
           criteria == Verifier!ExpectedCriteria(s, o, plan, sums)
           budget == IF Verifier!Unknown \in {s.initial, s.monthly} THEN Verifier!Unknown
                     ELSE s.initial + o.horizon * s.monthly
           people == s.staff + QuantityScale
<1>1. /\ s.workloads \in Seq(WorkloadInputs) /\ n \in Nat \ {0} /\ DOMAIN s.workloads = 1..n
      /\ s.staff \in Known /\ s.initial \in Known /\ s.monthly \in Known
      /\ o.horizon \in Nat \ {0}
      /\ plan.latency \in Nat /\ plan.rto \in Nat /\ plan.staff \in Nat /\ plan.governance \in Nat
      /\ \A i \in 1..n : s.workloads[i].max_latency_ms \in Known \ {0} /\ s.workloads[i].rto_seconds \in Known
  <2>1. s.workloads \in Seq(WorkloadInputs) /\ s.workloads # <<>>
    BY DEF ScenarioInputs
  <2>2. n \in Nat \ {0} /\ DOMAIN s.workloads = 1..n /\ \A i \in 1..n : s.workloads[i] \in WorkloadInputs
    BY <2>1
  <2> HIDE DEF n
  <2> QED BY <2>1, <2>2 DEF ScenarioInputs, OptionInputs, CatalogPlans, WorkloadInputs, Positive
<1>2. Verifier!MeanPoints(plan.latency, latency) \in Known
  <2>1. latency \in [1..n -> Known \ {0}]
    BY <1>1
  <2> HIDE DEF latency, n
  <2> QED BY <1>1, <2>1, MeanPointsType
<1>3. Verifier!Unknown \notin Verifier!ToSet(rto) => Verifier!MeanPoints(plan.rto, rtoAtLeast) \in Known
  <2>1. SUFFICES ASSUME Verifier!Unknown \notin Verifier!ToSet(rto)
                 PROVE  Verifier!MeanPoints(plan.rto, rtoAtLeast) \in Known
    OBVIOUS
  <2>2. DOMAIN rto = 1..n /\ \A i \in 1..n : rto[i] \in Nat
    BY <1>1, <2>1 DEF Known, Verifier!ToSet, Verifier!Unknown, Unknown
  <2>3. rtoAtLeast \in [1..n -> Known \ {0}]
    <3> HIDE DEF rto
    <3> QED BY <2>2 DEF Verifier!Larger, Known
  <2> HIDE DEF rtoAtLeast, n
  <2> QED BY <1>1, <2>3, MeanPointsType
<1>4. criteria["cost"] \in Known
  <2>1. criteria["cost"] = IF budget = Verifier!Unknown \/ sums.tco = Verifier!Unknown THEN Verifier!Unknown
                           ELSE IF budget > 0
                                THEN Verifier!Cents(PointScale * Verifier!Larger(0, 100 * budget - sums.tco * 50), budget)
                           ELSE IF sums.tco = 0 THEN PointScale * 100 ELSE 0
    BY VerifierNames, GroupsFinite DEF Verifier!ExpectedCriteria
  <2>2. budget \in Known
    <3>1. Unknown \notin {s.initial, s.monthly} => s.initial \in Nat /\ o.horizon * s.monthly \in Nat
      BY <1>1, TimesType DEF Known
    <3> QED BY <3>1 DEF Verifier!Unknown, Unknown, Known
  <2> HIDE DEF budget, criteria
  <2>3. ASSUME budget # Unknown, sums.tco # Unknown, budget > 0
        PROVE  Verifier!Cents(PointScale * Verifier!Larger(0, 100 * budget - sums.tco * 50), budget) \in Nat
    <3>1. budget \in Nat \ {0} /\ sums.tco \in Nat
      BY <2>2, <2>3 DEF Known
    <3>2. 100 * budget - sums.tco * 50 \in Int
      BY <3>1
    <3>3. PointScale * Verifier!Larger(0, 100 * budget - sums.tco * 50) \in Nat
      BY <3>2, LargerType, TimesType, ScaleAssumption
    <3> QED BY <3>1, <3>3, CentsType
  <2>4. PointScale * 100 \in Nat
    BY ScaleAssumption
  <2> QED BY <2>1, <2>3, <2>4 DEF Verifier!Unknown, Unknown, Known
<1>5. criteria["performance"] \in Known
  BY <1>2, VerifierNames, GroupsFinite DEF Verifier!ExpectedCriteria
<1>6. criteria["resilience"] \in Known
  <2>1. criteria["resilience"] = IF Verifier!Unknown \in Verifier!ToSet(rto) THEN Verifier!Unknown
                                 ELSE Verifier!MeanPoints(plan.rto, rtoAtLeast)
    BY VerifierNames, GroupsFinite DEF Verifier!ExpectedCriteria
  <2> HIDE DEF criteria, rto, rtoAtLeast
  <2> QED BY <1>3, <2>1 DEF Verifier!Unknown, Unknown, Known
<1>7. criteria["operations"] \in Known
  <2>1. criteria["operations"] = IF s.staff = Verifier!Unknown THEN Verifier!Unknown
                                 ELSE Verifier!Cents(PointScale * 100 * Verifier!Larger(0, people - plan.staff), people)
    BY VerifierNames, GroupsFinite DEF Verifier!ExpectedCriteria
  <2>2. ASSUME s.staff # Unknown
        PROVE  Verifier!Cents(PointScale * 100 * Verifier!Larger(0, people - plan.staff), people) \in Nat
    <3>1. people \in Nat \ {0} /\ people - plan.staff \in Int /\ PointScale * 100 \in Nat
      BY <1>1, <2>2, ScaleAssumption, SMTT(30) DEF Known
    <3> HIDE DEF people
    <3>2. (PointScale * 100) * Verifier!Larger(0, people - plan.staff) \in Nat
      BY <3>1, LargerType, TimesType
    <3> QED BY <3>1, <3>2, CentsType
  <2> HIDE DEF criteria, people
  <2> QED BY <2>1, <2>2 DEF Verifier!Unknown, Unknown, Known
<1>8. criteria["governance"] \in Known
  <2>1. criteria["governance"] = PointScale * Verifier!Smaller(100, plan.governance)
    BY VerifierNames, GroupsFinite DEF Verifier!ExpectedCriteria
  <2>2. Verifier!Smaller(100, plan.governance) \in Nat
    BY <1>1 DEF Verifier!Smaller
  <2> HIDE DEF criteria
  <2> QED BY <2>1, <2>2, ScaleAssumption, TimesType DEF Known
<1>9. criteria = [g \in GroupSet |-> criteria[g]]
  BY VerifierNames DEF Verifier!ExpectedCriteria
<1> HIDE DEF criteria
<1>10. \A g \in GroupSet : criteria[g] \in Known
  BY <1>4, <1>5, <1>6, <1>7, <1>8, GroupsFinite
<1> QED BY <1>9, <1>10 DEF criteria
-------------------------------------------------------------------------------
(* The first of an ordered list is a best one.                             *)

LEMMA BeforeOrders ==
  /\ \A a : ~Before(a, a)
  /\ \A a, b, c : Before(a, b) /\ Before(b, c) => Before(a, c)
<1>1. DOMAIN PlanKeys = 1..4
  BY DEF PlanKeys
<1>2. \A i, j \in 1..4 : PlanKeys[i] = PlanKeys[j] => i = j
  BY DEF PlanKeys
<1>3. \A a, b : Before(a, b) <=> \E i, j \in 1..4 : i < j /\ PlanKeys[i] = a /\ PlanKeys[j] = b
  BY <1>1 DEF Before
<1> HIDE DEF PlanKeys
<1> QED BY <1>2, <1>3

(* In a finite set something is beaten by nothing.                         *)
LEMMA Unbeaten ==
  ASSUME NEW S, IsFiniteSet(S), S # {}, NEW R \in SUBSET (S \X S),
         \A a \in S : <<a, a>> \notin R,
         \A a, b, c \in S : <<a, b>> \in R /\ <<b, c>> \in R => <<a, c>> \in R
  PROVE  \E a \in S : \A b \in S : <<b, a>> \notin R
<1> DEFINE better(a) == {b \in S : <<b, a>> \in R}
           T == {better(a) : a \in S}
<1>1. PICK x \in T : \A t \in T : <<t, x>> \notin StrictSubsetOrdering(S)
  <2>1. T \subseteq SUBSET S
    BY ZenonT(60)
  <2>2. T # {}
    <3>1. PICK a \in S : TRUE
      OBVIOUS
    <3>2. better(a) \in T
      OBVIOUS
    <3> QED BY <3>2
  <2>3. IsWellFoundedOn(StrictSubsetOrdering(S), SUBSET S)
    BY SubsetsWellFounded
  <2> HIDE DEF T
  <2> QED BY <2>1, <2>2, <2>3, WFMin
<1>2. PICK a \in S : x = better(a)
  OBVIOUS
<1>3. ASSUME NEW b \in S, <<b, a>> \in R PROVE FALSE
  <2>1. better(b) \subseteq better(a)
    BY <1>3
  <2>2. b \in better(a) /\ b \notin better(b)
    BY <1>3
  <2>3. better(b) \in T /\ better(b) \in SUBSET S /\ better(a) \in SUBSET S
    BY SMTT(30)
  <2>4. <<better(b), better(a)>> \in StrictSubsetOrdering(S)
    <3> HIDE DEF better
    <3> QED BY <2>1, <2>2, <2>3 DEF StrictSubsetOrdering
  <2> QED BY <1>1, <1>2, <2>3, <2>4
<1> QED BY <1>3

LEMMA VerifierCounts ==
  ASSUME NEW S PROVE Verifier!Cardinality(S) = Cardinality(S)
BY DEF Verifier!Cardinality, Cardinality

LEMMA HeadIsBest ==
  ASSUME NEW S, IsFiniteSet(S), S # {}, NEW f \in [S -> Int], NEW q,
         q = Verifier!Ordered(S, f)
  PROVE  Head(q) \in S /\ \A b \in S : f[b] <= f[Head(q)]
<1> DEFINE better(a) == {b \in S : f[b] > f[a] \/ (f[b] = f[a] /\ Verifier!Before(b, a))}
           R == {p \in S \X S : p[1] \in better(p[2])}
<1>1. \E a \in S : \A b \in S : <<b, a>> \notin R
  <2>1. \A a, b \in S : <<a, b>> \in R <=> f[a] > f[b] \/ (f[a] = f[b] /\ Verifier!Before(a, b))
    OBVIOUS
  <2>2. \A a \in S : <<a, a>> \notin R
    BY <2>1, BeforeOrders, VerifierNames
  <2>3. \A a, b, c \in S : <<a, b>> \in R /\ <<b, c>> \in R => <<a, c>> \in R
    <3>1. SUFFICES ASSUME NEW a \in S, NEW b \in S, NEW c \in S, <<a, b>> \in R, <<b, c>> \in R
                   PROVE  <<a, c>> \in R
      OBVIOUS
    <3>2. f[a] \in Int /\ f[b] \in Int /\ f[c] \in Int
      OBVIOUS
    <3> HIDE DEF R
    <3> QED BY <2>1, <3>1, <3>2, BeforeOrders, VerifierNames
  <2>4. R \in SUBSET (S \X S)
    OBVIOUS
  <2> HIDE DEF R
  <2> QED BY <2>2, <2>3, <2>4, Unbeaten
<1>2. PICK a \in S : better(a) = {}
  BY <1>1
<1>3. \A b \in S : Verifier!Cardinality(better(b)) = 0 <=> better(b) = {}
  <2>1. ASSUME NEW b \in S PROVE Verifier!Cardinality(better(b)) = 0 <=> better(b) = {}
    <3>1. IsFiniteSet(better(b))
      BY FS_Subset
    <3> HIDE DEF better
    <3> QED BY <3>1, FS_EmptySet, VerifierCounts
  <2> QED BY <2>1
<1>4. Verifier!Cardinality(S) \in Nat /\ Verifier!Cardinality(S) # 0
  BY FS_EmptySet, FS_CardinalityType, VerifierCounts
<1>5. Head(q) = CHOOSE c \in S : Verifier!Cardinality(better(c)) = 1 - 1
  <2>1. 1 \in 1..Verifier!Cardinality(S) /\ 1 - 1 = 0
    BY <1>4
  <2>2. q = [i \in 1..Verifier!Cardinality(S) |-> CHOOSE c \in S : Verifier!Cardinality(better(c)) = i - 1]
    BY DEF Verifier!Ordered
  <2> HIDE DEF better
  <2>3. q[1] = CHOOSE c \in S : Verifier!Cardinality(better(c)) = 1 - 1
    BY <2>1, <2>2
  <2>4. Head(q) = q[1]
    BY <1>4, <2>2
  <2> QED BY <2>3, <2>4
<1>6. Head(q) \in S /\ better(Head(q)) = {}
  <2> HIDE DEF better
  <2>1. \E c \in S : Verifier!Cardinality(better(c)) = 1 - 1
    BY <1>2, <1>3
  <2>2. Head(q) \in S /\ Verifier!Cardinality(better(Head(q))) = 1 - 1
    BY <1>5, <2>1
  <2> DEFINE c == Head(q)
  <2>3. c \in S /\ Verifier!Cardinality(better(c)) = 0
    BY <2>2
  <2>4. better(c) = {}
    <3> HIDE DEF c
    <3> QED BY <1>3, <2>3
  <2> QED BY <2>3, <2>4
<1> DEFINE h == Head(q)
<1>7. \A b \in S : ~(f[b] > f[h])
  BY <1>6
<1>8. h \in S /\ \A b \in S : f[b] \in Int
  BY <1>6
<1>9. \A b \in S : f[b] <= f[h]
  <2> HIDE DEF h
  <2> QED BY <1>7, <1>8
<1> QED BY <1>8, <1>9
-------------------------------------------------------------------------------
(* What a result that the verifier accepts recommends.                     *)

LEMMA KeysFinite ==
  /\ IsFiniteSet(Verifier!Keys)
  /\ \A k \in Verifier!Keys : Verifier!PlanOf(k) \in CatalogPlans /\ Verifier!PlanOf(k).key = k
<1> DEFINE n == Len(Catalog.plans)
           keys == [i \in 1..n |-> Catalog.plans[i].key]
<1>1. n \in Nat /\ DOMAIN Catalog.plans = 1..n /\ \A i \in 1..n : Catalog.plans[i] \in CatalogPlans
  BY CatalogAssumption
<1>2. keys \in Surjection(1..n, Verifier!Keys)
  BY <1>1 DEF Surjection, Verifier!Keys
<1>3. IsFiniteSet(Verifier!Keys)
  <2> HIDE DEF keys
  <2> QED BY <1>1, <1>2, Interval, FS_Surjection
<1>4. ASSUME NEW k \in Verifier!Keys
      PROVE  Verifier!PlanOf(k) \in CatalogPlans /\ Verifier!PlanOf(k).key = k
  <2>1. \E i \in DOMAIN Catalog.plans : Catalog.plans[i].key = k
    BY DEF Verifier!Keys
  <2> QED BY <1>1, <2>1 DEF Verifier!PlanOf
<1> QED BY <1>3, <1>4

(* What the verifier expects of a plan that it holds for eligible.         *)
LEMMA EligibleMeans ==
  ASSUME NEW s \in ScenarioInputs, NEW o \in OptionInputs, NEW k \in Verifier!Keys,
         Verifier!Expected(s, o, k).status = "ELIGIBLE"
  PROVE  LET e == Verifier!Expected(s, o, k)
             plan == Verifier!PlanOf(k)
         IN  /\ e.score \in Nat
             /\ s.region = "EU" /\ plan.staff <= s.staff
             /\ o.date \in Catalog.priceDate..Catalog.validUntil
             /\ \A l \in e.lines : l.total # Unknown /\ l.price \in 0..MaxPrice
             /\ s.hard => /\ Unknown \notin {s.initial, s.monthly}
                          /\ e.sums.startup <= s.initial
                          /\ e.sums.tco - e.sums.startup <= s.monthly * o.horizon
             /\ \A i \in DOMAIN s.workloads : MeetsDemands(plan, s.workloads[i])
<1> DEFINE e == Verifier!Expected(s, o, k)
           plan == Verifier!PlanOf(k)
           h == o.horizon
           lines == Verifier!ExpectedLines(s, plan, h)
           sums == Verifier!ExpectedSums(lines, h)
           states == Verifier!ExpectedStates(s, o, plan, sums)
           criteria == Verifier!ExpectedCriteria(s, o, plan, sums)
<1>1. plan \in CatalogPlans /\ h \in Nat \ {0}
  BY KeysFinite DEF OptionInputs
<1>2. /\ e.lines = lines /\ e.sums = sums
      /\ \A state \in states : state[2] \notin {"FAIL", "UNKNOWN"}
      /\ sums.complete
      /\ e.score = Verifier!WeightedPoints(criteria, RawWeights(o))
  BY ExpectedParts, VerifierNames
<1> HIDE DEF e, plan, h
<1>3. IsFiniteSet(lines) /\ \A l \in lines : LineFits(l, h)
  BY <1>1, LinesFit
<1>4. /\ \A l \in lines : l.total # Unknown
      /\ sums.tco \in Nat /\ sums.startup \in Nat /\ sums.monthly \in Nat
      /\ sums.tco - sums.startup = h * sums.monthly
  <2> HIDE DEF lines
  <2> QED BY <1>1, <1>2, <1>3, SumsAddUp
<1> HIDE DEF lines, sums
<1>5. /\ o.date \in Catalog.priceDate..Catalog.validUntil
      /\ s.region = "EU" /\ plan.staff <= s.staff
      /\ s.hard => /\ Unknown \notin {s.initial, s.monthly}
                   /\ sums.startup <= s.initial /\ sums.monthly <= s.monthly
  BY <1>2, StatesMet
<1>6. ASSUME s.hard PROVE sums.tco - sums.startup <= s.monthly * o.horizon
  <2>1. sums.monthly <= s.monthly /\ s.monthly \in Nat
    BY <1>5, <1>6 DEF ScenarioInputs, Known
  <2>2. h * sums.monthly <= h * s.monthly
    BY <1>1, <1>4, <2>1
  <2>3. h * s.monthly = s.monthly * h
    BY <1>1, <2>1
  <2> QED BY <1>4, <2>2, <2>3 DEF h
<1>7. \A i \in DOMAIN s.workloads : MeetsDemands(plan, s.workloads[i])
  <2>1. ASSUME NEW i \in DOMAIN s.workloads PROVE MeetsDemands(plan, s.workloads[i])
    <3> HIDE DEF states
    <3>1. \A state \in Verifier!ExpectedStates(s, o, plan, sums) : state[2] \notin {"FAIL", "UNKNOWN"}
      BY <1>2 DEF states
    <3> QED BY <1>1, <3>1, WorkloadMet
  <2> QED BY <2>1
<1>8. e.score \in Nat
  <2>1. criteria \in [GroupSet -> Known]
    BY <1>1, <1>4, CriteriaType DEF Known
  <2>2. RawWeights(o) \in [GroupSet -> Nat] /\ \E g \in GroupSet : RawWeights(o)[g] > 0
    BY WeightsType
  <2> HIDE DEF criteria
  <2> QED BY <1>2, <2>1, <2>2, WeightedType
<1>9. \A l \in lines : l.price \in 0..MaxPrice
  BY <1>3, <1>4 DEF LineFits
<1> QED BY <1>2, <1>4, <1>5, <1>6, <1>7, <1>8, <1>9 DEF e, plan, states

LEMMA ValidRests ==
  ASSUME NEW s \in ScenarioInputs, NEW o \in OptionInputs, NEW r, Verifier!Valid(s, o, r),
         r.recommended # "none"
  PROVE  \E c \in ToSet(r.candidates) :
           /\ c.key = r.recommended /\ c.key \in Verifier!Keys
           /\ Verifier!Expected(s, o, c.key).status = "ELIGIBLE"
           /\ Verifier!CandidateHolds(s, c, Verifier!Expected(s, o, c.key))
           /\ \A d \in ToSet(r.candidates) :
                d.status = "EXCLUDED" \/ (d.status = "ELIGIBLE" /\ d.score <= c.score)
<1> DEFINE Exp(k) == Verifier!Expected(s, o, k)
           E == {Exp(k) : k \in Verifier!Keys}
           S == {e.key : e \in {x \in E : x.status = "ELIGIBLE"}}
           of(k) == CHOOSE e \in E : e.key = k
           f == [k \in S |-> of(k).score]
           q == Verifier!Ordered(S, f)
<1>1. \A k \in Verifier!Keys : Exp(k).key = k
  BY ExpectedParts
<1>2. \A k \in Verifier!Keys : of(k) = Exp(k)
  <2> HIDE DEF Exp
  <2> QED BY <1>1
<1>3. S = {k \in Verifier!Keys : Exp(k).status = "ELIGIBLE"}
  <2> HIDE DEF Exp
  <2> QED BY <1>1
<1>4. /\ {c.key : c \in ToSet(r.candidates)} = Verifier!Keys
      /\ \A c \in ToSet(r.candidates) : Verifier!CandidateHolds(s, c, of(c.key))
      /\ Verifier!ConclusionHolds(o, r, E)
  BY Zenon DEF Verifier!Valid, Verifier!ToSet, ToSet
<1> HIDE DEF Exp
<1>5. /\ \A e \in E : e.status # "INDETERMINATE"
      /\ S # {} /\ r.recommended = Head(q)
  <2> HIDE DEF E
  <2> QED BY <1>4, Zenon DEF Verifier!ConclusionHolds
<1>6. f \in [S -> Int] /\ IsFiniteSet(S)
  <2>1. \A k \in S : Exp(k).score \in Nat
    BY <1>3, EligibleMeans DEF Exp
  <2>2. IsFiniteSet(S)
    <3> HIDE DEF S
    <3> QED BY <1>3, KeysFinite, FS_Subset
  <2>3. \A k \in S : of(k).score \in Int
    <3> HIDE DEF S, of
    <3> QED BY <1>2, <1>3, <2>1
  <2> HIDE DEF S, of
  <2> QED BY <2>2, <2>3
<1>7. Head(q) \in S /\ \A b \in S : f[b] <= f[Head(q)]
  <2> HIDE DEF S, f
  <2> QED BY <1>5, <1>6, HeadIsBest
<1> DEFINE k == r.recommended
<1>8. k \in Verifier!Keys /\ Exp(k).status = "ELIGIBLE" /\ \A b \in S : Exp(b).score <= Exp(k).score
  <2> HIDE DEF S, of, q
  <2>1. k \in S /\ \A b \in S : f[b] <= f[k]
    BY <1>5, <1>7
  <2>2. \A b \in S : f[b] = Exp(b).score
    BY <1>2, <1>3
  <2> HIDE DEF f, k
  <2> QED BY <1>3, <2>1, <2>2
<1> HIDE DEF k
<1>9. PICK c \in ToSet(r.candidates) : c.key = k
  BY <1>4, <1>8
<1>10. \A d \in ToSet(r.candidates) :
         d.key \in Verifier!Keys /\ Verifier!CandidateHolds(s, d, Exp(d.key))
  <2> HIDE DEF of
  <2> QED BY <1>2, <1>4
<1>11. ASSUME NEW d \in ToSet(r.candidates)
       PROVE  d.status = "EXCLUDED" \/ (d.status = "ELIGIBLE" /\ d.score <= c.score)
  <2>1. /\ d.key \in Verifier!Keys /\ d.status = Exp(d.key).status /\ d.score = Exp(d.key).score
        /\ c.score = Exp(k).score
    BY <1>9, <1>10 DEF Verifier!CandidateHolds
  <2>2. Exp(d.key).status \in {"EXCLUDED", "INDETERMINATE", "ELIGIBLE"}
    BY DEF Verifier!Expected, Exp
  <2>3. Exp(d.key) \in E
    BY <2>1
  <2>4. Exp(d.key).status = "ELIGIBLE" => d.key \in S
    <3> HIDE DEF S
    <3> QED BY <1>3, <2>1
  <2> HIDE DEF S, E
  <2> QED BY <1>5, <1>8, <2>1, <2>2, <2>3, <2>4
<1> QED BY <1>8, <1>9, <1>10, <1>11 DEF k, Exp
-------------------------------------------------------------------------------
(* Edits keep a scenario within what the validation lets through.          *)

PositiveFields == {"user_count", "vcpu_count", "memory_gib", "max_latency_ms"}
Fields == MeasuredFields \cup {"key", "type", "internet", "sensitivity"}

LEMMA WorkloadFields ==
  ASSUME NEW w \in WorkloadInputs
  PROVE  DOMAIN w = Fields
BY DEF WorkloadInputs, Fields, MeasuredFields

LEMMA ScenarioFields ==
  ASSUME NEW s \in ScenarioInputs
  PROVE  DOMAIN s = {"workloads", "staff", "initial", "monthly", "hard", "region"}
BY DEF ScenarioInputs

(* One field of one workload has another value.                            *)
LEMMA FieldEdit ==
  ASSUME NEW s \in ScenarioInputs, NEW i \in DOMAIN s.workloads, NEW f \in Fields, NEW v,
         NEW t, t = [s EXCEPT !.workloads[i][f] = v]
  PROVE  /\ t = [s EXCEPT !.workloads = t.workloads]
         /\ t.workloads = [s.workloads EXCEPT ![i] = [s.workloads[i] EXCEPT ![f] = v]]
<1>1. "workloads" \in DOMAIN s
  BY ScenarioFields
<1> QED BY <1>1

LEMMA WorkloadEdit ==
  ASSUME NEW w \in WorkloadInputs, NEW f \in Fields, NEW v,
         f \in MeasuredFields => v \in Known,
         f \in PositiveFields => v # 0,
         f = "internet" => v \in {"yes", "no", "unknown"},
         f = "sensitivity" => v \in Sensitivities,
         f \in {"key", "type"} => v \in STRING
  PROVE  [w EXCEPT ![f] = v] \in WorkloadInputs
<1> DEFINE u == [w EXCEPT ![f] = v]
<1>1. DOMAIN u = Fields /\ \A g \in Fields : u[g] = IF g = f THEN v ELSE w[g]
  BY WorkloadFields
<1>2. u = [g \in Fields |-> u[g]]
  BY <1>1
<1> HIDE DEF u
<1>3. u = [key |-> u.key, type |-> u.type, user_count |-> u.user_count, vcpu_count |-> u.vcpu_count,
           memory_gib |-> u.memory_gib, storage_gib |-> u.storage_gib,
           max_latency_ms |-> u.max_latency_ms, availability_percent |-> u.availability_percent,
           rto_seconds |-> u.rto_seconds, rpo_seconds |-> u.rpo_seconds, internet |-> u.internet,
           sensitivity |-> u.sensitivity]
  BY <1>2 DEF Fields, MeasuredFields
<1>4. \A g \in MeasuredFields : w[g] \in Known
  BY DEF WorkloadInputs, MeasuredFields, Positive
<1>5. \A g \in MeasuredFields : u[g] \in Known
  BY <1>1, <1>4 DEF Fields
<1>8. \A g \in PositiveFields : u[g] # 0
  BY <1>1 DEF WorkloadInputs, PositiveFields, Positive, Fields, MeasuredFields
<1>6. u.internet \in {"yes", "no", "unknown"}
      /\ u.sensitivity \in Sensitivities
      /\ u.key \in STRING /\ u.type \in STRING
  BY <1>1 DEF WorkloadInputs, Fields, MeasuredFields
<1>7. u \in WorkloadInputs
  BY <1>3, <1>5, <1>6, <1>8 DEF WorkloadInputs, MeasuredFields, Positive, PositiveFields
<1> QED BY <1>7 DEF u
-------------------------------------------------------------------------------

Edited(s, i, f, v) == [s EXCEPT !.workloads[i][f] = v]
Changed(s, f, v) == [s EXCEPT ![f] = v]

(* What an edit of one field of one workload leaves as it was.             *)
LEMMA WorkloadEdited ==
  ASSUME NEW s \in ScenarioInputs, NEW i \in DOMAIN s.workloads, NEW f \in Fields, NEW v,
         f \in MeasuredFields => v \in Known,
         f \in PositiveFields => v # 0,
         f = "internet" => v \in {"yes", "no", "unknown"},
         f = "sensitivity" => v \in Sensitivities,
         f \notin {"key", "type"},
         NEW t, t = Edited(s, i, f, v)
  PROVE  /\ t \in ScenarioInputs
         /\ t.staff = s.staff /\ t.initial = s.initial /\ t.monthly = s.monthly
         /\ t.hard = s.hard /\ t.region = s.region
         /\ DOMAIN t.workloads = DOMAIN s.workloads
         /\ \A j \in DOMAIN s.workloads : \A g \in Fields :
              t.workloads[j][g] = IF j = i /\ g = f THEN v ELSE s.workloads[j][g]
<1> DEFINE w == [s.workloads[i] EXCEPT ![f] = v]
<1>1. s.workloads \in Seq(WorkloadInputs) /\ s.workloads # <<>> /\ s.workloads[i] \in WorkloadInputs
  BY DEF ScenarioInputs
<1>2. w \in WorkloadInputs
  BY <1>1, WorkloadEdit
<1>3. t.workloads = [s.workloads EXCEPT ![i] = w] /\ t = [s EXCEPT !.workloads = t.workloads]
  BY FieldEdit DEF Edited
<1>4. \A g \in Fields : w[g] = IF g = f THEN v ELSE s.workloads[i][g]
  BY <1>1, WorkloadFields
<1> HIDE DEF w
<1>5. t.workloads \in Seq(WorkloadInputs) /\ DOMAIN t.workloads = DOMAIN s.workloads
      /\ \A j \in DOMAIN s.workloads : t.workloads[j] = IF j = i THEN w ELSE s.workloads[j]
  BY <1>1, <1>2, <1>3
<1>6. t.workloads # <<>>
  BY <1>5
<1>7. \A j \in DOMAIN s.workloads : t.workloads[j].key = s.workloads[j].key
  BY <1>4, <1>5 DEF Fields
<1>11. \A j, k \in DOMAIN t.workloads : t.workloads[j].key = t.workloads[k].key => j = k
  <2>1. \A j, k \in DOMAIN s.workloads : s.workloads[j].key = s.workloads[k].key => j = k
    BY DEF ScenarioInputs
  <2> QED BY <1>5, <1>7, <2>1
<1>12. t \in ScenarioInputs
  <2>1. s \in [workloads : Seq(WorkloadInputs) \ {<<>>}, staff : Known, initial : Known,
               monthly : Known, hard : BOOLEAN, region : STRING]
    BY DEF ScenarioInputs
  <2>2. t \in [workloads : Seq(WorkloadInputs) \ {<<>>}, staff : Known, initial : Known,
               monthly : Known, hard : BOOLEAN, region : STRING]
    BY <1>3, <1>5, <1>6, <2>1
  <2> QED BY <1>11, <2>2 DEF ScenarioInputs
<1>8. /\ t.staff = s.staff /\ t.initial = s.initial /\ t.monthly = s.monthly
      /\ t.hard = s.hard /\ t.region = s.region
  BY <1>3 DEF ScenarioInputs
<1>9. ASSUME NEW j \in DOMAIN s.workloads, NEW g \in Fields
      PROVE  t.workloads[j][g] = IF j = i /\ g = f THEN v ELSE s.workloads[j][g]
  <2>1. CASE j = i
    <3>1. t.workloads[j] = w
      BY <1>5, <2>1
    <3> QED BY <1>4, <2>1, <3>1
  <2>2. CASE j # i
    BY <1>5, <2>2
  <2> QED BY <2>1, <2>2
<1>10. DOMAIN t.workloads = DOMAIN s.workloads
  BY <1>5
<1> QED BY <1>12, <1>8, <1>9, <1>10

LEMMA ProfileEdited ==
  ASSUME NEW s \in ScenarioInputs, NEW f \in ProfileFields, NEW v \in Known,
         NEW t, t = Changed(s, f, v)
  PROVE  /\ t \in ScenarioInputs
         /\ t.workloads = s.workloads /\ t.hard = s.hard /\ t.region = s.region
         /\ \A g \in ProfileFields : t[g] = IF g = f THEN v ELSE s[g]
<1>1. CASE f = "staff"
  BY <1>1 DEF ScenarioInputs, ProfileFields, Changed
<1>2. CASE f = "initial"
  BY <1>2 DEF ScenarioInputs, ProfileFields, Changed
<1>3. CASE f = "monthly"
  BY <1>3 DEF ScenarioInputs, ProfileFields, Changed
<1> QED BY <1>1, <1>2, <1>3 DEF ProfileFields

SameNames(s, t) ==
  /\ DOMAIN t.workloads = DOMAIN s.workloads
  /\ \A i \in DOMAIN s.workloads :
       t.workloads[i].key = s.workloads[i].key /\ t.workloads[i].type = s.workloads[i].type

LEMMA ForgottenKnowsLess ==
  ASSUME NEW s \in ScenarioInputs, NEW t \in Forgotten(s)
  PROVE  t \in ScenarioInputs /\ SameNames(s, t) /\ LessKnown(s, t)
<1>1. CASE \E f \in ProfileFields : t = [s EXCEPT ![f] = Unknown]
  <2>1. PICK f \in ProfileFields : t = Changed(s, f, Unknown)
    BY <1>1 DEF Changed
  <2>2. Unknown \in Known
    BY DEF Known
  <2>3. /\ t.workloads = s.workloads /\ t.hard = s.hard /\ t.region = s.region
        /\ t \in ScenarioInputs /\ \A g \in ProfileFields : t[g] = IF g = f THEN Unknown ELSE s[g]
    BY <2>1, <2>2, ProfileEdited
  <2> QED BY <2>3 DEF SameNames, LessKnown
<1>2. CASE \E i \in DOMAIN s.workloads : \E f \in MeasuredFields :
             t = [s EXCEPT !.workloads[i][f] = Unknown]
  <2>1. PICK i \in DOMAIN s.workloads, f \in MeasuredFields :
          t = Edited(s, i, f, Unknown)
    BY <1>2 DEF Edited
  <2>2. Unknown \in Known /\ Unknown # 0 /\ f \in Fields
        /\ f \notin {"internet", "sensitivity", "key", "type"}
    BY DEF Known, Unknown, Fields, MeasuredFields
  <2>3. /\ t \in ScenarioInputs
        /\ t.staff = s.staff /\ t.initial = s.initial /\ t.monthly = s.monthly
        /\ t.hard = s.hard /\ t.region = s.region
        /\ DOMAIN t.workloads = DOMAIN s.workloads
        /\ \A j \in DOMAIN s.workloads : \A g \in Fields :
             t.workloads[j][g] = IF j = i /\ g = f THEN Unknown ELSE s.workloads[j][g]
    BY <2>1, <2>2, WorkloadEdited
  <2> QED BY <2>2, <2>3 DEF SameNames, LessKnown, Fields, ProfileFields
<1>3. CASE \E i \in DOMAIN s.workloads : \E f \in {"internet", "sensitivity"} :
             t = [s EXCEPT !.workloads[i][f] = "unknown"]
  <2>1. PICK i \in DOMAIN s.workloads, f \in {"internet", "sensitivity"} :
          t = Edited(s, i, f, "unknown")
    BY <1>3 DEF Edited
  <2>2. f \in Fields /\ f \notin MeasuredFields /\ f \notin PositiveFields
        /\ "unknown" \in {"yes", "no", "unknown"}
        /\ f \notin {"key", "type"} /\ "unknown" \in Sensitivities
    BY DEF Sensitivities, Fields, MeasuredFields, PositiveFields
  <2>3. /\ t \in ScenarioInputs
        /\ t.staff = s.staff /\ t.initial = s.initial /\ t.monthly = s.monthly
        /\ t.hard = s.hard /\ t.region = s.region
        /\ DOMAIN t.workloads = DOMAIN s.workloads
        /\ \A j \in DOMAIN s.workloads : \A g \in Fields :
             t.workloads[j][g] = IF j = i /\ g = f THEN "unknown" ELSE s.workloads[j][g]
    BY <2>1, <2>2, WorkloadEdited
  <2> QED BY <2>2, <2>3 DEF SameNames, LessKnown, Fields, ProfileFields
<1> QED BY <1>1, <1>2, <1>3 DEF Forgotten

\* t asks for at least as much as s, with at most as much
TighterWorkload(w, u) ==
  /\ u.internet = w.internet
  /\ u.sensitivity \in {w.sensitivity, "RESTRICTED"} /\ (w.sensitivity = "unknown" => u.sensitivity = "unknown")
  /\ \A f \in MeasuredFields : (u[f] = Unknown) = (w[f] = Unknown)
  /\ \A f \in {"max_latency_ms", "rto_seconds", "rpo_seconds"} : u[f] <= w[f]
  /\ \A f \in {"user_count", "vcpu_count", "memory_gib", "storage_gib", "availability_percent"} :
       u[f] >= w[f]
TighterThan(s, t) ==
  /\ t.region = s.region /\ (s.hard => t.hard)
  /\ \A f \in ProfileFields : (t[f] = Unknown) = (s[f] = Unknown) /\ t[f] <= s[f]
  /\ \A i \in DOMAIN s.workloads : TighterWorkload(s.workloads[i], t.workloads[i])

LEMMA ScenarioNumbers ==
  ASSUME NEW s \in ScenarioInputs
  PROVE  /\ \A f \in ProfileFields : s[f] \in Known
         /\ \A i \in DOMAIN s.workloads :
              s.workloads[i] \in WorkloadInputs /\ \A f \in MeasuredFields : s.workloads[i][f] \in Known
<1>1. ASSUME NEW w \in WorkloadInputs PROVE \A f \in MeasuredFields : w[f] \in Known
  BY DEF WorkloadInputs, MeasuredFields, Positive
<1>2. \A i \in DOMAIN s.workloads : s.workloads[i] \in WorkloadInputs
  BY DEF ScenarioInputs
<1>3. \A f \in ProfileFields : s[f] \in Known
  BY DEF ScenarioInputs, ProfileFields
<1> QED BY <1>1, <1>2, <1>3

LEMMA TightenedIsTighter ==
  ASSUME NEW s \in ScenarioInputs, NEW t \in Tightened(s)
  PROVE  t \in ScenarioInputs /\ SameNames(s, t) /\ TighterThan(s, t)
<1> DEFINE Lowered == {"max_latency_ms", "rto_seconds", "rpo_seconds"}
           Raised == {"user_count", "vcpu_count", "memory_gib", "storage_gib", "availability_percent"}
<1>0. /\ \A f \in ProfileFields : s[f] \in Int
      /\ \A i \in DOMAIN s.workloads : \A f \in MeasuredFields : s.workloads[i][f] \in Int
  BY ScenarioNumbers DEF Known, Unknown
<1>1. CASE t = [s EXCEPT !.hard = TRUE]
  <2>1. t \in ScenarioInputs /\ t.workloads = s.workloads /\ t.hard /\ t.region = s.region
        /\ t.staff = s.staff /\ t.initial = s.initial /\ t.monthly = s.monthly
    BY <1>1 DEF ScenarioInputs
  <2> QED BY <1>0, <2>1
        DEF SameNames, TighterThan, TighterWorkload, ProfileFields, MeasuredFields
<1>2. CASE \E f \in ProfileFields : s[f] > 0 /\ t = [s EXCEPT ![f] = @ \div 2]
  <2>1. PICK f \in ProfileFields : s[f] > 0 /\ t = [s EXCEPT ![f] = @ \div 2]
    BY <1>2
  <2>2. s[f] \in Nat /\ s[f] \div 2 \in Nat /\ s[f] \div 2 <= s[f]
    BY <2>1, ScenarioNumbers DEF Known, Unknown
  <2>3. s[f] \div 2 \in Known /\ s[f] # Unknown /\ s[f] \div 2 # Unknown
    BY <2>2 DEF Known, Unknown
  <2>4. f \in DOMAIN s
    BY DEF ProfileFields, ScenarioInputs
  <2>5. t = Changed(s, f, s[f] \div 2)
    BY <2>1, <2>4 DEF Changed
  <2> DEFINE v == s[f] \div 2
  <2> HIDE DEF v
  <2>6. /\ t \in ScenarioInputs
        /\ t.workloads = s.workloads /\ t.hard = s.hard /\ t.region = s.region
        /\ \A g \in ProfileFields : t[g] = IF g = f THEN v ELSE s[g]
    BY <2>3, <2>5, ProfileEdited DEF v
  <2> QED BY <1>0, <2>2, <2>3, <2>6
        DEF SameNames, TighterThan, TighterWorkload, ProfileFields, MeasuredFields, v
<1>3. ASSUME NEW i \in DOMAIN s.workloads, NEW f \in Fields, NEW v,
             f \in MeasuredFields => v \in Known,
             f \in PositiveFields => v # 0,
             f \notin {"internet", "key", "type"},
             f = "sensitivity" => v \in Sensitivities,
         f \notin {"key", "type"},
             t = Edited(s, i, f, v),
             f \in MeasuredFields => s.workloads[i][f] # Unknown /\ v # Unknown,
             f \in Lowered => v <= s.workloads[i][f],
             f \in Raised => v >= s.workloads[i][f],
             f = "sensitivity" => /\ v \in {s.workloads[i][f], "RESTRICTED"}
                                  /\ s.workloads[i][f] = "unknown" => v = "unknown"
      PROVE  t \in ScenarioInputs /\ SameNames(s, t) /\ TighterThan(s, t)
  <2>1. /\ t \in ScenarioInputs
        /\ t.staff = s.staff /\ t.initial = s.initial /\ t.monthly = s.monthly
        /\ t.hard = s.hard /\ t.region = s.region
        /\ DOMAIN t.workloads = DOMAIN s.workloads
        /\ \A j \in DOMAIN s.workloads : \A g \in Fields :
             t.workloads[j][g] = IF j = i /\ g = f THEN v ELSE s.workloads[j][g]
    BY <1>3, WorkloadEdited
  <2>2. SameNames(s, t)
    BY <1>3, <2>1 DEF SameNames, Fields
  <2>3. ASSUME NEW j \in DOMAIN s.workloads
        PROVE  TighterWorkload(s.workloads[j], t.workloads[j])
    <3>1. t.workloads[j].internet = s.workloads[j].internet
      BY <1>3, <2>1 DEF Fields
    <3>2. /\ t.workloads[j].sensitivity \in {s.workloads[j].sensitivity, "RESTRICTED"}
          /\ s.workloads[j].sensitivity = "unknown" => t.workloads[j].sensitivity = "unknown"
      BY <1>3, <2>1 DEF Fields
    <3>3. \A g \in MeasuredFields : (t.workloads[j][g] = Unknown) = (s.workloads[j][g] = Unknown)
      BY <1>3, <2>1 DEF Fields
    <3>4. Lowered \subseteq MeasuredFields /\ Raised \subseteq MeasuredFields
      BY DEF MeasuredFields
    <3>5. \A g \in Lowered : t.workloads[j][g] <= s.workloads[j][g]
      <4>1. \A g \in Lowered : s.workloads[j][g] \in Int /\ g \in Fields
        BY <1>0, <3>4 DEF Fields
      <4> QED BY <1>3, <2>1, <4>1
    <3>6. \A g \in Raised : t.workloads[j][g] >= s.workloads[j][g]
      <4>1. \A g \in Raised : s.workloads[j][g] \in Int /\ g \in Fields
        BY <1>0, <3>4 DEF Fields
      <4> QED BY <1>3, <2>1, <4>1
    <3> QED BY <3>1, <3>2, <3>3, <3>5, <3>6 DEF TighterWorkload
  <2> QED BY <1>0, <2>1, <2>2, <2>3 DEF TighterThan, ProfileFields
<1>5. CASE \E i \in DOMAIN s.workloads : \E f \in Lowered :
             s.workloads[i][f] > 1 /\ t = [s EXCEPT !.workloads[i][f] = @ \div 2]
  <2>1. PICK i \in DOMAIN s.workloads, f \in Lowered :
          s.workloads[i][f] > 1 /\ t = [s EXCEPT !.workloads[i][f] = @ \div 2]
    BY <1>5
  <2>2. f \in MeasuredFields /\ f \in Fields /\ f \notin Raised
        /\ f \notin {"internet", "sensitivity", "key", "type"}
    BY DEF MeasuredFields, Fields, PositiveFields
  <2>3. t = Edited(s, i, f, s.workloads[i][f] \div 2)
    BY <2>1, <2>2 DEF Edited
  <2> DEFINE v == s.workloads[i][f] \div 2
  <2>4. s.workloads[i][f] \in Nat
    BY <2>1, <2>2, ScenarioNumbers DEF Known, Unknown
  <2>5. v \in Nat /\ v # 0 /\ v <= s.workloads[i][f]
    BY <2>1, <2>4
  <2>6. v \in Known /\ v # Unknown /\ s.workloads[i][f] # Unknown
    BY <2>4, <2>5 DEF Known, Unknown
  <2> HIDE DEF v
  <2> QED BY <1>3, <2>2, <2>3, <2>5, <2>6 DEF v
<1>6. CASE \E i \in DOMAIN s.workloads : \E f \in Raised :
             s.workloads[i][f] # Unknown /\ t = [s EXCEPT !.workloads[i][f] = @ + 1]
  <2>1. PICK i \in DOMAIN s.workloads, f \in Raised :
          s.workloads[i][f] # Unknown /\ t = [s EXCEPT !.workloads[i][f] = @ + 1]
    BY <1>6
  <2>2. f \in MeasuredFields /\ f \in Fields /\ f \notin Lowered
        /\ f \notin {"internet", "sensitivity", "key", "type"}
    BY DEF MeasuredFields, Fields
  <2>3. t = Edited(s, i, f, s.workloads[i][f] + 1)
    BY <2>1, <2>2 DEF Edited
  <2> DEFINE v == s.workloads[i][f] + 1
  <2>4. s.workloads[i][f] \in Nat
    BY <2>1, <2>2, ScenarioNumbers DEF Known
  <2>5. v \in Nat /\ v # 0 /\ v >= s.workloads[i][f]
    BY <2>1, <2>4
  <2>6. v \in Known /\ v # Unknown
    BY <2>4, <2>5 DEF Known, Unknown
  <2> HIDE DEF v
  <2> QED BY <1>3, <2>1, <2>2, <2>3, <2>5, <2>6 DEF v
<1>7. CASE \E i \in DOMAIN s.workloads :
             t = [s EXCEPT !.workloads[i].sensitivity = IF @ = "unknown" THEN @ ELSE "RESTRICTED"]
  <2>1. PICK i \in DOMAIN s.workloads :
          t = [s EXCEPT !.workloads[i].sensitivity = IF @ = "unknown" THEN @ ELSE "RESTRICTED"]
    BY <1>7
  <2> DEFINE v == IF s.workloads[i].sensitivity = "unknown" THEN s.workloads[i].sensitivity
                  ELSE "RESTRICTED"
  <2>2. t = Edited(s, i, "sensitivity", v)
    BY <2>1 DEF Edited
  <2>3. s.workloads[i].sensitivity \in Sensitivities
    BY ScenarioNumbers DEF WorkloadInputs
  <2> DEFINE old == s.workloads[i].sensitivity
  <2>4. v \in Sensitivities /\ (v = s.workloads[i]["sensitivity"] \/ v = "RESTRICTED")
        /\ (s.workloads[i]["sensitivity"] = "unknown" => v = "unknown")
    <3>1. CASE old = "unknown"
      BY <2>3, <3>1
    <3>2. CASE old # "unknown"
      BY <3>2 DEF Sensitivities
    <3> QED BY <3>1, <3>2
  <2>5. "sensitivity" \in Fields /\ "sensitivity" \notin MeasuredFields
        /\ "sensitivity" \notin Lowered /\ "sensitivity" \notin Raised
    BY DEF Fields, MeasuredFields, PositiveFields
  <2> HIDE DEF v
  <2>6. "sensitivity" \notin PositiveFields /\ "sensitivity" \notin {"internet", "key", "type"}
    BY DEF PositiveFields
  <2> QED BY <1>3, <2>2, <2>4, <2>5, <2>6
<1> HIDE DEF Lowered, Raised
<1> QED BY <1>1, <1>2, <1>5, <1>6, <1>7 DEF Tightened, Lowered, Raised
-------------------------------------------------------------------------------
(* The theorems about the verdict.                                         *)

LEMMA DraftFields ==
  ASSUME NEW s, NEW o
  PROVE  {"status", "recommended"} \subseteq DOMAIN Draft(s, o)
BY DEF Draft, Concluded

LEMMA DamagedFields ==
  ASSUME NEW d, {"status", "recommended"} \subseteq DOMAIN d,
         NEW e \in Damages(d) \cup Mistaken(d)
  PROVE  {"status", "recommended"} \subseteq DOMAIN e
<1>1. CASE e \in Mistaken(d)
  <2>1. PICK s \in Scenarios, o \in Options : e = [Draft(s, o) EXCEPT !.inputs = d.inputs]
    BY <1>1 DEF Mistaken
  <2> QED BY <2>1, DraftFields
<1>2. CASE e \in Damages(d)
  <2>1. ASSUME NEW rows, e = [d EXCEPT !.candidates = rows] PROVE DOMAIN e = DOMAIN d
    BY <2>1
  <2>2. ASSUME NEW rows, e = [d EXCEPT !.evidence = rows] PROVE DOMAIN e = DOMAIN d
    BY <2>2
  <2>3. ASSUME NEW key, e = [d EXCEPT !.recommended = key] PROVE DOMAIN e = DOMAIN d
    BY <2>3
  <2>4. ASSUME NEW x, e = [d EXCEPT !.status = x] PROVE DOMAIN e = DOMAIN d
    BY <2>4
  <2>5. ASSUME NEW g, e = [d EXCEPT !.weights[g] = @ + 1] PROVE DOMAIN e = DOMAIN d
    BY <2>5
  <2>6. ASSUME NEW rows, e = [d EXCEPT !.variations = rows] PROVE DOMAIN e = DOMAIN d
    BY <2>6
  <2>7. ASSUME NEW f, NEW v, e = [d EXCEPT ![f] = v] PROVE DOMAIN e = DOMAIN d
    BY <2>7
  <2>8. ASSUME e = [d EXCEPT !.version = "older"] PROVE DOMAIN e = DOMAIN d
    BY <2>8
  <2> DEFINE C == RowDamages(d.candidates, CandidateDamages)
             E == RowDamages(d.evidence, LAMBDA x : {[x EXCEPT !.value = "elsewhere"]})
             V == RowDamages(d.variations,
                             LAMBDA v : {[v EXCEPT !.winner = key] : key \in ToSet(PlanKeys)}
                                        \cup {[v EXCEPT !.changed = ~@]})
             D == {[d EXCEPT !.candidates = rows] : rows \in C}
                  \cup {[d EXCEPT !.evidence = rows] : rows \in E}
                  \cup {[d EXCEPT !.recommended = key] : key \in ToSet(PlanKeys) \cup {"none"}}
                  \cup {[d EXCEPT !.status = x] : x \in {"VERIFIED", "INCOMPLETE", "NO_FEASIBLE_OPTION"}}
                  \cup {[d EXCEPT !.weights[g] = @ + 1] : g \in GroupSet}
                  \cup {[d EXCEPT !.variations = rows] : rows \in V}
                  \cup (UNION {{[d EXCEPT ![f] = v] : v \in Bumped(d[f])}
                               : f \in {"changes", "gap", "horizon"}})
                  \cup {[d EXCEPT !.version = "older"]}
  <2>9. e \in D
    BY <1>2 DEF Damages
  <2> HIDE DEF C, E, V
  <2> QED BY <2>1, <2>2, <2>3, <2>4, <2>5, <2>6, <2>7, <2>8, <2>9
<1> QED BY <1>1, <1>2

(* The scenario stays one that the validation lets through, whatever is    *)
(* edited, and the draft and the verdict always belong to it.              *)
THEOREM DecisionInvariance == DecisionSpec => []DecisionInv
<1>1. DecisionInit => DecisionInv
  BY DecisionAssumption, DraftFields DEF DecisionInit, DecisionInv
<1>2. DecisionInv /\ [DecisionNext]_decisionVars => DecisionInv'
  <2> SUFFICES ASSUME DecisionInv, [DecisionNext]_decisionVars PROVE DecisionInv'
    OBVIOUS
  <2>1. CASE Damage
    <3>1. PICK d \in Damages(presented) \cup Mistaken(presented) :
            presented' = d /\ valid' = Verifier!Valid(scenario, options, d)
      BY <2>1 DEF Damage
    <3>2. {"status", "recommended"} \subseteq DOMAIN presented'
      BY <3>1, DamagedFields DEF DecisionInv
    <3> QED BY <2>1, <3>1, <3>2 DEF Damage, DecisionInv
  <2>2. CASE Edit
    <3>1. PICK s \in Forgotten(scenario) \cup Tightened(scenario) :
            /\ scenario' = s /\ draft' = Draft(s, options) /\ presented' = draft'
            /\ valid' = Verifier!Valid(s, options, draft')
      BY <2>2 DEF Edit
    <3>2. s \in ScenarioInputs
      BY ForgottenKnowsLess, TightenedIsTighter DEF DecisionInv
    <3>3. options' = options
      BY <2>2 DEF Edit
    <3> QED BY <3>1, <3>2, <3>3, DraftFields DEF DecisionInv
  <2>3. CASE UNCHANGED decisionVars
    BY <2>3 DEF decisionVars, DecisionInv
  <2> QED BY <2>1, <2>2, <2>3 DEF DecisionNext
<1> QED BY <1>1, <1>2, PTL DEF DecisionSpec

(* What is recommended to a member rests on no unknown fact, and its plan, *)
(* as the catalog has it, meets every demand of every workload: shown from *)
(* the verifier's checks alone (verify), whatever drafted the result.      *)
THEOREM RecommendationHolds == DecisionSpec => []RecommendationRests
<1>1. DecisionInv => RecommendationRests
  <2> SUFFICES ASSUME DecisionInv, Result.recommended # "none" PROVE RecommendationRests
    BY DEF RecommendationRests
  <2>1. valid /\ Result = presented
    BY DEF DecisionInv, Result, Released
  <2>2. /\ scenario \in ScenarioInputs /\ options \in OptionInputs
        /\ Verifier!Valid(scenario, options, presented) /\ presented.recommended # "none"
    BY <2>1 DEF DecisionInv
  <2>3. PICK c \in ToSet(presented.candidates) :
          /\ c.key = presented.recommended /\ c.key \in Verifier!Keys
          /\ Verifier!Expected(scenario, options, c.key).status = "ELIGIBLE"
          /\ Verifier!CandidateHolds(scenario, c, Verifier!Expected(scenario, options, c.key))
          /\ \A d \in ToSet(presented.candidates) :
               d.status = "EXCLUDED" \/ (d.status = "ELIGIBLE" /\ d.score <= c.score)
    BY <2>2, ValidRests
  <2> DEFINE e == Verifier!Expected(scenario, options, c.key)
  <2>4. /\ ToSet(c.costs.lines) = e.lines
        /\ c.costs.startup = e.sums.startup /\ c.costs.tco = e.sums.tco
    <3>1. Verifier!CostsHold(c, e)
      BY <2>3, SMTT(30) DEF Verifier!CandidateHolds
    <3>2. "startup" \in DOMAIN e.sums /\ "tco" \in DOMAIN e.sums
      BY DEF Verifier!Expected, Verifier!ExpectedSums
    <3> HIDE DEF e
    <3>3. c.costs["startup"] = e.sums["startup"] /\ c.costs["tco"] = e.sums["tco"]
      BY <3>1, <3>2 DEF Verifier!CostsHold
    <3> QED BY <3>1, <3>3 DEF Verifier!CostsHold, Verifier!Exactly, Verifier!ToSet, ToSet
  <2>5. /\ scenario.region = "EU" /\ scenario.staff >= Verifier!PlanOf(c.key).staff
        /\ options.date \in Catalog.priceDate..Catalog.validUntil
        /\ \A l \in e.lines : l.total # Unknown /\ l.price \in 0..MaxPrice
        /\ scenario.hard =>
             /\ Unknown \notin {scenario.initial, scenario.monthly}
             /\ e.sums.startup <= scenario.initial
             /\ e.sums.tco - e.sums.startup <= scenario.monthly * options.horizon
        /\ \A i \in DOMAIN scenario.workloads :
             MeetsDemands(Verifier!PlanOf(c.key), scenario.workloads[i])
    BY <2>2, <2>3, EligibleMeans
  <2> HIDE DEF e
  <2> QED BY <2>1, <2>3, <2>4, <2>5 DEF RecommendationRests
<1> QED BY <1>1, DecisionInvariance, PTL
-------------------------------------------------------------------------------
(* Lists put end to end: two of them are alike when their parts are.       *)

IsFlat(a, k) == k = [i \in 1..Len(a) |-> IF i = 1 THEN a[i] ELSE k[i - 1] \o a[i]]

LEMMA FlattenFold ==
  ASSUME NEW a, Len(a) # 0
  PROVE  FlattenSeq(a) = (CHOOSE k : IsFlat(a, k))[Len(a)]
BY DEF FlattenSeq, IsFlat

LEMMA FlatStep ==
  ASSUME NEW a, NEW k, IsFlat(a, k), NEW i \in 1..Len(a)
  PROVE  k[i] = IF i = 1 THEN a[1] ELSE k[i - 1] \o a[i]
<1>1. k = [j \in 1..Len(a) |-> IF j = 1 THEN a[j] ELSE k[j - 1] \o a[j]]
  BY DEF IsFlat
<1> DEFINE F(j) == IF j = 1 THEN a[j] ELSE k[j - 1] \o a[j]
<1>2. k = [j \in 1..Len(a) |-> F(j)]
  BY <1>1
<1> HIDE DEF F
<1>3. k[i] = F(i)
  BY <1>2
<1> QED BY <1>3 DEF F

(* Numbers up to n for which something is wrong have a first one.          *)
LEMMA FirstOf ==
  ASSUME NEW n \in Nat, NEW Bad \in SUBSET (1..n), Bad # {}
  PROVE  \E i \in Bad : i \in 1..n /\ (i = 1 \/ (i - 1 \in 1..n /\ i - 1 \notin Bad))
<1>1. Bad \subseteq Nat
  OBVIOUS
<1>2. \E i \in Bad : \A j \in Bad : <<j, i>> \notin OpToRel(<, Nat)
  BY <1>1, NatLessThanWellFounded, WFMin
<1>3. PICK i \in Bad : \A j \in Bad : <<j, i>> \notin OpToRel(<, Nat)
  BY <1>2
<1>4. \A j \in Bad : ~(j < i)
  BY <1>1, <1>3 DEF OpToRel
<1>5. i \in 1..n
  OBVIOUS
<1>6. CASE i # 1
  <2>1. i - 1 \in 1..n /\ i - 1 < i
    BY <1>5, <1>6
  <2> QED BY <1>4, <1>5, <2>1
<1> QED BY <1>5, <1>6

LEMMA FlatExists ==
  ASSUME NEW A, NEW a \in Seq(Seq(A)), Len(a) # 0
  PROVE  \E k \in [1..Len(a) -> Seq(A)] : IsFlat(a, k)
<1> DEFINE n == Len(a)
           Next1(k, i) == k[i] = IF i = 1 THEN a[1] ELSE k[i - 1] \o a[i]
           Good(m) == \E k \in [1..m -> Seq(A)] : \A i \in 1..m : Next1(k, i)
           Bad == {m \in 1..n : ~Good(m)}
<1>1. n \in Nat /\ n >= 1 /\ \A i \in 1..n : a[i] \in Seq(A)
  OBVIOUS
<1>2. Good(1)
  <2> DEFINE k == [i \in 1..1 |-> a[1]]
  <2>1. k \in [1..1 -> Seq(A)] /\ \A i \in 1..1 : Next1(k, i)
    BY <1>1
  <2> QED BY <2>1
<1>3. ASSUME NEW m \in 1..n, m # 1, Good(m - 1) PROVE Good(m)
  <2>1. PICK k \in [1..(m - 1) -> Seq(A)] : \A i \in 1..(m - 1) : Next1(k, i)
    BY <1>3
  <2> DEFINE q == [i \in 1..m |-> IF i = m THEN k[m - 1] \o a[m] ELSE k[i]]
  <2>2. m \in Nat /\ m - 1 \in 1..(m - 1) /\ \A i \in 1..m : i = m \/ i \in 1..(m - 1)
    BY <1>1, <1>3
  <2>3. k[m - 1] \in Seq(A) /\ a[m] \in Seq(A)
    BY <1>1, <2>2
  <2>4. q \in [1..m -> Seq(A)]
    BY <2>2, <2>3
  <2>5. \A i \in 1..m : Next1(q, i)
    <3>1. q[m] = k[m - 1] \o a[m] /\ q[m - 1] = k[m - 1] /\ m # 1
      <4>1. m \in 1..m /\ m - 1 \in 1..m /\ m - 1 # m
        BY <2>2
      <4> QED BY <1>3, <4>1
    <3>2. ASSUME NEW i \in 1..(m - 1) PROVE Next1(q, i)
      <4>1. i \in 1..m /\ i # m /\ (i # 1 => i - 1 \in 1..m /\ i - 1 # m)
        BY <2>2
      <4>2. q[i] = k[i] /\ (i # 1 => q[i - 1] = k[i - 1])
        BY <4>1
      <4> HIDE DEF q
      <4> QED BY <2>1, <4>2
    <3> HIDE DEF q
    <3> QED BY <2>2, <3>1, <3>2
  <2> HIDE DEF q
  <2> QED BY <2>4, <2>5
<1>4. Bad = {}
  <2> SUFFICES ASSUME Bad # {} PROVE FALSE
    OBVIOUS
  <2> HIDE DEF Good
  <2>1. PICK m \in Bad : m = 1 \/ (m - 1 \in 1..n /\ m - 1 \notin Bad)
    <3>1. Bad \in SUBSET (1..n)
      OBVIOUS
    <3> HIDE DEF Bad, n
    <3> QED BY <1>1, <3>1, FirstOf
  <2> QED BY <1>2, <1>3, <2>1
<1>5. Good(n)
  <2> HIDE DEF Good
  <2> QED BY <1>1, <1>4, SMTT(30)
<1>6. PICK k \in [1..n -> Seq(A)] : \A i \in 1..n : Next1(k, i)
  BY <1>5
<1>7. k = [i \in 1..n |-> IF i = 1 THEN a[i] ELSE k[i - 1] \o a[i]]
  BY <1>6
<1> QED BY <1>7 DEF IsFlat

LEMMA FlattenIs ==
  ASSUME NEW A, NEW a \in Seq(Seq(A)), Len(a) # 0
  PROVE  \E k : IsFlat(a, k) /\ FlattenSeq(a) = k[Len(a)]
BY FlattenFold, FlatExists

LEMMA ConcatIs ==
  ASSUME NEW A, NEW u \in Seq(A), NEW v \in Seq(A)
  PROVE  /\ u \o v \in Seq(A) /\ Len(u \o v) = Len(u) + Len(v)
         /\ ToSet(u \o v) = ToSet(u) \cup ToSet(v)
<1>1. u \o v \in Seq(A) /\ DOMAIN (u \o v) = 1..(Len(u) + Len(v))
  OBVIOUS
<1>2. \A i \in 1..Len(u) : (u \o v)[i] = u[i] /\ i \in 1..(Len(u) + Len(v))
  OBVIOUS
<1>3. \A i \in 1..Len(v) : (u \o v)[Len(u) + i] = v[i] /\ Len(u) + i \in 1..(Len(u) + Len(v))
  OBVIOUS
<1>4. \A i \in 1..(Len(u) + Len(v)) : i \in 1..Len(u) \/ (i - Len(u) \in 1..Len(v) /\ i = Len(u) + (i - Len(u)))
  OBVIOUS
<1>5. DOMAIN u = 1..Len(u) /\ DOMAIN v = 1..Len(v)
  OBVIOUS
<1>6. \A x : x \in ToSet(u) \cup ToSet(v) => x \in ToSet(u \o v)
  BY <1>1, <1>2, <1>3, <1>5 DEF ToSet
<1>7. \A x : x \in ToSet(u \o v) => x \in ToSet(u) \cup ToSet(v)
  BY <1>1, <1>2, <1>3, <1>4, <1>5 DEF ToSet
<1> QED BY <1>1, <1>6, <1>7

\* sequences of A of equal length, related place by place
Alike(A, R, u, v) ==
  /\ u \in Seq(A) /\ v \in Seq(A) /\ Len(u) = Len(v)
  /\ \A j \in 1..Len(u) : <<u[j], v[j]>> \in R

LEMMA ConcatAlike ==
  ASSUME NEW A, NEW R, NEW u, NEW v, NEW x, NEW y, Alike(A, R, u, v), Alike(A, R, x, y)
  PROVE  Alike(A, R, u \o x, v \o y)
<1>1. /\ u \in Seq(A) /\ x \in Seq(A) /\ v \in Seq(A) /\ y \in Seq(A)
      /\ Len(u) = Len(v) /\ Len(x) = Len(y)
  BY DEF Alike
<1>2. u \o x \in Seq(A) /\ Len(u \o x) = Len(u) + Len(x)
  BY <1>1, ConcatIs
<1>3. v \o y \in Seq(A) /\ Len(v \o y) = Len(v) + Len(y)
  BY <1>1, ConcatIs
<1>4. ASSUME NEW j \in 1..(Len(u) + Len(x))
      PROVE  <<(u \o x)[j], (v \o y)[j]>> \in R
  <2>1. CASE j <= Len(u)
    BY <1>1, <2>1 DEF Alike
  <2>2. CASE j > Len(u)
    <3>1. j - Len(u) \in 1..Len(x)
      BY <1>1, <2>2
    <3>2. (u \o x)[j] = x[j - Len(u)] /\ (v \o y)[j] = y[j - Len(u)]
      BY <1>1, <2>2
    <3> QED BY <3>1, <3>2 DEF Alike
  <2>3. j \in Int /\ Len(u) \in Int
    BY <1>1
  <2>4. j <= Len(u) \/ j > Len(u)
    BY <2>3
  <2> QED BY <2>1, <2>2, <2>4
<1> QED BY <1>1, <1>2, <1>3, <1>4 DEF Alike

LEMMA FlattenAlike ==
  ASSUME NEW A, NEW R, NEW a \in Seq(Seq(A)), NEW b \in Seq(Seq(A)),
         Len(a) # 0, Len(b) = Len(a), \A i \in 1..Len(a) : Alike(A, R, a[i], b[i])
  PROVE  Alike(A, R, FlattenSeq(a), FlattenSeq(b))
<1> DEFINE n == Len(a)
<1>1. n \in Nat /\ n >= 1 /\ \A i \in 1..n : Alike(A, R, a[i], b[i])
  OBVIOUS
<1>2. PICK k : IsFlat(a, k) /\ FlattenSeq(a) = k[n]
  BY FlattenIs
<1>3. PICK q : IsFlat(b, q) /\ FlattenSeq(b) = q[n]
  BY FlattenIs
<1> DEFINE Bad == {i \in 1..n : ~Alike(A, R, k[i], q[i])}
<1>4. \A i \in 1..n : /\ k[i] = IF i = 1 THEN a[1] ELSE k[i - 1] \o a[i]
                      /\ q[i] = IF i = 1 THEN b[1] ELSE q[i - 1] \o b[i]
  BY <1>2, <1>3, FlatStep
<1>5. Bad = {}
  <2> SUFFICES ASSUME Bad # {} PROVE FALSE
    OBVIOUS
  <2>1. Bad \in SUBSET (1..n)
    OBVIOUS
  <2> HIDE DEF n
  <2>2. PICK i \in Bad : i \in 1..n /\ (i = 1 \/ (i - 1 \in 1..n /\ i - 1 \notin Bad))
    <3> HIDE DEF Bad
    <3> QED BY <1>1, <2>1, FirstOf
  <2>3. CASE i = 1
    BY <1>1, <1>4, <2>2, <2>3
  <2>4. CASE i # 1
    <3>1. Alike(A, R, k[i - 1], q[i - 1]) /\ Alike(A, R, a[i], b[i])
      BY <1>1, <2>2, <2>4
    <3>2. k[i] = k[i - 1] \o a[i] /\ q[i] = q[i - 1] \o b[i]
      BY <1>4, <2>2, <2>4
    <3> QED BY <2>2, <3>1, <3>2, ConcatAlike
  <2> QED BY <2>3, <2>4
<1>6. Alike(A, R, k[n], q[n])
  <2> HIDE DEF n
  <2>1. n \in 1..n /\ n \notin Bad
    <3> HIDE DEF Bad
    <3> QED BY <1>1, <1>5
  <2> QED BY <2>1
<1> QED BY <1>2, <1>3, <1>6
-------------------------------------------------------------------------------
(* What a draft concludes from the rows of its plans.                      *)

LEMMA CandidateFields ==
  ASSUME NEW s, NEW o, NEW p
  PROVE  /\ {"key", "status", "score", "criteria"} \subseteq DOMAIN Candidate(s, o, p)
         /\ Candidate(s, o, p).key = p.key
BY DEF Candidate, Priced, Judged

LEMMA RankedIs ==
  ASSUME NEW N, NEW cs, DOMAIN cs = N,
         \A i \in N : {"key", "status", "score", "criteria"} \subseteq DOMAIN cs[i]
  PROVE  /\ DOMAIN Ranked(cs) = N
         /\ \A i \in N : /\ Ranked(cs)[i].key = cs[i].key
                         /\ Ranked(cs)[i].status = cs[i].status
                         /\ Ranked(cs)[i].score = cs[i].score
                         /\ Ranked(cs)[i].criteria = cs[i].criteria
<1> DEFINE r(i) == IF cs[i].status = "ELIGIBLE"
                   THEN Cardinality({ScoreOf(cs)[k] : k \in {k \in Eligible(cs) : ScoreOf(cs)[k] > cs[i].score}}) + 1
                   ELSE Unknown
<1>1. Ranked(cs) = [i \in N |-> [cs[i] EXCEPT !.rank = r(i)]]
  BY DEF Ranked
<1> HIDE DEF r
<1> QED BY <1>1

Row(s, o, i) == Candidate(s, o, Catalog.plans[i])
KeysWith(s, o, x) ==
  {Catalog.plans[i].key : i \in {j \in DOMAIN Catalog.plans : Row(s, o, j).status = x}}

(* The outcome of an assessment in terms of the rows of the plans.         *)
LEMMA DraftParts ==
  ASSUME NEW s, NEW o
  PROVE  LET d == Draft(s, o)
             cs == d.candidates
         IN  /\ \A x : Chosen(d, x) = KeysWith(s, o, x)
             /\ Eligible(cs) = KeysWith(s, o, "ELIGIBLE")
             /\ Incomplete(cs) <=> KeysWith(s, o, "INDETERMINATE") # {}
             /\ DOMAIN ScoreOf(cs) = Eligible(cs)
             /\ ScoreOf(cs) = [k \in Eligible(cs) |-> ScoreOf(cs)[k]]
             /\ \A i \in DOMAIN Catalog.plans : Row(s, o, i).status = "ELIGIBLE" =>
                  ScoreOf(cs)[Catalog.plans[i].key] = Row(s, o, i).score
             /\ d.recommended = IF Eligible(cs) # {} /\ ~Incomplete(cs)
                                THEN Best(Eligible(cs), ScoreOf(cs)) ELSE "none"
<1> DEFINE N == DOMAIN Catalog.plans
           row == [i \in N |-> Row(s, o, i)]
           d == Draft(s, o)
           cs == Ranked(row)
<1>1. \A i \in N : row[i].key = Catalog.plans[i].key
  BY CandidateFields DEF Row
<1>2. DOMAIN row = N /\ \A i \in N : {"key", "status", "score", "criteria"} \subseteq DOMAIN row[i]
  <2>1. DOMAIN row = N /\ \A i \in N : row[i] = Row(s, o, i)
    OBVIOUS
  <2> HIDE DEF row
  <2> QED BY <2>1, CandidateFields DEF Row
<1>3. /\ d.candidates = cs
      /\ d.recommended = IF Eligible(cs) # {} /\ ~Incomplete(cs)
                         THEN Best(Eligible(cs), ScoreOf(cs)) ELSE "none"
  BY DEF Draft, Concluded, Row
<1>12. \A x : KeysWith(s, o, x) = {Catalog.plans[i].key : i \in {j \in N : row[j].status = x}}
  BY DEF KeysWith
<1>13. \A i \in N : row[i] = Row(s, o, i)
  OBVIOUS
<1> HIDE DEF row
<1>4. DOMAIN cs = N /\ \A i \in N : /\ cs[i].key = row[i].key /\ cs[i].status = row[i].status
                                    /\ cs[i].score = row[i].score
  BY <1>2, RankedIs
<1>5. \A i, j \in N : row[i].key = row[j].key => i = j
  BY <1>1, CatalogAssumption
<1> HIDE DEF cs, d
<1>6. ToSet(cs) = {cs[i] : i \in N} /\ Range(cs) = {cs[i] : i \in N}
  BY <1>4 DEF ToSet, Range
<1>7. ASSUME NEW x PROVE Chosen(d, x) = KeysWith(s, o, x)
  BY <1>1, <1>12, <1>3, <1>4, <1>6 DEF Chosen
<1>8. /\ Eligible(cs) = {Catalog.plans[i].key : i \in {j \in N : row[j].status = "ELIGIBLE"}}
      /\ Incomplete(cs) <=> \E i \in N : row[i].status = "INDETERMINATE"
  BY <1>1, <1>4 DEF Eligible, Incomplete
<1>9. \A i \in N : (CHOOSE c \in Range(cs) : c.key = cs[i].key) = cs[i]
  <2>1. \A i \in N : \A c \in Range(cs) : c.key = cs[i].key => c = cs[i]
    BY <1>4, <1>5, <1>6
  <2> QED BY <1>6, <2>1
<1>10. /\ DOMAIN ScoreOf(cs) = Eligible(cs)
       /\ ScoreOf(cs) = [k \in Eligible(cs) |-> ScoreOf(cs)[k]]
       /\ \A k \in Eligible(cs) : ScoreOf(cs)[k] = (CHOOSE c \in Range(cs) : c.key = k).score
  BY DEF ScoreOf
<1>11. ASSUME NEW i \in N, row[i].status = "ELIGIBLE"
       PROVE  ScoreOf(cs)[Catalog.plans[i].key] = row[i].score
  <2>1. cs[i].key \in Eligible(cs) /\ cs[i].key = Catalog.plans[i].key
    BY <1>1, <1>4, <1>8, <1>11
  <2> QED BY <1>4, <1>9, <1>10, <2>1
<1>14. /\ Eligible(cs) = KeysWith(s, o, "ELIGIBLE")
       /\ Incomplete(cs) <=> KeysWith(s, o, "INDETERMINATE") # {}
  <2>1. Eligible(cs) = KeysWith(s, o, "ELIGIBLE")
    BY <1>8, <1>12
  <2> DEFINE J == {j \in N : row[j].status = "INDETERMINATE"}
  <2>2. KeysWith(s, o, "INDETERMINATE") = {Catalog.plans[i].key : i \in J}
    BY <1>12
  <2>3. (\E i \in N : row[i].status = "INDETERMINATE") <=> J # {}
    OBVIOUS
  <2> HIDE DEF J
  <2>4. KeysWith(s, o, "INDETERMINATE") # {} <=> J # {}
    BY <2>2
  <2> QED BY <1>8, <2>1, <2>3, <2>4
<1> QED BY <1>3, <1>7, <1>10, <1>11, <1>13, <1>14 DEF d
-------------------------------------------------------------------------------
(* The engine's demands and constraints.                                   *)

CheckNames ==
  {"price_validity", "region", "staff", "function", "user_count", "vcpu_count", "memory_gib",
   "storage_gib", "max_latency_ms", "availability_percent", "rto_seconds", "rpo_seconds",
   "internet", "sensitivity", "budget"}
Rows == [key : (STRING \cup {"plan"}) \X CheckNames, status : {"PASS", "FAIL", "UNKNOWN"}]

FunctionCheck(w, p) == Check(<<w.key, "function">>, TRUE, w.type \in p.supported)
AmountCheck(w, p, i) ==
  LET need == w[Amounts[i]]
      capacity == PriceValue(p.capacities[Amounts[i]])
  IN  Check(<<w.key, Amounts[i]>>, Unknown \notin {need, capacity}, need <= capacity)
TargetCheck(w, p, i) ==
  LET t == Targets[i]
      target == w[t.field]
  IN  Check(<<w.key, t.field>>, target # Unknown,
            IF t.atMost THEN p[t.model] <= target ELSE p[t.model] >= target)
InternetCheck(w) == Check(<<w.key, "internet">>, w.internet # "unknown", w.internet = "yes")
SensitivityCheck(w) ==
  Check(<<w.key, "sensitivity">>, w.sensitivity # "unknown", w.sensitivity # "RESTRICTED")

PriceCheck(date) ==
  Check(<<"plan", "price_validity">>, Catalog.priceDate <= date /\ date <= Catalog.validUntil,
        Catalog.priceDate <= date /\ date <= Catalog.validUntil)
RegionCheck(s) == Check(<<"plan", "region">>, TRUE, s.region = "EU")
StaffCheck(s, p) == Check(<<"plan", "staff">>, s.staff # Unknown, s.staff >= p.staff)

\* all demands but the budget's
Demands(s, p, date) ==
  <<PriceCheck(date), RegionCheck(s), StaffCheck(s, p)>>
  \o FlattenSeq([i \in DOMAIN s.workloads |-> WorkloadChecks(s.workloads[i], p)])

LEMMA AsSequence ==
  ASSUME NEW S, NEW n \in Nat, NEW f \in [1..n -> S]
  PROVE  f \in Seq(S) /\ Len(f) = n
OBVIOUS

LEMMA CheckType ==
  ASSUME NEW key \in (STRING \cup {"plan"}) \X CheckNames, NEW a, NEW b
  PROVE  Check(key, a, b) \in Rows
BY DEF Check, Rows

LEMMA FourOf ==
  /\ DOMAIN Amounts = 1..4 /\ DOMAIN Targets = 1..4
  /\ \A i \in 1..4 : Amounts[i] \in {"user_count", "vcpu_count", "memory_gib", "storage_gib"}
  /\ \A i \in 1..4 : /\ Targets[i].field \in {"max_latency_ms", "availability_percent",
                                             "rto_seconds", "rpo_seconds"}
                     /\ Targets[i].model \in {"latency", "availability", "rto", "rpo"}
                     /\ Targets[i].atMost <=> (Targets[i].field # "availability_percent")
<1>1. Amounts = <<"user_count", "vcpu_count", "memory_gib", "storage_gib">>
  BY DEF Amounts
<1>2. \A i \in 1..4 : i = 1 \/ i = 2 \/ i = 3 \/ i = 4
  OBVIOUS
<1>3. DOMAIN Amounts = 1..4 /\ DOMAIN Targets = 1..4
  BY DEF Amounts, Targets
<1>4. /\ Amounts[1] = "user_count" /\ Amounts[2] = "vcpu_count" /\ Amounts[3] = "memory_gib"
      /\ Amounts[4] = "storage_gib"
  BY <1>1
<1>5. /\ Targets[1] = [field |-> "max_latency_ms", model |-> "latency", atMost |-> TRUE]
      /\ Targets[2] = [field |-> "availability_percent", model |-> "availability", atMost |-> FALSE]
      /\ Targets[3] = [field |-> "rto_seconds", model |-> "rto", atMost |-> TRUE]
      /\ Targets[4] = [field |-> "rpo_seconds", model |-> "rpo", atMost |-> TRUE]
  BY DEF Targets
<1>6. \A i \in 1..4 : Amounts[i] \in {"user_count", "vcpu_count", "memory_gib", "storage_gib"}
  BY <1>2, <1>4
<1>7. \A i \in 1..4 :
        /\ Targets[i].field \in {"max_latency_ms", "availability_percent",
                                "rto_seconds", "rpo_seconds"}
        /\ Targets[i].model \in {"latency", "availability", "rto", "rpo"}
        /\ Targets[i].atMost <=> (Targets[i].field # "availability_percent")
  <2> DEFINE Good(t) == /\ t.field \in {"max_latency_ms", "availability_percent",
                                        "rto_seconds", "rpo_seconds"}
                        /\ t.model \in {"latency", "availability", "rto", "rpo"}
                        /\ t.atMost <=> (t.field # "availability_percent")
  <2>1. Good(Targets[1]) /\ Good(Targets[3]) /\ Good(Targets[4])
    BY <1>5
  <2>2. Good(Targets[2])
    BY <1>5
  <2> HIDE DEF Good
  <2>3. \A i \in 1..4 : Good(Targets[i])
    BY <1>2, <2>1, <2>2
  <2> QED BY <2>3 DEF Good
<1> QED BY <1>3, <1>6, <1>7

LEMMA WorkloadChecksParts ==
  ASSUME NEW w, NEW p
  PROVE  WorkloadChecks(w, p) =
           <<FunctionCheck(w, p)>> \o [i \in 1..4 |-> AmountCheck(w, p, i)]
           \o [i \in 1..4 |-> TargetCheck(w, p, i)] \o <<InternetCheck(w), SensitivityCheck(w)>>
BY FourOf DEF WorkloadChecks, FunctionCheck, AmountCheck, TargetCheck, InternetCheck, SensitivityCheck

LEMMA CheckTypes ==
  ASSUME NEW w \in WorkloadInputs, NEW p
  PROVE  /\ FunctionCheck(w, p) \in Rows /\ InternetCheck(w) \in Rows /\ SensitivityCheck(w) \in Rows
         /\ \A i \in 1..4 : AmountCheck(w, p, i) \in Rows /\ TargetCheck(w, p, i) \in Rows
<1>1. w.key \in STRING \cup {"plan"}
  BY DEF WorkloadInputs
<1>2. \A n \in CheckNames : <<w.key, n>> \in (STRING \cup {"plan"}) \X CheckNames
  BY <1>1
<1>3. /\ \A i \in 1..4 : Amounts[i] \in CheckNames /\ Targets[i].field \in CheckNames
      /\ "function" \in CheckNames /\ "internet" \in CheckNames /\ "sensitivity" \in CheckNames
  BY FourOf DEF CheckNames
<1>4. FunctionCheck(w, p) \in Rows /\ InternetCheck(w) \in Rows /\ SensitivityCheck(w) \in Rows
  BY <1>2, <1>3, CheckType DEF FunctionCheck, InternetCheck, SensitivityCheck
<1>5. ASSUME NEW i \in 1..4 PROVE AmountCheck(w, p, i) \in Rows
  BY <1>2, <1>3, CheckType DEF AmountCheck
<1>6. ASSUME NEW i \in 1..4 PROVE TargetCheck(w, p, i) \in Rows
  BY <1>2, <1>3, CheckType DEF TargetCheck
<1> QED BY <1>4, <1>5, <1>6

LEMMA ChecksAlike ==
  ASSUME NEW w \in WorkloadInputs, NEW u \in WorkloadInputs, NEW p, NEW R,
         <<FunctionCheck(w, p), FunctionCheck(u, p)>> \in R,
         \A i \in 1..4 : <<AmountCheck(w, p, i), AmountCheck(u, p, i)>> \in R,
         \A i \in 1..4 : <<TargetCheck(w, p, i), TargetCheck(u, p, i)>> \in R,
         <<InternetCheck(w), InternetCheck(u)>> \in R,
         <<SensitivityCheck(w), SensitivityCheck(u)>> \in R
  PROVE  Alike(Rows, R, WorkloadChecks(w, p), WorkloadChecks(u, p))
<1> DEFINE A1 == <<FunctionCheck(w, p)>>
           B1 == <<FunctionCheck(u, p)>>
           A2 == [i \in 1..4 |-> AmountCheck(w, p, i)]
           B2 == [i \in 1..4 |-> AmountCheck(u, p, i)]
           A3 == [i \in 1..4 |-> TargetCheck(w, p, i)]
           B3 == [i \in 1..4 |-> TargetCheck(u, p, i)]
           A4 == <<InternetCheck(w), SensitivityCheck(w)>>
           B4 == <<InternetCheck(u), SensitivityCheck(u)>>
<1>1. Alike(Rows, R, A1, B1)
  BY CheckTypes DEF Alike
<1>2. Alike(Rows, R, A2, B2)
  <2>1. A2 \in [1..4 -> Rows] /\ B2 \in [1..4 -> Rows]
    BY CheckTypes
  <2>2. A2 \in Seq(Rows) /\ B2 \in Seq(Rows) /\ Len(A2) = 4 /\ Len(B2) = 4
    <3> HIDE DEF A2, B2
    <3> QED BY <2>1, AsSequence
  <2>3. \A i \in 1..4 : <<A2[i], B2[i]>> \in R
    OBVIOUS
  <2> HIDE DEF A2, B2
  <2> QED BY <2>2, <2>3 DEF Alike
<1>3. Alike(Rows, R, A3, B3)
  <2>1. A3 \in [1..4 -> Rows] /\ B3 \in [1..4 -> Rows]
    BY CheckTypes
  <2>2. A3 \in Seq(Rows) /\ B3 \in Seq(Rows) /\ Len(A3) = 4 /\ Len(B3) = 4
    <3> HIDE DEF A3, B3
    <3> QED BY <2>1, AsSequence
  <2>3. \A i \in 1..4 : <<A3[i], B3[i]>> \in R
    OBVIOUS
  <2> HIDE DEF A3, B3
  <2> QED BY <2>2, <2>3 DEF Alike
<1>4. Alike(Rows, R, A4, B4)
  BY CheckTypes DEF Alike
<1>5. WorkloadChecks(w, p) = A1 \o A2 \o A3 \o A4 /\ WorkloadChecks(u, p) = B1 \o B2 \o B3 \o B4
  BY WorkloadChecksParts
<1> HIDE DEF A1, A2, A3, A4, B1, B2, B3, B4
<1>6. Alike(Rows, R, A1 \o A2, B1 \o B2)
  BY <1>1, <1>2, ConcatAlike
<1>7. Alike(Rows, R, A1 \o A2 \o A3, B1 \o B2 \o B3)
  BY <1>3, <1>6, ConcatAlike
<1>8. Alike(Rows, R, A1 \o A2 \o A3 \o A4, B1 \o B2 \o B3 \o B4)
  BY <1>4, <1>7, ConcatAlike
<1> QED BY <1>5, <1>8

LEMMA DemandsAlike ==
  ASSUME NEW s \in ScenarioInputs, NEW t \in ScenarioInputs, NEW p, NEW date, NEW R,
         DOMAIN t.workloads = DOMAIN s.workloads,
         <<PriceCheck(date), PriceCheck(date)>> \in R, <<RegionCheck(s), RegionCheck(t)>> \in R,
         <<StaffCheck(s, p), StaffCheck(t, p)>> \in R,
         \A i \in DOMAIN s.workloads :
           Alike(Rows, R, WorkloadChecks(s.workloads[i], p), WorkloadChecks(t.workloads[i], p))
  PROVE  Alike(Rows, R, Demands(s, p, date), Demands(t, p, date))
<1> DEFINE n == Len(s.workloads)
           a == [i \in DOMAIN s.workloads |-> WorkloadChecks(s.workloads[i], p)]
           b == [i \in DOMAIN t.workloads |-> WorkloadChecks(t.workloads[i], p)]
           A1 == <<PriceCheck(date), RegionCheck(s), StaffCheck(s, p)>>
           B1 == <<PriceCheck(date), RegionCheck(t), StaffCheck(t, p)>>
<1>1. n \in Nat /\ n # 0 /\ DOMAIN s.workloads = 1..n /\ DOMAIN t.workloads = 1..n
  BY DEF ScenarioInputs
<1>2. /\ a \in [1..n -> Seq(Rows)] /\ b \in [1..n -> Seq(Rows)]
      /\ \A i \in 1..n : Alike(Rows, R, a[i], b[i])
  <2> HIDE DEF n
  <2> QED BY <1>1 DEF Alike
<1>3. /\ a \in Seq(Seq(Rows)) /\ b \in Seq(Seq(Rows)) /\ Len(a) = n /\ Len(b) = n
  <2> HIDE DEF a, b, n
  <2> QED BY <1>1, <1>2, AsSequence
<1>4. Alike(Rows, R, FlattenSeq(a), FlattenSeq(b))
  <2> HIDE DEF a, b, n
  <2> QED BY <1>1, <1>2, <1>3, FlattenAlike
<1>5. /\ PriceCheck(date) \in Rows /\ RegionCheck(s) \in Rows /\ RegionCheck(t) \in Rows
      /\ StaffCheck(s, p) \in Rows /\ StaffCheck(t, p) \in Rows
  BY CheckType DEF PriceCheck, RegionCheck, StaffCheck, CheckNames
<1>6. Alike(Rows, R, A1, B1)
  BY <1>5 DEF Alike
<1> HIDE DEF a, b, A1, B1
<1>7. Alike(Rows, R, A1 \o FlattenSeq(a), B1 \o FlattenSeq(b))
  BY <1>4, <1>6, ConcatAlike
<1> QED BY <1>7 DEF Demands, a, b, A1, B1

Occurs(x, rows) == \E i \in DOMAIN rows : rows[i].status = x

(* The states of the constraints are those of the demands and, where it is *)
(* hard, of the budget.                                                    *)
LEMMA ConstraintStates ==
  ASSUME NEW s \in ScenarioInputs, NEW p, NEW costs, NEW date, NEW x
  PROVE  Occurs(x, Constraints(s, p, costs, date)) <=>
           Occurs(x, Demands(s, p, date)) \/ (s.hard /\ BudgetCheck(s, costs).status = x)
<1> DEFINE D == Demands(s, p, date)
           H == IF s.hard THEN <<BudgetCheck(s, costs)>> ELSE <<>>
           C == Constraints(s, p, costs, date)
           R == Rows \X Rows
<1>1. D \in Seq(Rows)
  <2>1. \A w \in WorkloadInputs : Alike(Rows, R, WorkloadChecks(w, p), WorkloadChecks(w, p))
    <3>1. ASSUME NEW w \in WorkloadInputs
          PROVE  Alike(Rows, R, WorkloadChecks(w, p), WorkloadChecks(w, p))
      <4> HIDE DEF R
      <4>1. \A y \in Rows : <<y, y>> \in R
        BY DEF R
      <4> QED BY <4>1, CheckTypes, ChecksAlike
    <3> QED BY <3>1
  <2>2. /\ PriceCheck(date) \in Rows /\ RegionCheck(s) \in Rows /\ StaffCheck(s, p) \in Rows
    BY CheckType DEF PriceCheck, RegionCheck, StaffCheck, CheckNames
  <2>3. \A y \in Rows : <<y, y>> \in R
    OBVIOUS
  <2>4. \A i \in DOMAIN s.workloads : s.workloads[i] \in WorkloadInputs
    BY DEF ScenarioInputs
  <2>5. Alike(Rows, R, D, D)
    <3> HIDE DEF R, D
    <3> QED BY <2>1, <2>2, <2>3, <2>4, DemandsAlike DEF D
  <2> QED BY <2>5 DEF Alike
<1>2. BudgetCheck(s, costs) \in Rows
  BY CheckType DEF BudgetCheck, CheckNames
<1>3. H \in Seq(Rows) /\ ToSet(H) = IF s.hard THEN {BudgetCheck(s, costs)} ELSE {}
  BY <1>2 DEF ToSet
<1>4. /\ DOMAIN C = DOMAIN (D \o H)
      /\ \A i \in DOMAIN (D \o H) : C[i].status = (D \o H)[i].status
  BY DEF Constraints, Demands, PriceCheck, RegionCheck, StaffCheck
<1> HIDE DEF D, H, C
<1>5. ToSet(D \o H) = ToSet(D) \cup ToSet(H)
  BY <1>1, <1>3, ConcatIs
<1>6. (\E i \in DOMAIN C : C[i].status = x) <=> \E y \in ToSet(D \o H) : y.status = x
  BY <1>4 DEF ToSet
<1>7. (\E j \in DOMAIN D : D[j].status = x) <=> \E y \in ToSet(D) : y.status = x
  BY DEF ToSet
<1> QED BY <1>3, <1>5, <1>6, <1>7 DEF Occurs, D, C
-------------------------------------------------------------------------------
(* The engine's cost lines.                                                *)

LineRows ==
  [id : (STRING \cup {"plan"}) \X {"runtime", "storage", "memory", "setup", "operations"},
   category : {"CAPEX", "OPEX"}, recurrence : {"ONCE", "MONTHLY"}, quantity : Known, price : Known,
   source : {PlanKeys[i] : i \in DOMAIN PlanKeys} \cup {"storage", "memory", "staff"}, total : Known]

RuntimeLine(w, p, h) ==
  Line(<<w.key, "runtime">>, "OPEX", "MONTHLY",
       IF p.unit = "user" THEN People(w) ELSE w.vcpu_count, p.price, p.key, h)
StorageLine(w, h) ==
  Line(<<w.key, "storage">>, "OPEX", "MONTHLY", w.storage_gib, Catalog.storage, "storage", h)
MemoryLine(w, h) ==
  Line(<<w.key, "memory">>, "OPEX", "MONTHLY", w.memory_gib, Catalog.memory, "memory", h)
PlanLines(p, h) ==
  <<Line(<<"plan", "setup">>, IF p.key = "HYBRID" THEN "CAPEX" ELSE "OPEX", "ONCE",
         QuantityScale, p.setup, p.key, h),
    Line(<<"plan", "operations">>, "OPEX", "MONTHLY", p.staff, Catalog.staff, "staff", h)>>

LEMMA RoundedType ==
  ASSUME NEW n \in Nat, NEW d \in Nat \ {0} PROVE Rounded(n, d) \in Nat
<1>1. 2 * n + d \in Nat /\ 2 * d \in Nat \ {0}
  OBVIOUS
<1> QED BY <1>1, QuotientType DEF Rounded

LEMMA PriceType ==
  ASSUME NEW price \in Int PROVE PriceValue(price) \in Known
BY ScaleAssumption DEF PriceValue, Known

LEMMA LineType ==
  ASSUME NEW id, NEW category, NEW recurrence, NEW quantity \in Known, NEW price \in Int,
         NEW source, NEW h \in Nat
  PROVE  LET l == Line(id, category, recurrence, quantity, price, source, h)
         IN  /\ l = [id |-> id, category |-> category, recurrence |-> recurrence,
                     quantity |-> quantity, price |-> l.price, source |-> source, total |-> l.total]
             /\ l.price = PriceValue(price) /\ l.total \in Known
             /\ l.total = Unknown <=> quantity = Unknown \/ PriceValue(price) = Unknown
<1> DEFINE l == Line(id, category, recurrence, quantity, price, source, h)
           unit == PriceValue(price)
           amount == Rounded(quantity * unit, QuantityScale)
<1>1. /\ l = [id |-> id, category |-> category, recurrence |-> recurrence,
              quantity |-> quantity, price |-> l.price, source |-> source, total |-> l.total]
      /\ l.price = PriceValue(price)
      /\ l.total = IF quantity = Unknown \/ unit = Unknown THEN Unknown
                   ELSE IF recurrence = "MONTHLY" THEN amount * h ELSE amount
  BY DEF Line
<1>2. CASE quantity = Unknown \/ unit = Unknown
  BY <1>1, <1>2 DEF Known
<1>3. CASE ~(quantity = Unknown \/ unit = Unknown)
  <2>1. quantity \in Nat /\ unit \in Nat
    BY <1>3, PriceType DEF Known
  <2>2. quantity * unit \in Nat
    BY <2>1, TimesType
  <2>3. amount \in Nat
    BY <2>2, ScaleAssumption, RoundedType
  <2>4. amount * h \in Nat
    BY <2>3, TimesType
  <2>5. l.total \in Nat
    <3> HIDE DEF amount, unit, l
    <3> QED BY <1>1, <1>3, <2>3, <2>4
  <2> HIDE DEF amount
  <2> QED BY <1>1, <1>3, <2>5 DEF Known, Unknown
<1> QED BY <1>1, <1>2, <1>3

LEMMA PeopleType ==
  ASSUME NEW w \in WorkloadInputs
  PROVE  /\ People(w) \in Known
         /\ People(w) = Unknown <=> w.user_count = Unknown
<1>1. w.user_count \in Known
  BY DEF WorkloadInputs, Positive
<1>2. CASE w.user_count = Unknown
  BY <1>2 DEF People, Known
<1>3. CASE w.user_count # Unknown
  <2>1. w.user_count \in Nat /\ QuantityScale \in Nat
    BY <1>1, <1>3, ScaleAssumption DEF Known
  <2>2. w.user_count * QuantityScale \in Nat
    BY <2>1, TimesType
  <2> QED BY <1>3, <2>2 DEF People, Known, Unknown
<1> QED BY <1>2, <1>3

LEMMA LineTypes ==
  ASSUME NEW w \in WorkloadInputs, NEW p \in CatalogPlans, NEW h \in Nat
  PROVE  /\ RuntimeLine(w, p, h) \in LineRows /\ StorageLine(w, h) \in LineRows
         /\ MemoryLine(w, h) \in LineRows /\ PlanLines(p, h) \in Seq(LineRows)
         /\ Len(PlanLines(p, h)) = 2
<1> DEFINE Ids == (STRING \cup {"plan"}) \X {"runtime", "storage", "memory", "setup", "operations"}
           Sources == {PlanKeys[i] : i \in DOMAIN PlanKeys} \cup {"storage", "memory", "staff"}
<1>1. ASSUME NEW id \in Ids, NEW category \in {"CAPEX", "OPEX"}, NEW recurrence \in {"ONCE", "MONTHLY"},
             NEW quantity \in Known, NEW price \in Int, NEW source \in Sources
      PROVE  Line(id, category, recurrence, quantity, price, source, h) \in LineRows
  <2> DEFINE l == Line(id, category, recurrence, quantity, price, source, h)
  <2>1. /\ l = [id |-> id, category |-> category, recurrence |-> recurrence,
                quantity |-> quantity, price |-> l.price, source |-> source, total |-> l.total]
        /\ l.price \in Known /\ l.total \in Known
    BY LineType, PriceType
  <2> HIDE DEF l, Ids, Sources
  <2>2. l \in [id : Ids, category : {"CAPEX", "OPEX"}, recurrence : {"ONCE", "MONTHLY"},
               quantity : Known, price : Known, source : Sources, total : Known]
    BY <2>1
  <2> QED BY <2>2 DEF LineRows, Ids, Sources, l
<1>2. /\ w.key \in STRING /\ w.vcpu_count \in Known /\ w.storage_gib \in Known
      /\ w.memory_gib \in Known /\ People(w) \in Known
  <2>1. People(w) \in Known
    BY PeopleType
  <2> QED BY <2>1 DEF WorkloadInputs, Positive
<1>3. /\ p.price \in Int /\ p.setup \in Int /\ p.staff \in Known /\ QuantityScale \in Known
      /\ p.key \in Sources /\ Catalog.storage \in Int /\ Catalog.memory \in Int /\ Catalog.staff \in Int
  BY CatalogAssumption, ScaleAssumption DEF CatalogPlans, Known
<1>4. /\ <<w.key, "runtime">> \in Ids /\ <<w.key, "storage">> \in Ids /\ <<w.key, "memory">> \in Ids
      /\ <<"plan", "setup">> \in Ids /\ <<"plan", "operations">> \in Ids
      /\ {"storage", "memory", "staff"} \subseteq Sources
  BY <1>2
<1> HIDE DEF Ids, Sources
<1>5. RuntimeLine(w, p, h) \in LineRows
  BY <1>1, <1>2, <1>3, <1>4 DEF RuntimeLine
<1>6. StorageLine(w, h) \in LineRows /\ MemoryLine(w, h) \in LineRows
  BY <1>1, <1>2, <1>3, <1>4 DEF StorageLine, MemoryLine
<1>7. \A i \in {1, 2} : PlanLines(p, h)[i] \in LineRows
  BY <1>1, <1>3, <1>4 DEF PlanLines
<1>8. PlanLines(p, h) \in Seq(LineRows) /\ Len(PlanLines(p, h)) = 2
  BY <1>7 DEF PlanLines
<1> QED BY <1>5, <1>6, <1>8

LEMMA LinesAlike ==
  ASSUME NEW s \in ScenarioInputs, NEW t \in ScenarioInputs, NEW p \in CatalogPlans,
         NEW h \in Nat, NEW R, DOMAIN t.workloads = DOMAIN s.workloads,
         \A i \in DOMAIN s.workloads :
           /\ <<RuntimeLine(s.workloads[i], p, h), RuntimeLine(t.workloads[i], p, h)>> \in R
           /\ <<StorageLine(s.workloads[i], h), StorageLine(t.workloads[i], h)>> \in R
           /\ <<MemoryLine(s.workloads[i], h), MemoryLine(t.workloads[i], h)>> \in R,
         \A l \in LineRows : <<l, l>> \in R
  PROVE  Alike(LineRows, R, Lines(s, p, h), Lines(t, p, h))
<1> DEFINE n == Len(s.workloads)
           L(w) == <<RuntimeLine(w, p, h), StorageLine(w, h), MemoryLine(w, h)>>
           a == [i \in DOMAIN s.workloads |-> L(s.workloads[i])]
           b == [i \in DOMAIN t.workloads |-> L(t.workloads[i])]
           own == PlanLines(p, h)
<1>1. n \in Nat /\ n # 0 /\ DOMAIN s.workloads = 1..n /\ DOMAIN t.workloads = 1..n
      /\ \A i \in 1..n : s.workloads[i] \in WorkloadInputs /\ t.workloads[i] \in WorkloadInputs
  BY DEF ScenarioInputs
<1>2. Lines(s, p, h) = FlattenSeq(a) \o own /\ Lines(t, p, h) = FlattenSeq(b) \o own
  BY DEF Lines, WorkloadLines, PlanLines, RuntimeLine, StorageLine, MemoryLine
<1>3. \A w \in WorkloadInputs : L(w) \in Seq(LineRows) /\ Len(L(w)) = 3
  BY LineTypes
<1>4. ASSUME NEW i \in 1..n PROVE Alike(LineRows, R, L(s.workloads[i]), L(t.workloads[i]))
  <2>1. L(s.workloads[i]) \in Seq(LineRows) /\ L(t.workloads[i]) \in Seq(LineRows)
        /\ Len(L(s.workloads[i])) = 3 /\ Len(L(t.workloads[i])) = 3
    BY <1>1, <1>3
  <2>2. \A j \in 1..3 : j = 1 \/ j = 2 \/ j = 3
    OBVIOUS
  <2>3. \A j \in 1..3 : <<L(s.workloads[i])[j], L(t.workloads[i])[j]>> \in R
    <3>1. /\ <<L(s.workloads[i])[1], L(t.workloads[i])[1]>> \in R
          /\ <<L(s.workloads[i])[2], L(t.workloads[i])[2]>> \in R
          /\ <<L(s.workloads[i])[3], L(t.workloads[i])[3]>> \in R
      BY <1>1
    <3> HIDE DEF L
    <3> QED BY <2>2, <3>1
  <2> HIDE DEF L
  <2> QED BY <2>1, <2>3 DEF Alike
<1> HIDE DEF L
<1>5. /\ a \in [1..n -> Seq(LineRows)] /\ b \in [1..n -> Seq(LineRows)]
      /\ \A i \in 1..n : Alike(LineRows, R, a[i], b[i])
  <2> HIDE DEF n
  <2> QED BY <1>1, <1>3, <1>4
<1>6. /\ a \in Seq(Seq(LineRows)) /\ b \in Seq(Seq(LineRows)) /\ Len(a) = n /\ Len(b) = n
  <2> HIDE DEF a, b, n
  <2> QED BY <1>1, <1>5, AsSequence
<1>7. Alike(LineRows, R, FlattenSeq(a), FlattenSeq(b))
  <2> HIDE DEF a, b, n
  <2> QED BY <1>1, <1>5, <1>6, FlattenAlike
<1>8. Alike(LineRows, R, own, own)
  <2>1. own \in Seq(LineRows)
    <3>1. 1 \in DOMAIN s.workloads /\ s.workloads[1] \in WorkloadInputs
      BY <1>1
    <3> QED BY <3>1, LineTypes
  <2> HIDE DEF own
  <2> QED BY <2>1 DEF Alike
<1> HIDE DEF a, b, own
<1> QED BY <1>2, <1>7, <1>8, ConcatAlike
-------------------------------------------------------------------------------
(* Sums of cost lines.                                                     *)

TotalOf(lines, I) ==
  IF \E i \in I : lines[i].total = Unknown THEN Unknown
  ELSE Total([i \in I |-> lines[i].total])
Having(lines, f, v) == {i \in DOMAIN lines : lines[i][f] = v}

LEMMA SummedParts ==
  ASSUME NEW lines, NEW h
  PROVE  LET c == Summed(lines, h)
             capex == TotalOf(lines, Having(lines, "category", "CAPEX"))
             opex == TotalOf(lines, Having(lines, "category", "OPEX"))
             monthly == TotalOf(lines, Having(lines, "recurrence", "MONTHLY"))
         IN  /\ c.complete = \A i \in DOMAIN lines : lines[i].total # Unknown
             /\ c.tco = IF Unknown \in {capex, opex} THEN Unknown ELSE capex + opex
             /\ c.startup = TotalOf(lines, Having(lines, "recurrence", "ONCE"))
             /\ c.monthly = IF monthly = Unknown THEN Unknown ELSE monthly \div h
BY DEF Summed, TotalFor, TotalOf, Having

LEMMA UnitsGrow ==
  ASSUME NEW S, IsFiniteSet(S), NEW f \in [S -> Nat], NEW g \in [S -> Nat],
         \A x \in S : f[x] <= g[x]
  PROVE  Cardinality(Units(f, S)) <= Cardinality(Units(g, S))
<1>1. Units(f, S) \subseteq Units(g, S)
  <2>1. \A x \in S : \A n : n \in 1..f[x] => n \in 1..g[x]
    OBVIOUS
  <2> QED BY <2>1 DEF Units
<1>2. IsFiniteSet(Units(g, S))
  BY UnitsFinite
<1> QED BY <1>1, <1>2, FS_Subset

LEMMA TotalOfType ==
  ASSUME NEW lines \in Seq(LineRows), NEW I \in SUBSET DOMAIN lines
  PROVE  /\ IsFiniteSet(I)
         /\ TotalOf(lines, I) = Unknown <=> \E i \in I : lines[i].total = Unknown
         /\ TotalOf(lines, I) # Unknown =>
              /\ [i \in I |-> lines[i].total] \in [I -> Nat]
              /\ TotalOf(lines, I) = Cardinality(Units([i \in I |-> lines[i].total], I))
              /\ TotalOf(lines, I) \in Nat
<1> DEFINE f == [i \in I |-> lines[i].total]
<1>1. IsFiniteSet(I)
  <2>1. IsFiniteSet(DOMAIN lines)
    BY Interval
  <2> QED BY <2>1, FS_Subset
<1>2. CASE \E i \in I : lines[i].total = Unknown
  BY <1>1, <1>2 DEF TotalOf
<1>3. CASE \A i \in I : lines[i].total # Unknown
  <2>1. \A i \in I : lines[i].total \in Nat
    <3>1. \A i \in I : lines[i] \in LineRows
      OBVIOUS
    <3> QED BY <1>3, <3>1 DEF LineRows, Known
  <2>2. f \in [I -> Nat]
    BY <2>1
  <2>3. TotalOf(lines, I) = Total(f)
    BY <1>3 DEF TotalOf
  <2> HIDE DEF f
  <2>4. Total(f) = Cardinality(Units(f, I))
    BY <1>1, <2>2, TotalCounts
  <2>5. Total(f) \in Nat
    BY <1>1, <2>2, <2>4, UnitsFinite
  <2>6. TotalOf(lines, I) # Unknown
    BY <2>3, <2>5 DEF Unknown
  <2> QED BY <1>1, <1>3, <2>2, <2>3, <2>4, <2>5, <2>6 DEF f
<1> QED BY <1>2, <1>3

LEMMA TotalOfGrows ==
  ASSUME NEW lines \in Seq(LineRows), NEW more \in Seq(LineRows),
         NEW I \in SUBSET DOMAIN lines, I \subseteq DOMAIN more,
         \A i \in I : lines[i].total # Unknown /\ more[i].total # Unknown,
         \A i \in I : lines[i].total <= more[i].total
  PROVE  /\ TotalOf(lines, I) \in Nat /\ TotalOf(more, I) \in Nat
         /\ TotalOf(lines, I) <= TotalOf(more, I)
<1> DEFINE f == [i \in I |-> lines[i].total]
           g == [i \in I |-> more[i].total]
<1>1. /\ IsFiniteSet(I) /\ f \in [I -> Nat] /\ TotalOf(lines, I) = Cardinality(Units(f, I))
      /\ TotalOf(lines, I) \in Nat
  BY TotalOfType
<1>2. /\ g \in [I -> Nat] /\ TotalOf(more, I) = Cardinality(Units(g, I)) /\ TotalOf(more, I) \in Nat
  BY TotalOfType
<1>3. \A i \in I : f[i] <= g[i]
  OBVIOUS
<1> HIDE DEF f, g
<1> QED BY <1>1, <1>2, <1>3, UnitsGrow

LEMMA TimesGrows ==
  ASSUME NEW a \in Nat, NEW b \in Nat, a <= b, NEW c \in Nat
  PROVE  a * c <= b * c
OBVIOUS

LEMMA QuotientGrows ==
  ASSUME NEW a \in Nat, NEW b \in Nat, a <= b, NEW d \in Nat \ {0}
  PROVE  a \div d <= b \div d
<1> DEFINE x == a \div d
           y == b \div d
<1>1. x \in Nat /\ y \in Nat
  BY QuotientType
<1>2. d * x <= a /\ b < d * y + d
  OBVIOUS
<1>3. SUFFICES ASSUME y + 1 <= x PROVE FALSE
  BY <1>1
<1> HIDE DEF x, y
<1>4. d * (y + 1) <= d * x
  BY <1>1, <1>3
<1>5. d * (y + 1) = d * y + d
  BY <1>1
<1>6. d * y \in Int /\ d * x \in Int
  BY <1>1
<1> QED BY <1>2, <1>4, <1>5, <1>6

LEMMA RoundedGrows ==
  ASSUME NEW a \in Nat, NEW b \in Nat, a <= b, NEW d \in Nat \ {0}
  PROVE  Rounded(a, d) <= Rounded(b, d)
<1>1. 2 * a + d \in Nat /\ 2 * b + d \in Nat /\ 2 * a + d <= 2 * b + d /\ 2 * d \in Nat \ {0}
  OBVIOUS
<1> QED BY <1>1, QuotientGrows DEF Rounded
-------------------------------------------------------------------------------
(* Costs and budget of a tighter scenario.                                 *)

\* the second line is at least as dear, the second row at least as bad
MoreLines ==
  {z \in LineRows \X LineRows :
     /\ z[2].category = z[1].category /\ z[2].recurrence = z[1].recurrence
     /\ (z[1].total = Unknown) <=> (z[2].total = Unknown)
     /\ z[1].total <= z[2].total}
WorseRows == {z \in Rows \X Rows : z[1].status = "FAIL" => z[2].status = "FAIL"}

LEMMA LineGrows ==
  ASSUME NEW id, NEW category, NEW recurrence, NEW a \in Known, NEW b \in Known, NEW price \in Int,
         NEW source, NEW h \in Nat, a <= b, (a = Unknown) <=> (b = Unknown),
         Line(id, category, recurrence, a, price, source, h) \in LineRows,
         Line(id, category, recurrence, b, price, source, h) \in LineRows
  PROVE  <<Line(id, category, recurrence, a, price, source, h),
           Line(id, category, recurrence, b, price, source, h)>> \in MoreLines
<1> DEFINE l == Line(id, category, recurrence, a, price, source, h)
           m == Line(id, category, recurrence, b, price, source, h)
           unit == PriceValue(price)
<1>1. /\ l.category = m.category /\ l.recurrence = m.recurrence
      /\ l.total \in Known /\ m.total \in Known
  <2>1. /\ l.category = m.category /\ l.recurrence = m.recurrence
    BY DEF Line
  <2>2. l.total \in Known /\ m.total \in Known
    <3> HIDE DEF l, m
    <3>1. l \in LineRows /\ m \in LineRows
      BY DEF l, m
    <3> QED BY <3>1 DEF LineRows
  <2> QED BY <2>1, <2>2
<1>2. /\ (l.total = Unknown) <=> (a = Unknown \/ unit = Unknown)
      /\ (m.total = Unknown) <=> (b = Unknown \/ unit = Unknown)
  BY LineType
<1>3. l.total <= m.total
  <2>1. CASE a = Unknown \/ unit = Unknown
    BY <1>1, <1>2, <2>1 DEF Unknown
  <2>2. CASE ~(a = Unknown \/ unit = Unknown)
    <3> DEFINE x == Rounded(a * unit, QuantityScale)
               y == Rounded(b * unit, QuantityScale)
    <3>1. a \in Nat /\ b \in Nat /\ unit \in Nat
      BY <2>2, PriceType DEF Known
    <3>2. a * unit \in Nat /\ b * unit \in Nat /\ a * unit <= b * unit
      <4> HIDE DEF unit
      <4> QED BY <3>1, TimesType, TimesGrows
    <3>3. x <= y /\ x \in Nat /\ y \in Nat
      BY <3>2, ScaleAssumption, RoundedGrows, RoundedType
    <3>4. /\ l.total = IF recurrence = "MONTHLY" THEN x * h ELSE x
          /\ m.total = IF recurrence = "MONTHLY" THEN y * h ELSE y
      BY <2>2 DEF Line
    <3> HIDE DEF x, y, l, m
    <3>5. x * h <= y * h
      BY <3>3, TimesGrows
    <3> QED BY <3>3, <3>4, <3>5
  <2> QED BY <2>1, <2>2
<1> HIDE DEF l, m
<1>4. l \in LineRows /\ m \in LineRows
  BY DEF l, m
<1>5. <<l, m>> \in MoreLines
  BY <1>1, <1>2, <1>3, <1>4 DEF MoreLines
<1> QED BY <1>5 DEF l, m

LEMMA TighterLines ==
  ASSUME NEW s \in ScenarioInputs, NEW t \in ScenarioInputs, SameNames(s, t), TighterThan(s, t),
         NEW p \in CatalogPlans, NEW h \in Nat
  PROVE  Alike(LineRows, MoreLines, Lines(s, p, h), Lines(t, p, h))
<1>1. ASSUME NEW i \in DOMAIN s.workloads
      PROVE  LET w == s.workloads[i]
                 u == t.workloads[i]
             IN  /\ <<RuntimeLine(w, p, h), RuntimeLine(u, p, h)>> \in MoreLines
                 /\ <<StorageLine(w, h), StorageLine(u, h)>> \in MoreLines
                 /\ <<MemoryLine(w, h), MemoryLine(u, h)>> \in MoreLines
  <2> DEFINE w == s.workloads[i]
             u == t.workloads[i]
  <2>1. w \in WorkloadInputs /\ u \in WorkloadInputs /\ u.key = w.key
    BY ScenarioNumbers DEF SameNames
  <2>2. /\ \A f \in MeasuredFields : (u[f] = Unknown) = (w[f] = Unknown)
        /\ \A f \in {"user_count", "vcpu_count", "memory_gib", "storage_gib"} : w[f] <= u[f]
    <3>1. /\ \A f \in MeasuredFields : w[f] \in Known /\ u[f] \in Known
          /\ TighterWorkload(w, u)
      BY ScenarioNumbers DEF SameNames, TighterThan
    <3> HIDE DEF w, u
    <3> QED BY <3>1 DEF TighterWorkload, MeasuredFields, Known, Unknown
  <2> HIDE DEF w, u
  <2>3. /\ w.vcpu_count \in Known /\ u.vcpu_count \in Known
        /\ w.storage_gib \in Known /\ u.storage_gib \in Known
        /\ w.memory_gib \in Known /\ u.memory_gib \in Known
        /\ w.user_count \in Known /\ u.user_count \in Known
    BY <2>1 DEF WorkloadInputs, Positive
  <2>4. /\ p.price \in Int /\ Catalog.storage \in Int /\ Catalog.memory \in Int
    BY CatalogAssumption DEF CatalogPlans
  <2>5. /\ w.vcpu_count <= u.vcpu_count /\ (w.vcpu_count = Unknown <=> u.vcpu_count = Unknown)
        /\ w.storage_gib <= u.storage_gib /\ (w.storage_gib = Unknown <=> u.storage_gib = Unknown)
        /\ w.memory_gib <= u.memory_gib /\ (w.memory_gib = Unknown <=> u.memory_gib = Unknown)
        /\ w.user_count <= u.user_count /\ (w.user_count = Unknown <=> u.user_count = Unknown)
    BY <2>2 DEF MeasuredFields
  <2>6. <<StorageLine(w, h), StorageLine(u, h)>> \in MoreLines
    <3>1. StorageLine(w, h) \in LineRows /\ StorageLine(u, h) \in LineRows
      BY <2>1, LineTypes
    <3> QED BY <2>1, <2>3, <2>4, <2>5, <3>1, LineGrows DEF StorageLine
  <2>7. <<MemoryLine(w, h), MemoryLine(u, h)>> \in MoreLines
    <3>1. MemoryLine(w, h) \in LineRows /\ MemoryLine(u, h) \in LineRows
      BY <2>1, LineTypes
    <3> QED BY <2>1, <2>3, <2>4, <2>5, <3>1, LineGrows DEF MemoryLine
  <2>8. People(w) <= People(u) /\ (People(w) = Unknown <=> People(u) = Unknown)
        /\ People(w) \in Known /\ People(u) \in Known
    <3>1. /\ People(w) \in Known /\ People(u) \in Known
          /\ People(w) = Unknown <=> w.user_count = Unknown
          /\ People(u) = Unknown <=> u.user_count = Unknown
      BY <2>1, PeopleType
    <3>2. CASE w.user_count = Unknown
      BY <2>5, <3>1, <3>2 DEF Unknown
    <3>3. CASE w.user_count # Unknown
      <4>1. w.user_count \in Nat /\ u.user_count \in Nat /\ QuantityScale \in Nat
        BY <2>3, <2>5, <3>3, ScaleAssumption DEF Known
      <4>2. w.user_count * QuantityScale <= u.user_count * QuantityScale
        BY <2>5, <4>1, TimesGrows
      <4>3. People(w) = w.user_count * QuantityScale /\ People(u) = u.user_count * QuantityScale
        BY <2>5, <3>3 DEF People
      <4> QED BY <2>5, <3>1, <4>2, <4>3
    <3> QED BY <3>2, <3>3
  <2>9. <<RuntimeLine(w, p, h), RuntimeLine(u, p, h)>> \in MoreLines
    <3>1. RuntimeLine(w, p, h) \in LineRows /\ RuntimeLine(u, p, h) \in LineRows
      BY <2>1, LineTypes
    <3> DEFINE a == IF p.unit = "user" THEN People(w) ELSE w.vcpu_count
               b == IF p.unit = "user" THEN People(u) ELSE u.vcpu_count
    <3>2. a \in Known /\ b \in Known /\ a <= b /\ (a = Unknown <=> b = Unknown)
      BY <2>3, <2>5, <2>8
    <3>3. /\ RuntimeLine(w, p, h) = Line(<<w.key, "runtime">>, "OPEX", "MONTHLY", a, p.price, p.key, h)
          /\ RuntimeLine(u, p, h) = Line(<<w.key, "runtime">>, "OPEX", "MONTHLY", b, p.price, p.key, h)
      BY <2>1 DEF RuntimeLine
    <3> HIDE DEF a, b
    <3> QED BY <2>4, <3>1, <3>2, <3>3, LineGrows
  <2> QED BY <2>6, <2>7, <2>9 DEF w, u
<1>2. \A l \in LineRows : <<l, l>> \in MoreLines
  BY DEF LineRows, MoreLines, Known, Unknown
<1> QED BY <1>1, <1>2, LinesAlike DEF SameNames

LEMMA BudgetTighter ==
  ASSUME NEW s \in ScenarioInputs, NEW t \in ScenarioInputs, TighterThan(s, t),
         NEW h \in Nat \ {0}, NEW a, NEW b, Alike(LineRows, MoreLines, a, b),
         BudgetCheck(s, Summed(a, h)).status = "FAIL"
  PROVE  BudgetCheck(t, Summed(b, h)).status = "FAIL"
<1>1. /\ a \in Seq(LineRows) /\ b \in Seq(LineRows) /\ DOMAIN a = DOMAIN b
      /\ \A i \in DOMAIN a : a[i] \in LineRows /\ b[i] \in LineRows /\ <<a[i], b[i]>> \in MoreLines
  BY DEF Alike
<1>2. \A i \in DOMAIN a : /\ b[i].recurrence = a[i].recurrence
                          /\ (a[i].total = Unknown) <=> (b[i].total = Unknown)
                          /\ a[i].total <= b[i].total
  BY <1>1 DEF MoreLines
<1>3. /\ Summed(a, h).complete /\ Unknown \notin {s.initial, s.monthly}
      /\ ~(Summed(a, h).startup <= s.initial /\ Summed(a, h).monthly <= s.monthly)
  BY DEF BudgetCheck, Check
<1>4. \A i \in DOMAIN a : a[i].total # Unknown /\ b[i].total # Unknown
  BY <1>2, <1>3, SummedParts
<1>5. Summed(b, h).complete
  BY <1>1, <1>4, SummedParts
<1> DEFINE I(x) == Having(a, "recurrence", x)
<1>6. \A x : I(x) = Having(b, "recurrence", x) /\ I(x) \in SUBSET DOMAIN a
  BY <1>1, <1>2 DEF Having
<1>7. \A x : /\ TotalOf(a, I(x)) \in Nat /\ TotalOf(b, I(x)) \in Nat
             /\ TotalOf(a, I(x)) <= TotalOf(b, I(x))
  <2>1. ASSUME NEW x PROVE /\ TotalOf(a, I(x)) \in Nat /\ TotalOf(b, I(x)) \in Nat
                           /\ TotalOf(a, I(x)) <= TotalOf(b, I(x))
    <3> DEFINE J == I(x)
    <3>1. J \in SUBSET DOMAIN a
      BY <1>6
    <3> HIDE DEF J
    <3>2. /\ TotalOf(a, J) \in Nat /\ TotalOf(b, J) \in Nat /\ TotalOf(a, J) <= TotalOf(b, J)
      BY <1>1, <1>2, <1>4, <3>1, TotalOfGrows
    <3> QED BY <3>2 DEF J
  <2> QED BY <2>1
<1> HIDE DEF I
<1>8. /\ Summed(a, h).startup = TotalOf(a, I("ONCE")) /\ Summed(b, h).startup = TotalOf(b, I("ONCE"))
      /\ Summed(a, h).monthly = TotalOf(a, I("MONTHLY")) \div h
      /\ Summed(b, h).monthly = TotalOf(b, I("MONTHLY")) \div h
  <2>1. \A x : TotalOf(a, I(x)) # Unknown /\ TotalOf(b, I(x)) # Unknown
    BY <1>7 DEF Unknown
  <2>2. /\ I("ONCE") = Having(a, "recurrence", "ONCE") /\ I("ONCE") = Having(b, "recurrence", "ONCE")
        /\ I("MONTHLY") = Having(a, "recurrence", "MONTHLY")
        /\ I("MONTHLY") = Having(b, "recurrence", "MONTHLY")
    BY <1>6 DEF I
  <2> QED BY <2>1, <2>2, SummedParts
<1>9. /\ Summed(a, h).startup \in Nat /\ Summed(b, h).startup \in Nat
      /\ Summed(a, h).startup <= Summed(b, h).startup
      /\ Summed(a, h).monthly \in Nat /\ Summed(b, h).monthly \in Nat
      /\ Summed(a, h).monthly <= Summed(b, h).monthly
  BY <1>7, <1>8, QuotientType, QuotientGrows
<1>10. /\ s.initial \in Nat /\ s.monthly \in Nat /\ t.initial \in Nat /\ t.monthly \in Nat
       /\ t.initial <= s.initial /\ t.monthly <= s.monthly
  <2>1. /\ (t.initial = Unknown) = (s.initial = Unknown) /\ t.initial <= s.initial
        /\ (t.monthly = Unknown) = (s.monthly = Unknown) /\ t.monthly <= s.monthly
    BY DEF TighterThan, ProfileFields
  <2>2. s.initial \in Known /\ s.monthly \in Known /\ t.initial \in Known /\ t.monthly \in Known
    BY DEF ScenarioInputs
  <2> QED BY <1>3, <2>1, <2>2 DEF Known
<1>11. Unknown \notin {t.initial, t.monthly}
  BY <1>10 DEF Unknown
<1>12. ~(Summed(b, h).startup <= t.initial /\ Summed(b, h).monthly <= t.monthly)
  BY <1>3, <1>9, <1>10
<1> QED BY <1>5, <1>11, <1>12 DEF BudgetCheck, Check
-------------------------------------------------------------------------------
(* Asking for more, or spending less, brings no plan back.                 *)

LEMMA CheckStatus ==
  ASSUME NEW key, NEW a, NEW b
  PROVE  /\ Check(key, a, b).status = "FAIL" <=> a /\ ~b
         /\ Check(key, a, b).status = "UNKNOWN" <=> ~a
BY DEF Check

LEMMA TighterChecks ==
  ASSUME NEW w \in WorkloadInputs, NEW u \in WorkloadInputs, u.key = w.key, u.type = w.type,
         TighterWorkload(w, u), NEW p \in CatalogPlans
  PROVE  Alike(Rows, WorseRows, WorkloadChecks(w, p), WorkloadChecks(u, p))
<1>1. <<FunctionCheck(w, p), FunctionCheck(u, p)>> \in WorseRows
  BY CheckTypes DEF FunctionCheck, WorseRows
<1>2. ASSUME NEW i \in 1..4
      PROVE  <<AmountCheck(w, p, i), AmountCheck(u, p, i)>> \in WorseRows
  <2> DEFINE f == Amounts[i]
             capacity == PriceValue(p.capacities[f])
  <2>1. f \in {"user_count", "vcpu_count", "memory_gib", "storage_gib"}
    BY FourOf
  <2>2. capacity \in Known
    <3>1. f \in {Amounts[j] : j \in DOMAIN Amounts}
      BY FourOf
    <3>2. p.capacities[f] \in Int
      BY <3>1 DEF CatalogPlans
    <3> QED BY <3>2, PriceType
  <2>3. w[f] \in Known /\ u[f] \in Known /\ (u[f] = Unknown) = (w[f] = Unknown) /\ u[f] >= w[f]
    <3> HIDE DEF f
    <3>1. w[f] \in Known /\ u[f] \in Known
      BY <2>1 DEF WorkloadInputs, Positive
    <3>2. f \in MeasuredFields
      BY <2>1 DEF MeasuredFields
    <3> QED BY <2>1, <3>1, <3>2 DEF TighterWorkload
  <2>4. AmountCheck(w, p, i).status = "FAIL" <=>
          Unknown \notin {w[f], capacity} /\ ~(w[f] <= capacity)
    BY CheckStatus DEF AmountCheck
  <2>5. AmountCheck(u, p, i).status = "FAIL" <=>
          Unknown \notin {u[f], capacity} /\ ~(u[f] <= capacity)
    BY CheckStatus DEF AmountCheck
  <2> HIDE DEF f, capacity
  <2>6. AmountCheck(w, p, i).status = "FAIL" => AmountCheck(u, p, i).status = "FAIL"
    BY <2>2, <2>3, <2>4, <2>5 DEF Known, Unknown
  <2> QED BY <2>6, CheckTypes DEF WorseRows
<1>3. ASSUME NEW i \in 1..4
      PROVE  <<TargetCheck(w, p, i), TargetCheck(u, p, i)>> \in WorseRows
  <2> DEFINE f == Targets[i].field
             has == p[Targets[i].model]
             most == Targets[i].atMost
  <2>1. f \in {"max_latency_ms", "availability_percent", "rto_seconds", "rpo_seconds"}
        /\ (most <=> f # "availability_percent")
    BY FourOf
  <2>2. has \in Nat
    <3>1. Targets[i].model \in {"latency", "availability", "rto", "rpo"}
      BY FourOf
    <3> QED BY <3>1 DEF CatalogPlans
  <2>3. /\ TargetCheck(w, p, i).status = "FAIL" <=>
             w[f] # Unknown /\ ~(IF most THEN has <= w[f] ELSE has >= w[f])
        /\ TargetCheck(u, p, i).status = "FAIL" <=>
             u[f] # Unknown /\ ~(IF most THEN has <= u[f] ELSE has >= u[f])
    BY CheckStatus DEF TargetCheck
  <2> HIDE DEF f, has, most
  <2>4. w[f] \in Known /\ u[f] \in Known /\ (u[f] = Unknown) = (w[f] = Unknown)
    <3>1. w[f] \in Known /\ u[f] \in Known
      BY <2>1 DEF WorkloadInputs, Positive
    <3>2. f \in MeasuredFields
      BY <2>1 DEF MeasuredFields
    <3> QED BY <3>1, <3>2 DEF TighterWorkload
  <2>5. IF most THEN u[f] <= w[f] ELSE u[f] >= w[f]
    BY <2>1 DEF TighterWorkload
  <2>6. TargetCheck(w, p, i).status = "FAIL" => TargetCheck(u, p, i).status = "FAIL"
    BY <2>2, <2>3, <2>4, <2>5 DEF Known, Unknown
  <2> QED BY <2>6, CheckTypes DEF WorseRows
<1>4. <<InternetCheck(w), InternetCheck(u)>> \in WorseRows
  BY CheckTypes DEF InternetCheck, WorseRows, TighterWorkload
<1>5. <<SensitivityCheck(w), SensitivityCheck(u)>> \in WorseRows
  <2>1. SensitivityCheck(w).status = "FAIL" => SensitivityCheck(u).status = "FAIL"
    BY CheckStatus DEF SensitivityCheck, TighterWorkload
  <2> QED BY <2>1, CheckTypes DEF WorseRows
<1> QED BY <1>1, <1>2, <1>3, <1>4, <1>5, ChecksAlike

\* a plan is excluded exactly when a demand, or a hard budget, is not met
Failing(s, o, p) ==
  \/ Occurs("FAIL", Demands(s, p, o.date))
  \/ s.hard /\ BudgetCheck(s, Costs(s, p, o.horizon)).status = "FAIL"

LEMMA ExcludedIs ==
  ASSUME NEW s \in ScenarioInputs, NEW o, NEW p
  PROVE  Candidate(s, o, p).status = "EXCLUDED" <=> Failing(s, o, p)
<1> DEFINE k == Costs(s, p, o.horizon)
           C == Constraints(s, p, k, o.date)
<1>1. Candidate(s, o, p).status = "EXCLUDED" <=> Occurs("FAIL", C)
  BY DEF Candidate, Priced, Judged, Status, Occurs
<1>2. Occurs("FAIL", C) <=>
        Occurs("FAIL", Demands(s, p, o.date)) \/ (s.hard /\ BudgetCheck(s, k).status = "FAIL")
  <2> HIDE DEF k
  <2> QED BY ConstraintStates
<1> QED BY <1>1, <1>2 DEF Failing

LEMMA OptionNumbers ==
  ASSUME NEW o \in OptionInputs PROVE o.horizon \in Nat \ {0} /\ o.date \in Int
BY DEF OptionInputs

LEMMA TighterStaysExcluded ==
  ASSUME NEW s \in ScenarioInputs, NEW t \in ScenarioInputs, SameNames(s, t), TighterThan(s, t),
         NEW o \in OptionInputs, NEW p \in CatalogPlans, Candidate(s, o, p).status = "EXCLUDED"
  PROVE  Candidate(t, o, p).status = "EXCLUDED"
<1> DEFINE h == o.horizon
           cs == Costs(s, p, h)
           ct == Costs(t, p, h)
<1>1. h \in Nat \ {0}
  BY OptionNumbers
<1> DEFINE D(x) == Demands(x, p, o.date)
<1>2. /\ Occurs("FAIL", D(s)) \/ (s.hard /\ BudgetCheck(s, cs).status = "FAIL")
      /\ Occurs("FAIL", D(t)) => Candidate(t, o, p).status = "EXCLUDED"
      /\ t.hard /\ BudgetCheck(t, ct).status = "FAIL" => Candidate(t, o, p).status = "EXCLUDED"
  BY ExcludedIs DEF Failing
<1>3. Alike(Rows, WorseRows, D(s), D(t))
  <2>1. /\ PriceCheck(o.date) \in Rows /\ RegionCheck(s) \in Rows /\ RegionCheck(t) \in Rows
        /\ StaffCheck(s, p) \in Rows /\ StaffCheck(t, p) \in Rows
    BY CheckType DEF PriceCheck, RegionCheck, StaffCheck, CheckNames
  <2>2. <<PriceCheck(o.date), PriceCheck(o.date)>> \in WorseRows
    BY <2>1 DEF WorseRows
  <2>3. <<RegionCheck(s), RegionCheck(t)>> \in WorseRows
    <3>1. RegionCheck(s) = RegionCheck(t)
      BY DEF RegionCheck, TighterThan
    <3> QED BY <2>1, <3>1 DEF WorseRows
  <2>4. <<StaffCheck(s, p), StaffCheck(t, p)>> \in WorseRows
    <3>1. /\ s.staff \in Known /\ t.staff \in Known /\ (t.staff = Unknown) = (s.staff = Unknown)
          /\ t.staff <= s.staff /\ p.staff \in Nat
      BY DEF ScenarioInputs, TighterThan, ProfileFields, CatalogPlans
    <3>2. /\ StaffCheck(s, p).status = "FAIL" <=> s.staff # Unknown /\ ~(s.staff >= p.staff)
          /\ StaffCheck(t, p).status = "FAIL" <=> t.staff # Unknown /\ ~(t.staff >= p.staff)
      BY CheckStatus DEF StaffCheck
    <3>3. StaffCheck(s, p).status = "FAIL" => StaffCheck(t, p).status = "FAIL"
      BY <3>1, <3>2 DEF Known, Unknown
    <3> QED BY <2>1, <3>3 DEF WorseRows
  <2>5. \A i \in DOMAIN s.workloads :
          Alike(Rows, WorseRows, WorkloadChecks(s.workloads[i], p), WorkloadChecks(t.workloads[i], p))
    <3>1. ASSUME NEW i \in DOMAIN s.workloads
          PROVE  /\ s.workloads[i] \in WorkloadInputs /\ t.workloads[i] \in WorkloadInputs
                 /\ t.workloads[i].key = s.workloads[i].key /\ t.workloads[i].type = s.workloads[i].type
                 /\ TighterWorkload(s.workloads[i], t.workloads[i])
      BY ScenarioNumbers DEF SameNames, TighterThan
    <3> QED BY <3>1, TighterChecks
  <2> QED BY <2>2, <2>3, <2>4, <2>5, DemandsAlike DEF SameNames
<1>4. CASE Occurs("FAIL", D(s))
  <2> HIDE DEF D
  <2>1. DOMAIN D(s) = DOMAIN D(t) /\ \A j \in DOMAIN D(s) : <<D(s)[j], D(t)[j]>> \in WorseRows
    BY <1>3 DEF Alike
  <2>2. Occurs("FAIL", D(t))
    BY <1>4, <2>1 DEF WorseRows, Occurs
  <2> QED BY <1>2, <2>2
<1>5. CASE s.hard /\ BudgetCheck(s, cs).status = "FAIL"
  <2>1. Alike(LineRows, MoreLines, Lines(s, p, h), Lines(t, p, h))
    <3> HIDE DEF h
    <3> QED BY <1>1, TighterLines
  <2>2. BudgetCheck(t, ct).status = "FAIL"
    <3> HIDE DEF h
    <3> QED BY <1>1, <1>5, <2>1, BudgetTighter DEF Costs
  <2>3. t.hard
    BY <1>5 DEF TighterThan
  <2> HIDE DEF D
  <2> QED BY <1>2, <2>2, <2>3
<1> HIDE DEF D
<1> QED BY <1>2, <1>4, <1>5

(* Asking for more, or spending less, never brings an excluded plan back.  *)
THEOREM TighteningHolds == DecisionSpec => TighteningExcludes
<1> DEFINE Step == Reassessed /\ ~LessKnown(scenario, scenario') =>
                     Chosen(draft, "EXCLUDED") \subseteq Chosen(draft', "EXCLUDED")
<1>1. DecisionInv /\ [DecisionNext]_decisionVars => [Step]_decisionVars
  <2> SUFFICES ASSUME DecisionInv, [DecisionNext]_decisionVars, Reassessed,
                      ~LessKnown(scenario, scenario')
               PROVE  Chosen(draft, "EXCLUDED") \subseteq Chosen(draft', "EXCLUDED")
    OBVIOUS
  <2>1. Edit
    BY DEF DecisionNext, Damage, decisionVars, Reassessed
  <2>2. PICK s \in Forgotten(scenario) \cup Tightened(scenario) :
          scenario' = s /\ draft' = Draft(s, options)
    BY <2>1 DEF Edit
  <2>3. scenario \in ScenarioInputs /\ options \in OptionInputs /\ draft = Draft(scenario, options)
    BY DEF DecisionInv
  <2>4. s \in Tightened(scenario)
    BY <2>2, <2>3, ForgottenKnowsLess
  <2>5. s \in ScenarioInputs /\ SameNames(scenario, s) /\ TighterThan(scenario, s)
    BY <2>3, <2>4, TightenedIsTighter
  <2>6. /\ Chosen(draft, "EXCLUDED") = KeysWith(scenario, options, "EXCLUDED")
        /\ Chosen(draft', "EXCLUDED") = KeysWith(s, options, "EXCLUDED")
    BY <2>2, <2>3, DraftParts
  <2>7. \A i \in DOMAIN Catalog.plans :
          Row(scenario, options, i).status = "EXCLUDED" => Row(s, options, i).status = "EXCLUDED"
    BY <2>3, <2>5, CatalogAssumption, TighterStaysExcluded DEF Row
  <2> QED BY <2>6, <2>7 DEF KeysWith
<1>2. [][Step]_decisionVars <=> TighteningExcludes
  BY DEF TighteningExcludes
<1> QED BY <1>1, <1>2, DecisionInvariance, PTL DEF DecisionSpec
-------------------------------------------------------------------------------
(* Cost lines and sums of a scenario that says less.                       *)

\* what the second line, or row, still says is what the first says
KnownLines ==
  {z \in LineRows \X LineRows :
     /\ z[2].category = z[1].category /\ z[2].recurrence = z[1].recurrence
     /\ z[2].total # Unknown => z[1].total = z[2].total}
KnownRows == {z \in Rows \X Rows : z[2].status # "UNKNOWN" => z[1].status = z[2].status}

LessWorkload(w, u) ==
  /\ \A f \in MeasuredFields : u[f] \in {w[f], Unknown}
  /\ \A f \in {"internet", "sensitivity"} : u[f] \in {w[f], "unknown"}

LEMMA LineForgets ==
  ASSUME NEW id, NEW category, NEW recurrence, NEW a \in Known, NEW b \in {a, Unknown},
         NEW price \in Int, NEW source, NEW h \in Nat,
         Line(id, category, recurrence, a, price, source, h) \in LineRows,
         Line(id, category, recurrence, b, price, source, h) \in LineRows
  PROVE  <<Line(id, category, recurrence, a, price, source, h),
           Line(id, category, recurrence, b, price, source, h)>> \in KnownLines
<1> DEFINE l == Line(id, category, recurrence, a, price, source, h)
           m == Line(id, category, recurrence, b, price, source, h)
<1>1. l.category = m.category /\ l.recurrence = m.recurrence
  BY DEF Line
<1>2. b = Unknown => m.total = Unknown
  BY DEF Line
<1>3. b = a => m = l
  OBVIOUS
<1> HIDE DEF l, m
<1>4. l \in LineRows /\ m \in LineRows
  BY DEF l, m
<1>5. <<l, m>> \in KnownLines
  BY <1>1, <1>2, <1>3, <1>4 DEF KnownLines
<1> QED BY <1>5 DEF l, m

LEMMA LessLines ==
  ASSUME NEW s \in ScenarioInputs, NEW t \in ScenarioInputs, SameNames(s, t), LessKnown(s, t),
         NEW p \in CatalogPlans, NEW h \in Nat
  PROVE  Alike(LineRows, KnownLines, Lines(s, p, h), Lines(t, p, h))
<1>1. ASSUME NEW i \in DOMAIN s.workloads
      PROVE  LET w == s.workloads[i]
                 u == t.workloads[i]
             IN  /\ <<RuntimeLine(w, p, h), RuntimeLine(u, p, h)>> \in KnownLines
                 /\ <<StorageLine(w, h), StorageLine(u, h)>> \in KnownLines
                 /\ <<MemoryLine(w, h), MemoryLine(u, h)>> \in KnownLines
  <2> DEFINE w == s.workloads[i]
             u == t.workloads[i]
  <2>1. w \in WorkloadInputs /\ u \in WorkloadInputs /\ u.key = w.key
    BY ScenarioNumbers DEF SameNames
  <2>2. \A f \in MeasuredFields : u[f] \in {w[f], Unknown}
    BY DEF LessKnown
  <2> HIDE DEF w, u
  <2>3. /\ w.vcpu_count \in Known /\ w.storage_gib \in Known
        /\ w.memory_gib \in Known /\ w.user_count \in Known
    BY <2>1 DEF WorkloadInputs, Positive
  <2>4. /\ p.price \in Int /\ Catalog.storage \in Int /\ Catalog.memory \in Int
    BY CatalogAssumption DEF CatalogPlans
  <2>5. /\ u.vcpu_count \in {w.vcpu_count, Unknown} /\ u.storage_gib \in {w.storage_gib, Unknown}
        /\ u.memory_gib \in {w.memory_gib, Unknown} /\ u.user_count \in {w.user_count, Unknown}
    BY <2>2 DEF MeasuredFields
  <2>6. <<StorageLine(w, h), StorageLine(u, h)>> \in KnownLines
    <3>1. StorageLine(w, h) \in LineRows /\ StorageLine(u, h) \in LineRows
      BY <2>1, LineTypes
    <3> QED BY <2>1, <2>3, <2>4, <2>5, <3>1, LineForgets DEF StorageLine
  <2>7. <<MemoryLine(w, h), MemoryLine(u, h)>> \in KnownLines
    <3>1. MemoryLine(w, h) \in LineRows /\ MemoryLine(u, h) \in LineRows
      BY <2>1, LineTypes
    <3> QED BY <2>1, <2>3, <2>4, <2>5, <3>1, LineForgets DEF MemoryLine
  <2>8. People(w) \in Known /\ People(u) \in {People(w), Unknown}
    <3>1. People(w) \in Known
      BY <2>1, PeopleType
    <3>2. u.user_count = Unknown => People(u) = Unknown
      BY DEF People
    <3>3. u.user_count = w.user_count => People(u) = People(w)
      BY DEF People
    <3> QED BY <2>5, <3>1, <3>2, <3>3
  <2>9. <<RuntimeLine(w, p, h), RuntimeLine(u, p, h)>> \in KnownLines
    <3>1. RuntimeLine(w, p, h) \in LineRows /\ RuntimeLine(u, p, h) \in LineRows
      BY <2>1, LineTypes
    <3> DEFINE a == IF p.unit = "user" THEN People(w) ELSE w.vcpu_count
               b == IF p.unit = "user" THEN People(u) ELSE u.vcpu_count
    <3>2. a \in Known /\ b \in {a, Unknown}
      BY <2>3, <2>5, <2>8
    <3>3. /\ RuntimeLine(w, p, h) = Line(<<w.key, "runtime">>, "OPEX", "MONTHLY", a, p.price, p.key, h)
          /\ RuntimeLine(u, p, h) = Line(<<w.key, "runtime">>, "OPEX", "MONTHLY", b, p.price, p.key, h)
      BY <2>1 DEF RuntimeLine
    <3> HIDE DEF a, b
    <3> QED BY <2>4, <3>1, <3>2, <3>3, LineForgets
  <2> QED BY <2>6, <2>7, <2>9 DEF w, u
<1>2. \A l \in LineRows : <<l, l>> \in KnownLines
  BY DEF LineRows, KnownLines
<1> QED BY <1>1, <1>2, LinesAlike DEF SameNames

LEMMA TotalForgets ==
  ASSUME NEW a, NEW b, Alike(LineRows, KnownLines, a, b), NEW f \in {"category", "recurrence"}, NEW x,
         TotalOf(b, Having(b, f, x)) # Unknown
  PROVE  TotalOf(a, Having(a, f, x)) = TotalOf(b, Having(b, f, x))
<1>1. /\ a \in Seq(LineRows) /\ b \in Seq(LineRows) /\ DOMAIN a = DOMAIN b
      /\ \A i \in DOMAIN a : <<a[i], b[i]>> \in KnownLines
  BY DEF Alike
<1>2. \A i \in DOMAIN a : /\ b[i].category = a[i].category /\ b[i].recurrence = a[i].recurrence
                          /\ b[i].total # Unknown => a[i].total = b[i].total
  BY <1>1 DEF KnownLines
<1>3. Having(a, f, x) = Having(b, f, x)
  BY <1>1, <1>2 DEF Having
<1> DEFINE I == Having(b, f, x)
<1>4. I \in SUBSET DOMAIN b
  BY DEF Having
<1>5. \A i \in I : b[i].total # Unknown
  <2>1. TotalOf(b, I) # Unknown
    OBVIOUS
  <2> HIDE DEF I
  <2> QED BY <1>1, <1>4, <2>1, TotalOfType
<1>6. \A i \in I : a[i].total = b[i].total
  BY <1>1, <1>2, <1>4, <1>5
<1> HIDE DEF I
<1>7. [i \in I |-> a[i].total] = [i \in I |-> b[i].total]
  BY <1>6
<1>8. TotalOf(a, I) = TotalOf(b, I)
  BY <1>5, <1>6, <1>7 DEF TotalOf
<1> QED BY <1>3, <1>8 DEF I

\* the parts of the costs that are still known are what they were
LEMMA SumsForget ==
  ASSUME NEW a, NEW b, Alike(LineRows, KnownLines, a, b), NEW h \in Nat \ {0}
  PROVE  /\ Summed(b, h).complete =>
              /\ Summed(a, h).complete /\ Summed(a, h).startup = Summed(b, h).startup
              /\ Summed(a, h).monthly = Summed(b, h).monthly
         /\ Summed(b, h).tco # Unknown => Summed(a, h).tco = Summed(b, h).tco
<1>1. /\ a \in Seq(LineRows) /\ b \in Seq(LineRows) /\ DOMAIN a = DOMAIN b
      /\ \A i \in DOMAIN a : b[i].total # Unknown => a[i].total = b[i].total
  <2>1. /\ a \in Seq(LineRows) /\ b \in Seq(LineRows) /\ DOMAIN a = DOMAIN b
        /\ \A i \in DOMAIN a : <<a[i], b[i]>> \in KnownLines
    BY DEF Alike
  <2> QED BY <2>1 DEF KnownLines
<1> DEFINE A(f, x) == TotalOf(a, Having(a, f, x))
           B(f, x) == TotalOf(b, Having(b, f, x))
<1>2. \A f \in {"category", "recurrence"} : \A x : B(f, x) # Unknown => A(f, x) = B(f, x)
  BY TotalForgets
<1>3. /\ Summed(a, h).complete = \A i \in DOMAIN a : a[i].total # Unknown
      /\ Summed(b, h).complete = \A i \in DOMAIN b : b[i].total # Unknown
  BY SummedParts
<1>4. /\ Summed(a, h).tco = IF Unknown \in {A("category", "CAPEX"), A("category", "OPEX")} THEN Unknown
                            ELSE A("category", "CAPEX") + A("category", "OPEX")
      /\ Summed(b, h).tco = IF Unknown \in {B("category", "CAPEX"), B("category", "OPEX")} THEN Unknown
                            ELSE B("category", "CAPEX") + B("category", "OPEX")
      /\ Summed(a, h).startup = A("recurrence", "ONCE") /\ Summed(b, h).startup = B("recurrence", "ONCE")
      /\ Summed(a, h).monthly = IF A("recurrence", "MONTHLY") = Unknown THEN Unknown
                                ELSE A("recurrence", "MONTHLY") \div h
      /\ Summed(b, h).monthly = IF B("recurrence", "MONTHLY") = Unknown THEN Unknown
                                ELSE B("recurrence", "MONTHLY") \div h
  BY SummedParts
<1>5. (\A i \in DOMAIN b : b[i].total # Unknown) => \A f, x : B(f, x) # Unknown
  <2>1. SUFFICES ASSUME \A i \in DOMAIN b : b[i].total # Unknown, NEW f, NEW x PROVE B(f, x) # Unknown
    OBVIOUS
  <2> DEFINE I == Having(b, f, x)
  <2>2. I \in SUBSET DOMAIN b
    BY DEF Having
  <2> HIDE DEF I
  <2>3. TotalOf(b, I) # Unknown
    BY <1>1, <2>1, <2>2, TotalOfType
  <2> QED BY <2>3 DEF I
<1> HIDE DEF A, B
<1>6. ASSUME Summed(b, h).complete
      PROVE  /\ Summed(a, h).complete /\ Summed(a, h).startup = Summed(b, h).startup
             /\ Summed(a, h).monthly = Summed(b, h).monthly
  <2>1. \A f \in {"category", "recurrence"} : \A x : A(f, x) = B(f, x)
    BY <1>2, <1>3, <1>5, <1>6
  <2>2. A("recurrence", "ONCE") = B("recurrence", "ONCE") /\ A("recurrence", "MONTHLY") = B("recurrence", "MONTHLY")
    BY <2>1
  <2>3. Summed(a, h).complete
    BY <1>1, <1>3, <1>6
  <2> QED BY <1>4, <2>2, <2>3
<1>7. ASSUME Summed(b, h).tco # Unknown PROVE Summed(a, h).tco = Summed(b, h).tco
  <2>1. B("category", "CAPEX") # Unknown /\ B("category", "OPEX") # Unknown
    BY <1>4, <1>7
  <2>2. A("category", "CAPEX") = B("category", "CAPEX") /\ A("category", "OPEX") = B("category", "OPEX")
    BY <1>2, <2>1
  <2> QED BY <1>4, <2>2
<1> QED BY <1>6, <1>7
-------------------------------------------------------------------------------
(* Its demands and constraints.                                            *)

LEMMA SameOrUnknown ==
  ASSUME NEW x \in Rows, NEW y \in Rows, y = x \/ y.status = "UNKNOWN"
  PROVE  <<x, y>> \in KnownRows
BY DEF KnownRows

LEMMA LessChecks ==
  ASSUME NEW w \in WorkloadInputs, NEW u \in WorkloadInputs, u.key = w.key, u.type = w.type,
         LessWorkload(w, u), NEW p
  PROVE  Alike(Rows, KnownRows, WorkloadChecks(w, p), WorkloadChecks(u, p))
<1>1. <<FunctionCheck(w, p), FunctionCheck(u, p)>> \in KnownRows
  <2>1. FunctionCheck(u, p) = FunctionCheck(w, p)
    BY DEF FunctionCheck
  <2> QED BY <2>1, CheckTypes, SameOrUnknown
<1>2. ASSUME NEW i \in 1..4
      PROVE  <<AmountCheck(w, p, i), AmountCheck(u, p, i)>> \in KnownRows
  <2> DEFINE f == Amounts[i]
  <2>1. u[f] \in {w[f], Unknown}
    BY FourOf DEF LessWorkload, MeasuredFields
  <2>2. u[f] = w[f] => AmountCheck(u, p, i) = AmountCheck(w, p, i)
    BY DEF AmountCheck
  <2>3. u[f] = Unknown => AmountCheck(u, p, i).status = "UNKNOWN"
    BY CheckStatus DEF AmountCheck
  <2> QED BY <2>1, <2>2, <2>3, CheckTypes, SameOrUnknown
<1>3. ASSUME NEW i \in 1..4
      PROVE  <<TargetCheck(w, p, i), TargetCheck(u, p, i)>> \in KnownRows
  <2> DEFINE f == Targets[i].field
  <2>1. u[f] \in {w[f], Unknown}
    BY FourOf DEF LessWorkload, MeasuredFields
  <2>2. u[f] = w[f] => TargetCheck(u, p, i) = TargetCheck(w, p, i)
    BY DEF TargetCheck
  <2>3. u[f] = Unknown => TargetCheck(u, p, i).status = "UNKNOWN"
    BY CheckStatus DEF TargetCheck
  <2> QED BY <2>1, <2>2, <2>3, CheckTypes, SameOrUnknown
<1>4. /\ u.internet \in {w.internet, "unknown"}
      /\ u.sensitivity \in {w.sensitivity, "unknown"}
  BY DEF LessWorkload
<1>5. <<InternetCheck(w), InternetCheck(u)>> \in KnownRows
  <2>1. u.internet = w.internet => InternetCheck(u) = InternetCheck(w)
    BY DEF InternetCheck
  <2>2. u.internet = "unknown" => InternetCheck(u).status = "UNKNOWN"
    BY CheckStatus DEF InternetCheck
  <2> QED BY <1>4, <2>1, <2>2, CheckTypes, SameOrUnknown
<1>6. <<SensitivityCheck(w), SensitivityCheck(u)>> \in KnownRows
  <2>1. u.sensitivity = w.sensitivity => SensitivityCheck(u) = SensitivityCheck(w)
    BY DEF SensitivityCheck
  <2>2. u.sensitivity = "unknown" => SensitivityCheck(u).status = "UNKNOWN"
    BY CheckStatus DEF SensitivityCheck
  <2> QED BY <1>4, <2>1, <2>2, CheckTypes, SameOrUnknown
<1> QED BY <1>1, <1>2, <1>3, <1>5, <1>6, ChecksAlike

LEMMA LessDemands ==
  ASSUME NEW s \in ScenarioInputs, NEW t \in ScenarioInputs, SameNames(s, t), LessKnown(s, t),
         NEW p, NEW date
  PROVE  Alike(Rows, KnownRows, Demands(s, p, date), Demands(t, p, date))
<1>1. /\ PriceCheck(date) \in Rows /\ RegionCheck(s) \in Rows /\ RegionCheck(t) \in Rows
      /\ StaffCheck(s, p) \in Rows /\ StaffCheck(t, p) \in Rows
  BY CheckType DEF PriceCheck, RegionCheck, StaffCheck, CheckNames
<1>2. <<PriceCheck(date), PriceCheck(date)>> \in KnownRows
  BY <1>1, SameOrUnknown
<1>3. <<RegionCheck(s), RegionCheck(t)>> \in KnownRows
  <2>1. RegionCheck(t) = RegionCheck(s)
    BY DEF RegionCheck, LessKnown
  <2> QED BY <1>1, <2>1, SameOrUnknown
<1>4. <<StaffCheck(s, p), StaffCheck(t, p)>> \in KnownRows
  <2>1. t.staff \in {s.staff, Unknown}
    BY DEF LessKnown, ProfileFields
  <2>2. t.staff = s.staff => StaffCheck(t, p) = StaffCheck(s, p)
    BY DEF StaffCheck
  <2>3. t.staff = Unknown => StaffCheck(t, p).status = "UNKNOWN"
    BY CheckStatus DEF StaffCheck
  <2> QED BY <1>1, <2>1, <2>2, <2>3, SameOrUnknown
<1>5. \A i \in DOMAIN s.workloads :
        Alike(Rows, KnownRows, WorkloadChecks(s.workloads[i], p), WorkloadChecks(t.workloads[i], p))
  <2>1. ASSUME NEW i \in DOMAIN s.workloads
        PROVE  /\ s.workloads[i] \in WorkloadInputs /\ t.workloads[i] \in WorkloadInputs
               /\ t.workloads[i].key = s.workloads[i].key /\ t.workloads[i].type = s.workloads[i].type
               /\ LessWorkload(s.workloads[i], t.workloads[i])
    BY ScenarioNumbers DEF SameNames, LessKnown, LessWorkload
  <2> QED BY <2>1, LessChecks
<1> QED BY <1>2, <1>3, <1>4, <1>5, DemandsAlike DEF SameNames

LEMMA LessBudget ==
  ASSUME NEW s \in ScenarioInputs, NEW t \in ScenarioInputs, LessKnown(s, t),
         NEW h \in Nat \ {0}, NEW a, NEW b, Alike(LineRows, KnownLines, a, b),
         BudgetCheck(t, Summed(b, h)).status # "UNKNOWN"
  PROVE  BudgetCheck(s, Summed(a, h)) = BudgetCheck(t, Summed(b, h))
<1>1. Summed(b, h).complete /\ Unknown \notin {t.initial, t.monthly}
  BY CheckStatus DEF BudgetCheck
<1>2. t.initial = s.initial /\ t.monthly = s.monthly
  BY <1>1 DEF LessKnown, ProfileFields
<1>3. /\ Summed(a, h).complete /\ Summed(a, h).startup = Summed(b, h).startup
      /\ Summed(a, h).monthly = Summed(b, h).monthly
  BY <1>1, SumsForget
<1> QED BY <1>1, <1>2, <1>3 DEF BudgetCheck, Check

LEMMA LessConstraints ==
  ASSUME NEW s \in ScenarioInputs, NEW t \in ScenarioInputs, SameNames(s, t), LessKnown(s, t),
         NEW p \in CatalogPlans, NEW h \in Nat \ {0}, NEW date, NEW C, NEW D,
         C = Constraints(s, p, Costs(s, p, h), date), D = Constraints(t, p, Costs(t, p, h), date)
  PROVE  /\ Occurs("FAIL", D) => Occurs("FAIL", C)
         /\ Occurs("UNKNOWN", C) => Occurs("UNKNOWN", D)
         /\ Occurs("FAIL", C) => Occurs("FAIL", D) \/ Occurs("UNKNOWN", D)
<1> DEFINE a == Demands(s, p, date)
           b == Demands(t, p, date)
           c == BudgetCheck(s, Costs(s, p, h))
           d == BudgetCheck(t, Costs(t, p, h))
<1>1. /\ \A x : Occurs(x, C) <=> Occurs(x, a) \/ (s.hard /\ c.status = x)
      /\ \A x : Occurs(x, D) <=> Occurs(x, b) \/ (s.hard /\ d.status = x)
  <2>1. t.hard = s.hard
    BY DEF LessKnown
  <2> QED BY <2>1, ConstraintStates
<1>2. d.status # "UNKNOWN" => c = d
  <2>1. Alike(LineRows, KnownLines, Lines(s, p, h), Lines(t, p, h))
    BY LessLines
  <2> QED BY <2>1, LessBudget DEF Costs
<1>3. d.status \in {"PASS", "FAIL", "UNKNOWN"}
  BY DEF BudgetCheck, Check
<1>4. Alike(Rows, KnownRows, a, b)
  BY LessDemands
<1> HIDE DEF a, b, c, d
<1>5. /\ DOMAIN a = DOMAIN b
      /\ \A i \in DOMAIN a : b[i].status # "UNKNOWN" => a[i].status = b[i].status
  <2>1. DOMAIN a = DOMAIN b /\ \A i \in DOMAIN a : <<a[i], b[i]>> \in KnownRows
    BY <1>4 DEF Alike
  <2> QED BY <2>1 DEF KnownRows
<1>6. /\ Occurs("FAIL", b) => Occurs("FAIL", a)
      /\ Occurs("UNKNOWN", a) => Occurs("UNKNOWN", b)
      /\ Occurs("FAIL", a) => Occurs("FAIL", b) \/ Occurs("UNKNOWN", b)
  BY <1>5 DEF Occurs
<1> QED BY <1>1, <1>2, <1>6
-------------------------------------------------------------------------------
(* The criteria, one by one.                                               *)

(* A sum of fractions is a fraction.                                       *)
Fractions == Nat \X (Nat \ {0})

LEMMA FractionsAdd ==
  ASSUME NEW x \in Fractions, NEW y \in Fractions
  PROVE  <<x[1] * y[2] + y[1] * x[2], x[2] * y[2]>> \in Fractions
<1>1. x[1] \in Nat /\ x[2] \in Nat \ {0} /\ y[1] \in Nat /\ y[2] \in Nat \ {0}
  BY DEF Fractions
<1>2. x[1] * y[2] \in Nat /\ y[1] * x[2] \in Nat /\ x[2] * y[2] \in Nat \ {0}
  BY <1>1, TimesType, PositiveProduct
<1> QED BY <1>2 DEF Fractions

Plus(x, y) == <<x[1] * y[2] + y[1] * x[2], x[2] * y[2]>>
IsSumOf(f, S, h) ==
  h = [s \in SUBSET S |-> IF s = {} THEN <<0, 1>> ELSE Plus(f[Pick(s)], h[s \ {Pick(s)}])]

LEMMA MeanIs ==
  ASSUME NEW n \in Nat \ {0}, NEW f \in [1..n -> Fractions]
  PROVE  \E k \in [SUBSET (1..n) -> Fractions] :
           IsSumOf(f, 1..n, k) /\ Mean(f) = <<k[1..n][1], k[1..n][2] * n>>
<1> DEFINE S == 1..n
           op == [z \in Fractions \X Fractions |-> Plus(z[1], z[2])]
           IsMean(h) == IsSumOf(f, S, h)
           m == CHOOSE h : IsMean(h)
<1>1. IsFiniteSet(S) /\ DOMAIN f = S /\ Len(f) = n
  BY Interval
<1>2. op \in [Fractions \X Fractions -> Fractions]
  BY FractionsAdd DEF Plus
<1>3. \A x, y \in Fractions : op[x, y] = Plus(x, y)
  OBVIOUS
<1> HIDE DEF op, S
<1>4. PICK k \in [SUBSET S -> Fractions] : IsFold(op, <<0, 1>>, f, S, k)
  <2>1. <<0, 1>> \in Fractions
    BY DEF Fractions
  <2>2. f \in [S -> Fractions]
    BY DEF S
  <2> QED BY <1>1, <1>2, <2>1, <2>2, FoldExists
<1>5. IsMean(k)
  <2>1. ASSUME NEW s \in SUBSET S, s # {}
        PROVE  op[f[Pick(s)], k[s \ {Pick(s)}]] = Plus(f[Pick(s)], k[s \ {Pick(s)}])
    <3>1. Pick(s) \in S
      BY <2>1 DEF Pick
    <3>2. f[Pick(s)] \in Fractions
      BY <3>1 DEF S
    <3>3. k[s \ {Pick(s)}] \in Fractions
      BY <1>4
    <3> QED BY <1>3, <3>2, <3>3
  <2>2. k = [s \in SUBSET S |-> IF s = {} THEN <<0, 1>> ELSE op[f[Pick(s)], k[s \ {Pick(s)}]]]
    BY <1>4 DEF IsFold
  <2> QED BY <2>1, <2>2 DEF IsSumOf
<1>6. ASSUME NEW h, IsMean(h) PROVE h = k
  <2> DEFINE Bad == {s \in SUBSET S : h[s] # k[s]}
  <2>1. SUFFICES ASSUME Bad # {} PROVE FALSE
    <3>1. \A s \in SUBSET S : h[s] = k[s]
      BY <2>1
    <3>2. h = [s \in SUBSET S |-> h[s]] /\ k = [s \in SUBSET S |-> k[s]]
      BY <1>5, <1>6 DEF IsSumOf
    <3> QED BY <3>1, <3>2
  <2>2. PICK s \in Bad : \A t \in Bad : <<t, s>> \notin StrictSubsetOrdering(S)
    <3>1. Bad \subseteq SUBSET S
      OBVIOUS
    <3> HIDE DEF Bad
    <3> QED BY <1>1, <2>1, <3>1, SubsetsWellFounded, WFMin
  <2>3. s # {}
    BY <1>5, <1>6 DEF IsSumOf
  <2>4. Pick(s) \in s
    BY <2>3 DEF Pick
  <2>5. s \ {Pick(s)} \in SUBSET S /\ s \in SUBSET S
    OBVIOUS
  <2>6. <<s \ {Pick(s)}, s>> \in StrictSubsetOrdering(S)
    BY <2>4, <2>5 DEF StrictSubsetOrdering
  <2>7. h[s \ {Pick(s)}] = k[s \ {Pick(s)}]
    BY <2>2, <2>5, <2>6
  <2>8. h[s] = k[s]
    BY <1>5, <1>6, <2>3, <2>5, <2>7 DEF IsSumOf
  <2> QED BY <2>8
<1>7. m = k
  <2> HIDE DEF IsMean
  <2> QED BY <1>5, <1>6 DEF IsSumOf
<1>8. Mean(f) = <<m[S][1], m[S][2] * n>>
  BY <1>1 DEF Mean, FoldSeq, FoldFunction, FoldFunctionOnSet, MapThenFoldSet, Pick, IsSumOf, Plus, S
<1> QED BY <1>4, <1>5, <1>7, <1>8 DEF S

LEMMA MeanType ==
  ASSUME NEW n \in Nat \ {0}, NEW f \in [1..n -> Fractions]
  PROVE  Mean(f) \in Fractions
<1> DEFINE S == 1..n
<1>1. PICK k \in [SUBSET S -> Fractions] : Mean(f) = <<k[S][1], k[S][2] * n>>
  BY MeanIs
<1>2. k[S] \in Fractions
  OBVIOUS
<1>3. k[S][1] \in Nat /\ k[S][2] \in Nat \ {0}
  BY <1>2 DEF Fractions
<1>4. k[S][2] * n \in Nat \ {0}
  BY <1>3, PositiveProduct
<1> QED BY <1>1, <1>3, <1>4 DEF Fractions

LEMMA PointsType ==
  ASSUME NEW q \in Fractions PROVE Points(q) \in Nat
<1>1. q[1] \in Nat /\ q[2] \in Nat \ {0}
  BY DEF Fractions
<1>2. PointScale * q[1] \in Nat /\ 100 * PointScale \in Nat
  BY <1>1, ScaleAssumption, TimesType
<1>3. Rounded(PointScale * q[1], q[2]) \in Nat
  BY <1>1, <1>2, RoundedType
<1> QED BY <1>2, <1>3 DEF Points

LEMMA AnchoredType ==
  ASSUME NEW a \in Nat, NEW d \in Nat \ {0} PROVE Anchored(a, d) \in Fractions
BY DEF Anchored, AtLeastZero, Fractions

(* The criteria, one by one.                                               *)
MeanPoints(c, actual) == Points(Mean([i \in DOMAIN c |-> Anchored(actual, c[i])]))
Lifted(c) == [i \in DOMAIN c |-> IF c[i] < 1 THEN 1 ELSE c[i]]
Missing(c) == \E i \in DOMAIN c : c[i] = Unknown
ColumnOf(s, f) == [i \in DOMAIN s.workloads |-> s.workloads[i][f]]
StaffPoints(staff, p) ==
  Points(<<AtLeastZero(100 * (staff + QuantityScale - p.staff)), staff + QuantityScale>>)

GovernancePoints(p) == Points(<<p.governance, 1>>)

LEMMA CriteriaParts ==
  ASSUME NEW s, NEW p, NEW costs, NEW h
  PROVE  LET k == Criteria(s, p, costs, h)
             latency == ColumnOf(s, "max_latency_ms")
             rto == ColumnOf(s, "rto_seconds")
         IN  /\ k = [g \in GroupSet |-> k[g]]
             /\ k["cost"] = CostPoints(s, costs, h)
             /\ k["performance"] = IF Missing(latency) THEN Unknown ELSE MeanPoints(latency, p.latency)
             /\ k["resilience"] = IF Missing(rto) THEN Unknown ELSE MeanPoints(Lifted(rto), p.rto)
             /\ k["operations"] = IF s.staff = Unknown THEN Unknown ELSE StaffPoints(s.staff, p)
             /\ k["governance"] = GovernancePoints(p)
<1> DEFINE k == Criteria(s, p, costs, h)
           latency == ColumnOf(s, "max_latency_ms")
           rto == ColumnOf(s, "rto_seconds")
<1>1. /\ k = [g \in GroupSet |-> k[g]]
      /\ k["cost"] = CostPoints(s, costs, h)
      /\ k["operations"] = IF s.staff = Unknown THEN Unknown ELSE StaffPoints(s.staff, p)
      /\ k["governance"] = GovernancePoints(p)
  BY GroupsFinite DEF Criteria, StaffPoints, GovernancePoints
<1>2. k["performance"] = IF Missing(latency) THEN Unknown ELSE MeanPoints(latency, p.latency)
  BY GroupsFinite DEF Criteria, Average, Missing, MeanPoints, ColumnOf
<1>3. k["resilience"] = Average(rto, LAMBDA v : Anchored(p.rto, IF v < 1 THEN 1 ELSE v))
  BY GroupsFinite DEF Criteria, ColumnOf
<1> HIDE DEF rto, k
<1>4. Average(rto, LAMBDA v : Anchored(p.rto, IF v < 1 THEN 1 ELSE v)) =
        IF Missing(rto) THEN Unknown
        ELSE Points(Mean([i \in DOMAIN rto |-> Anchored(p.rto, IF rto[i] < 1 THEN 1 ELSE rto[i])]))
  BY DEF Average, Missing
<1>5. [i \in DOMAIN rto |-> Anchored(p.rto, IF rto[i] < 1 THEN 1 ELSE rto[i])] =
        [i \in DOMAIN Lifted(rto) |-> Anchored(p.rto, Lifted(rto)[i])]
  BY DEF Lifted
<1>6. k["resilience"] = IF Missing(rto) THEN Unknown ELSE MeanPoints(Lifted(rto), p.rto)
  BY <1>3, <1>4, <1>5 DEF MeanPoints
<1> QED BY <1>1, <1>2, <1>6 DEF k, rto
-------------------------------------------------------------------------------
(* Criteria are known numbers or unknown, and those still known are        *)
(* unchanged.                                                              *)

LEMMA AveragePoints ==
  ASSUME NEW n \in Nat \ {0}, NEW c \in [1..n -> Nat \ {0}], NEW actual \in Nat
  PROVE  MeanPoints(c, actual) \in Nat
<1> DEFINE f == [i \in DOMAIN c |-> Anchored(actual, c[i])]
<1>1. f \in [1..n -> Fractions]
  BY AnchoredType
<1> HIDE DEF f
<1>2. Mean(f) \in Fractions
  BY <1>1, MeanType
<1>3. Points(Mean(f)) \in Nat
  BY <1>2, PointsType
<1> QED BY <1>3 DEF MeanPoints, f

LEMMA TcoType ==
  ASSUME NEW lines \in Seq(LineRows), NEW h PROVE Summed(lines, h).tco \in Known
<1> DEFINE a == TotalOf(lines, Having(lines, "category", "CAPEX"))
           b == TotalOf(lines, Having(lines, "category", "OPEX"))
<1>1. Summed(lines, h).tco = IF Unknown \in {a, b} THEN Unknown ELSE a + b
  BY SummedParts
<1>2. \A x : TotalOf(lines, Having(lines, "category", x)) \in Known
  <2>1. ASSUME NEW x PROVE TotalOf(lines, Having(lines, "category", x)) \in Known
    <3> DEFINE I == Having(lines, "category", x)
    <3>1. I \in SUBSET DOMAIN lines
      BY DEF Having
    <3> HIDE DEF I
    <3>2. TotalOf(lines, I) # Unknown => TotalOf(lines, I) \in Nat
      BY <3>1, TotalOfType
    <3>3. TotalOf(lines, I) \in Known
      BY <3>2 DEF Known
    <3> QED BY <3>3 DEF I
  <2> QED BY <2>1
<1>3. a \in Known /\ b \in Known
  BY <1>2
<1> HIDE DEF a, b
<1> QED BY <1>1, <1>3 DEF Known

LEMMA EngineCriteriaType ==
  ASSUME NEW s \in ScenarioInputs, NEW p \in CatalogPlans, NEW costs, costs.tco \in Known,
         NEW h \in Nat
  PROVE  Criteria(s, p, costs, h) \in [GroupSet -> Known]
<1> DEFINE n == Len(s.workloads)
           k == Criteria(s, p, costs, h)
           latency == ColumnOf(s, "max_latency_ms")
           rto == ColumnOf(s, "rto_seconds")
<1>1. /\ n \in Nat \ {0} /\ DOMAIN s.workloads = 1..n
      /\ s.staff \in Known /\ s.initial \in Known /\ s.monthly \in Known
      /\ \A i \in 1..n : s.workloads[i].max_latency_ms \in Positive /\ s.workloads[i].rto_seconds \in Known
  <2>1. s.workloads \in Seq(WorkloadInputs) /\ s.workloads # <<>>
    BY DEF ScenarioInputs
  <2>2. n \in Nat \ {0} /\ DOMAIN s.workloads = 1..n /\ \A i \in 1..n : s.workloads[i] \in WorkloadInputs
    BY <2>1
  <2> HIDE DEF n
  <2> QED BY <2>1, <2>2 DEF ScenarioInputs, WorkloadInputs
<1>2. p.latency \in Nat /\ p.rto \in Nat /\ p.staff \in Nat /\ p.governance \in Nat
  BY DEF CatalogPlans
<1>3. k["cost"] \in Known
  <2>1. k["cost"] = CostPoints(s, costs, h)
    BY CriteriaParts
  <2> DEFINE budget == s.initial + s.monthly * h
  <2>2. CostPoints(s, costs, h) =
          IF Unknown \in {s.initial, s.monthly, costs.tco} THEN Unknown
          ELSE IF budget = 0 THEN IF costs.tco = 0 THEN 100 * PointScale ELSE 0
          ELSE Points(Anchored(costs.tco, budget))
    BY DEF CostPoints
  <2>3. ASSUME Unknown \notin {s.initial, s.monthly, costs.tco}
        PROVE  budget \in Nat /\ costs.tco \in Nat
    <3>1. s.initial \in Nat /\ s.monthly \in Nat /\ costs.tco \in Nat
      BY <1>1, <2>3 DEF Known
    <3>2. s.monthly * h \in Nat
      BY <3>1, TimesType
    <3> QED BY <3>1, <3>2
  <2> HIDE DEF budget, k
  <2>4. ASSUME budget \in Nat \ {0}, costs.tco \in Nat
        PROVE  Points(Anchored(costs.tco, budget)) \in Nat
    BY <2>4, AnchoredType, PointsType
  <2>5. 100 * PointScale \in Nat
    BY ScaleAssumption
  <2> QED BY <2>1, <2>2, <2>3, <2>4, <2>5 DEF Known
<1>4. k["performance"] \in Known
  <2>1. k["performance"] = IF Missing(latency) THEN Unknown ELSE MeanPoints(latency, p.latency)
    BY CriteriaParts
  <2>2. ASSUME ~Missing(latency) PROVE MeanPoints(latency, p.latency) \in Nat
    <3>1. latency \in [1..n -> Nat \ {0}]
      <4>1. DOMAIN latency = 1..n /\ \A i \in 1..n : latency[i] = s.workloads[i].max_latency_ms
        BY <1>1 DEF ColumnOf
      <4>2. latency = [i \in 1..n |-> latency[i]]
        BY <1>1 DEF ColumnOf
      <4> HIDE DEF latency, n
      <4>3. \A i \in 1..n : latency[i] \in Nat \ {0}
        BY <1>1, <2>2, <4>1 DEF Missing, Positive, Known
      <4> QED BY <4>2, <4>3
    <3> HIDE DEF latency, n
    <3> QED BY <1>1, <1>2, <3>1, AveragePoints
  <2> HIDE DEF k, latency
  <2> QED BY <2>1, <2>2 DEF Known
<1>5. k["resilience"] \in Known
  <2>1. k["resilience"] = IF Missing(rto) THEN Unknown ELSE MeanPoints(Lifted(rto), p.rto)
    BY CriteriaParts
  <2>2. ASSUME ~Missing(rto) PROVE MeanPoints(Lifted(rto), p.rto) \in Nat
    <3>1. Lifted(rto) \in [1..n -> Nat \ {0}]
      <4>1. DOMAIN rto = 1..n /\ \A i \in 1..n : rto[i] = s.workloads[i].rto_seconds
        BY <1>1 DEF ColumnOf
      <4> HIDE DEF rto, n
      <4>2. \A i \in 1..n : rto[i] \in Nat
        BY <1>1, <2>2, <4>1 DEF Missing, Known
      <4> QED BY <4>1, <4>2 DEF Lifted
    <3> HIDE DEF rto, n
    <3> QED BY <1>1, <1>2, <3>1, AveragePoints
  <2> HIDE DEF k, rto
  <2> QED BY <2>1, <2>2 DEF Known
<1>6. k["operations"] \in Known
  <2>1. k["operations"] = IF s.staff = Unknown THEN Unknown ELSE StaffPoints(s.staff, p)
    BY CriteriaParts
  <2>2. ASSUME s.staff # Unknown PROVE StaffPoints(s.staff, p) \in Nat
    <3>1. s.staff \in Nat
      BY <1>1, <2>2 DEF Known
    <3>2. <<AtLeastZero(100 * (s.staff + QuantityScale - p.staff)), s.staff + QuantityScale>> \in Fractions
      BY <1>2, <3>1, ScaleAssumption DEF AtLeastZero, Fractions
    <3> QED BY <3>2, PointsType DEF StaffPoints
  <2> HIDE DEF k
  <2> QED BY <2>1, <2>2 DEF Known
<1>7. k["governance"] \in Known
  <2>1. k["governance"] = GovernancePoints(p)
    BY CriteriaParts
  <2>2. <<p.governance, 1>> \in Fractions
    BY <1>2 DEF Fractions
  <2> HIDE DEF k
  <2> QED BY <2>1, <2>2, PointsType DEF GovernancePoints, Known
<1>8. k = [g \in GroupSet |-> k[g]]
  BY CriteriaParts
<1> HIDE DEF k
<1>9. \A g \in GroupSet : k[g] \in Known
  BY <1>3, <1>4, <1>5, <1>6, <1>7, GroupsFinite
<1> QED BY <1>8, <1>9 DEF k

LEMMA ColumnForgets ==
  ASSUME NEW s, NEW t, SameNames(s, t), LessKnown(s, t), NEW f \in MeasuredFields,
         ~Missing(ColumnOf(t, f))
  PROVE  ColumnOf(s, f) = ColumnOf(t, f)
<1>1. DOMAIN t.workloads = DOMAIN s.workloads
  BY DEF SameNames
<1>2. \A i \in DOMAIN s.workloads : t.workloads[i][f] # Unknown
  BY <1>1 DEF Missing, ColumnOf
<1>3. \A i \in DOMAIN s.workloads : t.workloads[i][f] \in {s.workloads[i][f], Unknown}
  BY DEF LessKnown
<1>4. \A i \in DOMAIN s.workloads : t.workloads[i][f] = s.workloads[i][f]
  BY <1>2, <1>3
<1> QED BY <1>1, <1>4 DEF ColumnOf

\* a criterion that is still known is what it was
LEMMA CriteriaForget ==
  ASSUME NEW s, NEW t, SameNames(s, t), LessKnown(s, t), NEW p, NEW a, NEW b,
         b.tco # Unknown => a.tco = b.tco, NEW h, NEW g \in GroupSet,
         Criteria(t, p, b, h)[g] # Unknown
  PROVE  Criteria(s, p, a, h)[g] = Criteria(t, p, b, h)[g]
<1> DEFINE k == Criteria(s, p, a, h)
           l == Criteria(t, p, b, h)
<1>1. l["cost"] # Unknown => k["cost"] = l["cost"]
  <2>1. k["cost"] = CostPoints(s, a, h) /\ l["cost"] = CostPoints(t, b, h)
    BY CriteriaParts
  <2>2. ASSUME CostPoints(t, b, h) # Unknown PROVE CostPoints(s, a, h) = CostPoints(t, b, h)
    <3>1. t.initial # Unknown /\ t.monthly # Unknown /\ b.tco # Unknown
      BY <2>2 DEF CostPoints
    <3>2. t.initial = s.initial /\ t.monthly = s.monthly /\ a.tco = b.tco
      BY <3>1 DEF LessKnown, ProfileFields
    <3> QED BY <3>2 DEF CostPoints
  <2> QED BY <2>1, <2>2
<1>2. l["performance"] # Unknown => k["performance"] = l["performance"]
  <2> DEFINE c == ColumnOf(s, "max_latency_ms")
             d == ColumnOf(t, "max_latency_ms")
  <2>1. /\ k["performance"] = IF Missing(c) THEN Unknown ELSE MeanPoints(c, p.latency)
        /\ l["performance"] = IF Missing(d) THEN Unknown ELSE MeanPoints(d, p.latency)
    BY CriteriaParts
  <2>2. ~Missing(d) => c = d
    BY ColumnForgets DEF MeasuredFields
  <2> HIDE DEF c, d, k, l
  <2> QED BY <2>1, <2>2
<1>3. l["resilience"] # Unknown => k["resilience"] = l["resilience"]
  <2> DEFINE c == ColumnOf(s, "rto_seconds")
             d == ColumnOf(t, "rto_seconds")
  <2>1. /\ k["resilience"] = IF Missing(c) THEN Unknown ELSE MeanPoints(Lifted(c), p.rto)
        /\ l["resilience"] = IF Missing(d) THEN Unknown ELSE MeanPoints(Lifted(d), p.rto)
    BY CriteriaParts
  <2>2. ~Missing(d) => c = d
    BY ColumnForgets DEF MeasuredFields
  <2> HIDE DEF c, d, k, l
  <2> QED BY <2>1, <2>2
<1>4. l["operations"] # Unknown => k["operations"] = l["operations"]
  <2>1. /\ k["operations"] = IF s.staff = Unknown THEN Unknown ELSE StaffPoints(s.staff, p)
        /\ l["operations"] = IF t.staff = Unknown THEN Unknown ELSE StaffPoints(t.staff, p)
    BY CriteriaParts
  <2>2. t.staff \in {s.staff, Unknown}
    BY DEF LessKnown, ProfileFields
  <2> HIDE DEF k, l
  <2> QED BY <2>1, <2>2
<1>5. k["governance"] = l["governance"]
  BY CriteriaParts
<1> HIDE DEF k, l
<1>6. \A e \in GroupSet : l[e] # Unknown => k[e] = l[e]
  BY <1>1, <1>2, <1>3, <1>4, <1>5, GroupsFinite
<1> QED BY <1>6 DEF k, l
-------------------------------------------------------------------------------
(* Forgetting never helps.                                                 *)

\* what has no weight does not count
LEMMA WeightedForgets ==
  ASSUME NEW weights \in [GroupSet -> Nat], NEW k \in [GroupSet -> Known], NEW l \in [GroupSet -> Known],
         \A g \in GroupSet : weights[g] = 0 \/ k[g] = l[g]
  PROVE  Weighted(k, weights) = Weighted(l, weights)
<1> DEFINE term(c, g) == weights[g] * (IF c[g] = Unknown THEN 0 ELSE c[g])
<1>1. ASSUME NEW g \in GroupSet PROVE term(k, g) = term(l, g)
  <2>1. CASE k[g] = l[g]
    BY <2>1
  <2>2. CASE weights[g] = 0
    <3>1. k[g] \in Known /\ l[g] \in Known
      OBVIOUS
    <3>2. /\ (IF k[g] = Unknown THEN 0 ELSE k[g]) \in Nat
          /\ (IF l[g] = Unknown THEN 0 ELSE l[g]) \in Nat
      BY <3>1 DEF Known
    <3>3. \A x \in Nat : 0 * x = 0
      OBVIOUS
    <3> QED BY <2>2, <3>2, <3>3
  <2> QED BY <2>1, <2>2
<1>2. [g \in GroupSet |-> term(k, g)] = [g \in GroupSet |-> term(l, g)]
  <2> HIDE DEF term
  <2> QED BY <1>1
<1> QED BY <1>2 DEF Weighted

\* the status of a plan in the terms of its constraints, costs and criteria
Lacking(s, o, p) ==
  LET costs == Costs(s, p, o.horizon)
  IN  \/ Occurs("UNKNOWN", Constraints(s, p, costs, o.date))
      \/ ~costs.complete
      \/ \E g \in GroupSet : Criteria(s, p, costs, o.horizon)[g] = Unknown /\ RawWeights(o)[g] > 0

LEMMA StatusIs ==
  ASSUME NEW s, NEW o, NEW p
  PROVE  LET costs == Costs(s, p, o.horizon)
             fails == Occurs("FAIL", Constraints(s, p, costs, o.date))
             c == Candidate(s, o, p)
         IN  /\ c.status = IF fails THEN "EXCLUDED" ELSE IF Lacking(s, o, p) THEN "INDETERMINATE"
                           ELSE "ELIGIBLE"
             /\ c.status = "ELIGIBLE" =>
                  c.score = Weighted(Criteria(s, p, costs, o.horizon), RawWeights(o))
BY DEF Candidate, Priced, Judged, Status, Occurs, Lacking

LEMMA LessCandidate ==
  ASSUME NEW s \in ScenarioInputs, NEW t \in ScenarioInputs, SameNames(s, t), LessKnown(s, t),
         NEW o \in OptionInputs, NEW p \in CatalogPlans
  PROVE  /\ Candidate(t, o, p).status = "ELIGIBLE" =>
              /\ Candidate(s, o, p).status = "ELIGIBLE"
              /\ Candidate(s, o, p).score = Candidate(t, o, p).score
         /\ Candidate(t, o, p).status = "EXCLUDED" => Candidate(s, o, p).status = "EXCLUDED"
         /\ Candidate(t, o, p).status \in {"ELIGIBLE", "INDETERMINATE", "EXCLUDED"}
<1> DEFINE h == o.horizon
           a == Costs(s, p, h)
           b == Costs(t, p, h)
           C == Constraints(s, p, a, o.date)
           D == Constraints(t, p, b, o.date)
           k == Criteria(s, p, a, h)
           l == Criteria(t, p, b, h)
           W == RawWeights(o)
<1>1. h \in Nat \ {0}
  BY OptionNumbers
<1>2. /\ Occurs("FAIL", D) => Occurs("FAIL", C)
      /\ Occurs("UNKNOWN", C) => Occurs("UNKNOWN", D)
      /\ Occurs("FAIL", C) => Occurs("FAIL", D) \/ Occurs("UNKNOWN", D)
  <2> HIDE DEF h
  <2> QED BY <1>1, LessConstraints
<1>3. /\ b.complete => a.complete
      /\ b.tco # Unknown => a.tco = b.tco
      /\ a.tco \in Known /\ b.tco \in Known
  <2>1. Alike(LineRows, KnownLines, Lines(s, p, h), Lines(t, p, h))
    BY <1>1, LessLines
  <2>2. Lines(s, p, h) \in Seq(LineRows) /\ Lines(t, p, h) \in Seq(LineRows)
    BY <2>1 DEF Alike
  <2> HIDE DEF h
  <2> QED BY <1>1, <2>1, <2>2, SumsForget, TcoType DEF Costs
<1>4. k \in [GroupSet -> Known] /\ l \in [GroupSet -> Known] /\ W \in [GroupSet -> Nat]
  <2> HIDE DEF a, b, h
  <2> QED BY <1>1, <1>3, EngineCriteriaType, WeightsType
<1>5. \A g \in GroupSet : l[g] # Unknown => k[g] = l[g]
  <2> HIDE DEF a, b, h
  <2> QED BY <1>3, CriteriaForget
<1>6. /\ Lacking(s, o, p) <=> \/ Occurs("UNKNOWN", C) \/ ~a.complete
                              \/ \E g \in GroupSet : k[g] = Unknown /\ W[g] > 0
      /\ Lacking(t, o, p) <=> \/ Occurs("UNKNOWN", D) \/ ~b.complete
                              \/ \E g \in GroupSet : l[g] = Unknown /\ W[g] > 0
  BY DEF Lacking
<1>7. /\ Candidate(s, o, p).status = IF Occurs("FAIL", C) THEN "EXCLUDED"
                                     ELSE IF Lacking(s, o, p) THEN "INDETERMINATE" ELSE "ELIGIBLE"
      /\ Candidate(t, o, p).status = IF Occurs("FAIL", D) THEN "EXCLUDED"
                                     ELSE IF Lacking(t, o, p) THEN "INDETERMINATE" ELSE "ELIGIBLE"
      /\ Candidate(s, o, p).status = "ELIGIBLE" => Candidate(s, o, p).score = Weighted(k, W)
      /\ Candidate(t, o, p).status = "ELIGIBLE" => Candidate(t, o, p).score = Weighted(l, W)
  BY StatusIs
<1> HIDE DEF a, b, C, D, k, l, W, h
<1>8. Lacking(s, o, p) => Lacking(t, o, p)
  BY <1>2, <1>3, <1>5, <1>6
<1>9. ASSUME Candidate(t, o, p).status = "ELIGIBLE"
      PROVE  /\ Candidate(s, o, p).status = "ELIGIBLE"
             /\ Candidate(s, o, p).score = Candidate(t, o, p).score
  <2>1. ~Occurs("FAIL", D) /\ ~Lacking(t, o, p)
    BY <1>7, <1>9
  <2>2. ~Occurs("FAIL", C) /\ ~Lacking(s, o, p)
    BY <1>2, <1>6, <1>8, <2>1
  <2>3. \A g \in GroupSet : W[g] = 0 \/ k[g] = l[g]
    BY <1>4, <1>5, <1>6, <2>1
  <2>4. Weighted(k, W) = Weighted(l, W)
    BY <1>4, <2>3, WeightedForgets
  <2> QED BY <1>7, <1>9, <2>2, <2>4
<1>10. ASSUME Candidate(t, o, p).status = "EXCLUDED" PROVE Candidate(s, o, p).status = "EXCLUDED"
  BY <1>2, <1>7, <1>10
<1> QED BY <1>7, <1>9, <1>10

\* the outcome of a scenario that says less of the same workloads
LEMMA LessOutcome ==
  ASSUME NEW s \in ScenarioInputs, NEW t \in ScenarioInputs, SameNames(s, t), LessKnown(s, t),
         NEW o \in OptionInputs
  PROVE  /\ Chosen(Draft(t, o), "ELIGIBLE") \subseteq Chosen(Draft(s, o), "ELIGIBLE")
         /\ Chosen(Draft(t, o), "EXCLUDED") \subseteq Chosen(Draft(s, o), "EXCLUDED")
         /\ Draft(t, o).recommended \in {Draft(s, o).recommended, "none"}
<1> DEFINE N == DOMAIN Catalog.plans
           a == Draft(s, o).candidates
           b == Draft(t, o).candidates
<1>1. \A i \in N :
        /\ Row(t, o, i).status = "ELIGIBLE" =>
             Row(s, o, i).status = "ELIGIBLE" /\ Row(s, o, i).score = Row(t, o, i).score
        /\ Row(t, o, i).status = "EXCLUDED" => Row(s, o, i).status = "EXCLUDED"
        /\ Row(t, o, i).status \in {"ELIGIBLE", "INDETERMINATE", "EXCLUDED"}
  <2>1. \A i \in N : Catalog.plans[i] \in CatalogPlans
    BY CatalogAssumption
  <2> QED BY <2>1, LessCandidate DEF Row
<1>2. /\ \A x : Chosen(Draft(s, o), x) = KeysWith(s, o, x)
      /\ \A x : Chosen(Draft(t, o), x) = KeysWith(t, o, x)
      /\ Eligible(a) = KeysWith(s, o, "ELIGIBLE") /\ Eligible(b) = KeysWith(t, o, "ELIGIBLE")
      /\ Incomplete(a) <=> KeysWith(s, o, "INDETERMINATE") # {}
      /\ Incomplete(b) <=> KeysWith(t, o, "INDETERMINATE") # {}
      /\ ScoreOf(a) = [k \in Eligible(a) |-> ScoreOf(a)[k]]
      /\ ScoreOf(b) = [k \in Eligible(b) |-> ScoreOf(b)[k]]
      /\ \A i \in N : Row(s, o, i).status = "ELIGIBLE" =>
           ScoreOf(a)[Catalog.plans[i].key] = Row(s, o, i).score
      /\ \A i \in N : Row(t, o, i).status = "ELIGIBLE" =>
           ScoreOf(b)[Catalog.plans[i].key] = Row(t, o, i).score
      /\ Draft(s, o).recommended = IF Eligible(a) # {} /\ ~Incomplete(a)
                                   THEN Best(Eligible(a), ScoreOf(a)) ELSE "none"
      /\ Draft(t, o).recommended = IF Eligible(b) # {} /\ ~Incomplete(b)
                                   THEN Best(Eligible(b), ScoreOf(b)) ELSE "none"
  BY DraftParts
<1> HIDE DEF a, b
<1>3. \A x \in {"ELIGIBLE", "EXCLUDED"} : KeysWith(t, o, x) \subseteq KeysWith(s, o, x)
  BY <1>1 DEF KeysWith
<1>4. ASSUME Draft(t, o).recommended # "none" PROVE Draft(s, o).recommended = Draft(t, o).recommended
  <2>1. Eligible(b) # {} /\ KeysWith(t, o, "INDETERMINATE") = {}
    BY <1>2, <1>4
  <2>2. \A i \in N : Row(t, o, i).status # "INDETERMINATE"
    BY <2>1 DEF KeysWith
  <2>3. \A i \in N : Row(s, o, i).status = Row(t, o, i).status
    BY <1>1, <2>2
  <2>4. \A x : KeysWith(s, o, x) = KeysWith(t, o, x)
    BY <2>3 DEF KeysWith
  <2>5. Eligible(a) = Eligible(b) /\ ~Incomplete(a) /\ ~Incomplete(b)
    BY <1>2, <2>1, <2>4
  <2>6. \A k \in Eligible(b) : ScoreOf(a)[k] = ScoreOf(b)[k]
    <3>1. ASSUME NEW k \in Eligible(b) PROVE ScoreOf(a)[k] = ScoreOf(b)[k]
      <4>1. PICK i \in N : Row(t, o, i).status = "ELIGIBLE" /\ k = Catalog.plans[i].key
        BY <1>2, <3>1 DEF KeysWith
      <4> QED BY <1>1, <1>2, <4>1
    <3> QED BY <3>1
  <2>7. ScoreOf(a) = ScoreOf(b)
    BY <1>2, <2>5, <2>6
  <2> QED BY <1>2, <2>1, <2>5, <2>7
<1> QED BY <1>2, <1>3, <1>4

(* Forgetting a fact never makes a plan eligible, excludes no plan, and    *)
(* never makes another plan win.                                           *)
THEOREM ForgettingHolds == DecisionSpec => ForgettingNeverHelps
<1> DEFINE Step == Reassessed /\ LessKnown(scenario, scenario') =>
                     /\ Chosen(draft', "ELIGIBLE") \subseteq Chosen(draft, "ELIGIBLE")
                     /\ Chosen(draft', "EXCLUDED") \subseteq Chosen(draft, "EXCLUDED")
                     /\ draft'.recommended \in {draft.recommended, "none"}
<1>1. DecisionInv /\ [DecisionNext]_decisionVars => [Step]_decisionVars
  <2> SUFFICES ASSUME DecisionInv, [DecisionNext]_decisionVars, Reassessed,
                      LessKnown(scenario, scenario')
               PROVE  /\ Chosen(draft', "ELIGIBLE") \subseteq Chosen(draft, "ELIGIBLE")
                      /\ Chosen(draft', "EXCLUDED") \subseteq Chosen(draft, "EXCLUDED")
                      /\ draft'.recommended \in {draft.recommended, "none"}
    OBVIOUS
  <2>1. Edit
    BY DEF DecisionNext, Damage, decisionVars, Reassessed
  <2>2. PICK s \in Forgotten(scenario) \cup Tightened(scenario) :
          scenario' = s /\ draft' = Draft(s, options)
    BY <2>1 DEF Edit
  <2>3. scenario \in ScenarioInputs /\ options \in OptionInputs /\ draft = Draft(scenario, options)
    BY DEF DecisionInv
  <2>4. s \in ScenarioInputs /\ SameNames(scenario, s)
    BY <2>3, ForgottenKnowsLess, TightenedIsTighter
  <2>5. LessKnown(scenario, s)
    BY <2>2
  <2> QED BY <2>2, <2>3, <2>4, <2>5, LessOutcome
<1>2. [][Step]_decisionVars <=> ForgettingNeverHelps
  BY DEF ForgettingNeverHelps
<1> QED BY <1>1, <1>2, DecisionInvariance, PTL DEF DecisionSpec
-------------------------------------------------------------------------------
(* Two roundings, one number; and lists without repetition against sets.   *)

LEMMA QuotientIs ==
  ASSUME NEW a \in Nat, NEW d \in Nat \ {0}, NEW q \in Nat, NEW r \in Nat, r < d, a = d * q + r
  PROVE  a \div d = q /\ a % d = r
<1> DEFINE x == a \div d
           y == a % d
<1>1. x \in Int /\ y \in 0..(d - 1) /\ a = d * x + y
  OBVIOUS
<1> HIDE DEF x, y
<1>2. d * q - d * x = y - r /\ y - r < d /\ r - y < d
  BY <1>1
<1>3. ASSUME q >= x + 1 PROVE FALSE
  <2>1. q - (x + 1) \in Nat
    BY <1>1, <1>3
  <2>2. d * (q - (x + 1)) \in Nat
    BY <2>1, TimesType
  <2>3. d * (q - (x + 1)) = d * q - d * x - d
    BY <1>1
  <2>4. d * q \in Int /\ d * x \in Int
    BY <1>1
  <2> QED BY <1>1, <1>2, <2>2, <2>3, <2>4
<1>4. ASSUME x >= q + 1 PROVE FALSE
  <2>1. x - (q + 1) \in Nat
    BY <1>1, <1>4
  <2>2. d * (x - (q + 1)) \in Nat
    BY <2>1, TimesType
  <2>3. d * (x - (q + 1)) = d * x - d * q - d
    BY <1>1
  <2>4. d * q \in Int /\ d * x \in Int
    BY <1>1
  <2> QED BY <1>1, <1>2, <2>2, <2>3, <2>4
<1>5. q = x
  BY <1>1, <1>3, <1>4
<1> QED BY <1>1, <1>5 DEF x, y

(* Rounding half up, written in two ways.                                  *)
LEMMA RoundedIsCents ==
  ASSUME NEW n \in Nat, NEW d \in Nat \ {0}
  PROVE  Rounded(n, d) = Verifier!Cents(n, d)
<1> DEFINE q == n \div d
           r == n % d
<1>1. q \in Nat /\ r \in 0..(d - 1) /\ n = d * q + r
  <2>1. q \in Nat
    BY QuotientType
  <2> QED BY <2>1
<1> HIDE DEF q, r
<1>2. 2 * n + d \in Nat /\ 2 * d \in Nat \ {0} /\ 2 * n = (2 * d) * q + 2 * r
  BY <1>1
<1>3. CASE 2 * r >= d
  <2>1. /\ q + 1 \in Nat /\ 2 * r - d \in Nat /\ 2 * r - d < 2 * d
        /\ 2 * n + d = (2 * d) * (q + 1) + (2 * r - d)
    BY <1>1, <1>2, <1>3
  <2>2. (2 * n + d) \div (2 * d) = q + 1
    BY <1>2, <2>1, QuotientIs
  <2> QED BY <1>3, <2>2 DEF Rounded, Verifier!Cents, q, r
<1>4. CASE ~(2 * r >= d)
  <2>1. 2 * r + d \in Nat /\ 2 * r + d < 2 * d /\ 2 * n + d = (2 * d) * q + (2 * r + d)
    BY <1>1, <1>2, <1>4
  <2>2. (2 * n + d) \div (2 * d) = q
    BY <1>1, <1>2, <2>1, QuotientIs
  <2> QED BY <1>1, <1>4, <2>2 DEF Rounded, Verifier!Cents, q, r
<1> QED BY <1>3, <1>4

(* Lists without repetition.                                               *)
Distinct(u) == \A i, j \in DOMAIN u : u[i] = u[j] => i = j

LEMMA DistinctCounts ==
  ASSUME NEW A, NEW u \in Seq(A), Distinct(u)
  PROVE  /\ IsFiniteSet(ToSet(u)) /\ Cardinality(ToSet(u)) = Len(u)
         /\ Verifier!Exactly(u, ToSet(u))
<1> DEFINE S == 1..Len(u)
           T == ToSet(u)
           f == [i \in S |-> u[i]]
<1>1. T = {u[i] : i \in S} /\ DOMAIN u = S
  BY DEF ToSet
<1>2. f \in Bijection(S, T)
  <2>1. f \in [S -> T] /\ \A i, j \in S : f[i] = f[j] => i = j
    BY <1>1 DEF Distinct
  <2>2. \A x \in T : \E i \in S : f[i] = x
    BY <1>1
  <2> HIDE DEF f, S, T
  <2> QED BY <2>1, <2>2 DEF Bijection, Injection, IsInjective, Surjection
<1>3. IsFiniteSet(S) /\ Cardinality(S) = Len(u)
  BY Interval
<1>4. ExistsBijection(S, T)
  BY <1>2 DEF ExistsBijection
<1>5. IsFiniteSet(T) /\ Cardinality(T) = Len(u)
  <2> HIDE DEF T, S
  <2> QED BY <1>3, <1>4, FS_Bijection
<1>6. Verifier!ToSet(u) = ToSet(u)
  BY DEF Verifier!ToSet, ToSet
<1> QED BY <1>5, <1>6, VerifierCounts DEF Verifier!Exactly

LEMMA ConcatDistinct ==
  ASSUME NEW A, NEW u \in Seq(A), NEW v \in Seq(A), Distinct(u), Distinct(v),
         ToSet(u) \cap ToSet(v) = {}
  PROVE  Distinct(u \o v)
<1> DEFINE m == Len(u)
           n == Len(v)
           w == u \o v
<1>1. m \in Nat /\ n \in Nat /\ DOMAIN u = 1..m /\ DOMAIN v = 1..n /\ DOMAIN w = 1..(m + n)
  OBVIOUS
<1>2. \A i \in 1..(m + n) : \/ i \in 1..m /\ w[i] = u[i]
                            \/ i - m \in 1..n /\ w[i] = v[i - m]
  OBVIOUS
<1> HIDE DEF w, m, n
<1>3. \A i \in 1..m : \A j \in 1..n : u[i] # v[j]
  BY <1>1 DEF ToSet
<1>4. ASSUME NEW i \in 1..(m + n), NEW j \in 1..(m + n), w[i] = w[j] PROVE i = j
  <2>1. CASE i \in 1..m /\ w[i] = u[i] /\ j \in 1..m /\ w[j] = u[j]
    BY <1>1, <1>4, <2>1 DEF Distinct
  <2>2. CASE i \in 1..m /\ w[i] = u[i] /\ j - m \in 1..n /\ w[j] = v[j - m]
    BY <1>3, <1>4, <2>2
  <2>3. CASE i - m \in 1..n /\ w[i] = v[i - m] /\ j \in 1..m /\ w[j] = u[j]
    BY <1>3, <1>4, <2>3
  <2>4. CASE i - m \in 1..n /\ w[i] = v[i - m] /\ j - m \in 1..n /\ w[j] = v[j - m]
    <3>1. i - m = j - m
      BY <1>1, <1>4, <2>4 DEF Distinct
    <3> QED BY <1>1, <3>1
  <2> QED BY <1>2, <2>1, <2>2, <2>3, <2>4
<1> QED BY <1>1, <1>4 DEF Distinct, w

\* what the first n lists contain
Upto(a, n) == UNION {ToSet(a[i]) : i \in 1..n}

LEMMA FlattenDistinct ==
  ASSUME NEW A, NEW a \in Seq(Seq(A)), Len(a) # 0, \A i \in 1..Len(a) : Distinct(a[i]),
         \A i, j \in 1..Len(a) : i # j => ToSet(a[i]) \cap ToSet(a[j]) = {}
  PROVE  /\ FlattenSeq(a) \in Seq(A) /\ Distinct(FlattenSeq(a))
         /\ ToSet(FlattenSeq(a)) = Upto(a, Len(a))
<1> DEFINE n == Len(a)
           Good(q, m) == q \in Seq(A) /\ Distinct(q) /\ ToSet(q) = Upto(a, m)
<1>1. n \in Nat /\ n >= 1 /\ \A i \in 1..n : a[i] \in Seq(A) /\ Distinct(a[i])
  OBVIOUS
<1>2. PICK k : IsFlat(a, k) /\ FlattenSeq(a) = k[n]
  BY FlattenIs
<1> DEFINE Bad == {i \in 1..n : ~Good(k[i], i)}
<1>3. \A i \in 1..n : k[i] = IF i = 1 THEN a[1] ELSE k[i - 1] \o a[i]
  BY <1>2, FlatStep
<1>4. Bad = {}
  <2> SUFFICES ASSUME Bad # {} PROVE FALSE
    OBVIOUS
  <2>1. Bad \in SUBSET (1..n)
    OBVIOUS
  <2> HIDE DEF n
  <2>2. PICK i \in Bad : i \in 1..n /\ (i = 1 \/ (i - 1 \in 1..n /\ i - 1 \notin Bad))
    <3> HIDE DEF Bad
    <3> QED BY <1>1, <2>1, FirstOf
  <2>3. CASE i = 1
    <3>1. Upto(a, 1) = ToSet(a[1])
      BY DEF Upto
    <3> QED BY <1>1, <1>3, <2>2, <2>3, <3>1
  <2>4. CASE i # 1
    <3>1. Good(k[i - 1], i - 1) /\ a[i] \in Seq(A) /\ Distinct(a[i])
      BY <1>1, <2>2, <2>4
    <3>2. k[i] = k[i - 1] \o a[i]
      BY <1>3, <2>2, <2>4
    <3>3. ToSet(k[i - 1]) \cap ToSet(a[i]) = {}
      <4>1. \A j \in 1..(i - 1) : j \in 1..n /\ j # i
        BY <1>1, <2>2
      <4>2. \A j \in 1..(i - 1) : ToSet(a[j]) \cap ToSet(a[i]) = {}
        BY <2>2, <4>1 DEF n
      <4> QED BY <3>1, <4>2 DEF Upto
    <3>4. k[i] \in Seq(A) /\ ToSet(k[i]) = ToSet(k[i - 1]) \cup ToSet(a[i])
      BY <3>1, <3>2, ConcatIs
    <3>5. Distinct(k[i])
      BY <3>1, <3>2, <3>3, ConcatDistinct
    <3>6. Upto(a, i) = Upto(a, i - 1) \cup ToSet(a[i])
      <4>1. 1..i = 1..(i - 1) \cup {i}
        BY <1>1, <2>2, <2>4
      <4> QED BY <4>1 DEF Upto
    <3> QED BY <2>2, <3>1, <3>4, <3>5, <3>6
  <2> QED BY <2>3, <2>4
<1>5. Good(k[n], n)
  <2> HIDE DEF n, Good
  <2>1. n \in 1..n
    BY <1>1
  <2> QED BY <1>4, <2>1
<1> QED BY <1>2, <1>5
-------------------------------------------------------------------------------
(* The engine's cost lines are the verifier's.                             *)

LEMMA LineIsExpected ==
  ASSUME NEW id, NEW category, NEW recurrence \in {"ONCE", "MONTHLY"}, NEW quantity \in Known,
         NEW price \in Int, NEW source, NEW h \in Nat, NEW times,
         times = IF recurrence = "MONTHLY" THEN h ELSE 1
  PROVE  Line(id, category, recurrence, quantity, price, source, h) =
           Verifier!ExpectedLine(id, category, recurrence, quantity, Verifier!ValidPrice(price),
                                 source, times)
<1> DEFINE unit == PriceValue(price)
           amount == Rounded(quantity * unit, QuantityScale)
           cents == Verifier!Cents(quantity * unit, QuantityScale)
           T == IF quantity = Unknown \/ unit = Unknown THEN Unknown
                ELSE IF recurrence = "MONTHLY" THEN amount * h ELSE amount
           U == IF Unknown \in {quantity, unit} THEN Unknown ELSE times * cents
           row(t) == [id |-> id, category |-> category, recurrence |-> recurrence,
                      quantity |-> quantity, price |-> unit, source |-> source, total |-> t]
<1>1. Verifier!ValidPrice(price) = unit
  BY ScaleAssumption, VerifierNames DEF Verifier!ValidPrice, PriceValue
<1>2. Line(id, category, recurrence, quantity, price, source, h) = row(T)
  BY DEF Line
<1>3. Verifier!ExpectedLine(id, category, recurrence, quantity, unit, source, times) = row(U)
  BY VerifierNames DEF Verifier!ExpectedLine
<1>4. T = U
  <2>1. CASE quantity = Unknown \/ unit = Unknown
    BY <2>1
  <2>2. CASE ~(quantity = Unknown \/ unit = Unknown)
    <3>1. quantity \in Nat /\ unit \in Nat
      BY <2>2, PriceType DEF Known
    <3>2. quantity * unit \in Nat
      BY <3>1, TimesType
    <3>3. amount = cents /\ amount \in Nat
      BY <3>2, ScaleAssumption, RoundedIsCents, RoundedType
    <3> HIDE DEF amount, cents, unit
    <3>4. T = IF recurrence = "MONTHLY" THEN amount * h ELSE amount
      BY <2>2
    <3>5. U = times * cents
      BY <2>2
    <3>6. CASE recurrence = "MONTHLY"
      <4>1. times = h
        BY <3>6
      <4> QED BY <3>3, <3>4, <3>5, <3>6, <4>1
    <3>7. CASE recurrence # "MONTHLY"
      <4>1. times = 1
        BY <3>7
      <4> QED BY <3>3, <3>4, <3>5, <3>7, <4>1
    <3> QED BY <3>6, <3>7
  <2> QED BY <2>1, <2>2
<1> HIDE DEF unit, T, U, row
<1> QED BY <1>1, <1>2, <1>3, <1>4

\* the lines of one workload, as a sequence and as a set
LinesOf(w, p, h) == <<RuntimeLine(w, p, h), StorageLine(w, h), MemoryLine(w, h)>>

LEMMA LinesOfIs ==
  ASSUME NEW w \in WorkloadInputs, NEW p \in CatalogPlans, NEW h \in Nat
  PROVE  /\ LinesOf(w, p, h) \in Seq(LineRows) /\ Distinct(LinesOf(w, p, h))
         /\ ToSet(LinesOf(w, p, h)) = {RuntimeLine(w, p, h), StorageLine(w, h), MemoryLine(w, h)}
         /\ \A l \in ToSet(LinesOf(w, p, h)) : l.id[1] = w.key /\ l.id[2] \in {"runtime", "storage", "memory"}
<1> DEFINE q == LinesOf(w, p, h)
           a == RuntimeLine(w, p, h)
           b == StorageLine(w, h)
           c == MemoryLine(w, h)
<1>1. a \in LineRows /\ b \in LineRows /\ c \in LineRows
  BY LineTypes
<1>2. a.id = <<w.key, "runtime">> /\ b.id = <<w.key, "storage">> /\ c.id = <<w.key, "memory">>
  BY DEF RuntimeLine, StorageLine, MemoryLine, Line
<1>3. q = <<a, b, c>>
  BY DEF LinesOf
<1> HIDE DEF a, b, c, q
<1>4. a # b /\ b # c /\ a # c
  BY <1>2
<1>5. DOMAIN q = 1..3 /\ q[1] = a /\ q[2] = b /\ q[3] = c /\ q \in Seq(LineRows)
  BY <1>1, <1>3
<1>6. \A i \in 1..3 : i = 1 \/ i = 2 \/ i = 3
  OBVIOUS
<1>7. Distinct(q)
  BY <1>4, <1>5, <1>6 DEF Distinct
<1>8. ToSet(q) = {a, b, c}
  BY <1>5, <1>6 DEF ToSet
<1>9. \A l \in {a, b, c} : l.id[1] = w.key /\ l.id[2] \in {"runtime", "storage", "memory"}
  BY <1>2
<1> QED BY <1>5, <1>7, <1>8, <1>9 DEF q, a, b, c

LEMMA PlanLinesIs ==
  ASSUME NEW w \in WorkloadInputs, NEW p \in CatalogPlans, NEW h \in Nat
  PROVE  LET q == PlanLines(p, h)
         IN  /\ q \in Seq(LineRows) /\ Distinct(q) /\ ToSet(q) = {q[1], q[2]}
             /\ \A l \in ToSet(q) : l.id[2] \in {"setup", "operations"}
<1> DEFINE q == PlanLines(p, h)
<1>1. q \in Seq(LineRows) /\ Len(q) = 2
  BY LineTypes
<1>2. q[1].id = <<"plan", "setup">> /\ q[2].id = <<"plan", "operations">>
  BY DEF PlanLines, Line
<1> HIDE DEF q
<1>3. DOMAIN q = 1..2 /\ \A i \in 1..2 : i = 1 \/ i = 2
  BY <1>1
<1>4. q[1] # q[2]
  BY <1>2
<1>5. Distinct(q) /\ ToSet(q) = {q[1], q[2]}
  BY <1>3, <1>4 DEF Distinct, ToSet
<1>6. \A l \in {q[1], q[2]} : l.id[2] \in {"setup", "operations"}
  BY <1>2
<1> QED BY <1>1, <1>5, <1>6 DEF q

LEMMA ExpectedLinesIs ==
  ASSUME NEW s \in ScenarioInputs, NEW p \in CatalogPlans, NEW h \in Nat
  PROVE  Verifier!ExpectedLines(s, p, h) =
           (UNION {{RuntimeLine(s.workloads[i], p, h), StorageLine(s.workloads[i], h),
                    MemoryLine(s.workloads[i], h)} : i \in DOMAIN s.workloads})
           \cup {PlanLines(p, h)[1], PlanLines(p, h)[2]}
<1> DEFINE expected(id, quantity, price, source) ==
             Verifier!ExpectedLine(id, "OPEX", "MONTHLY", quantity, Verifier!ValidPrice(price), source, h)
           three(w) == {expected(<<w.key, "runtime">>, Verifier!RuntimeQuantity(w, p), p.price, p.key),
                        expected(<<w.key, "storage">>, w.storage_gib, Catalog.storage, "storage"),
                        expected(<<w.key, "memory">>, w.memory_gib, Catalog.memory, "memory")}
           own(w) == {RuntimeLine(w, p, h), StorageLine(w, h), MemoryLine(w, h)}
           setup == Verifier!ExpectedLine(<<"plan", "setup">>,
                      IF p.key = "HYBRID" THEN "CAPEX" ELSE "OPEX", "ONCE", QuantityScale,
                      Verifier!ValidPrice(p.setup), p.key, 1)
           team == expected(<<"plan", "operations">>, p.staff, Catalog.staff, "staff")
           W == {s.workloads[i] : i \in DOMAIN s.workloads}
<1>1. Verifier!ExpectedLines(s, p, h) = (UNION {three(w) : w \in W}) \cup {setup, team}
  BY DEF Verifier!ExpectedLines, Verifier!Workloads, Verifier!ToSet
<1>2. ASSUME NEW id, NEW quantity \in Known, NEW price \in Int, NEW source
      PROVE  expected(id, quantity, price, source) = Line(id, "OPEX", "MONTHLY", quantity, price, source, h)
  BY LineIsExpected
<1>3. /\ p.price \in Int /\ p.setup \in Int /\ p.staff \in Known /\ QuantityScale \in Known
      /\ Catalog.storage \in Int /\ Catalog.memory \in Int /\ Catalog.staff \in Int
  BY CatalogAssumption, ScaleAssumption DEF CatalogPlans, Known
<1>4. ASSUME NEW w \in WorkloadInputs PROVE three(w) = own(w)
  <2>1. Verifier!RuntimeQuantity(w, p) = IF p.unit = "user" THEN People(w) ELSE w.vcpu_count
    <3>1. w.user_count \in Known
      BY DEF WorkloadInputs, Positive
    <3>2. CASE w.user_count = Unknown
      BY <3>2, VerifierNames DEF Verifier!RuntimeQuantity, People
    <3>3. CASE w.user_count # Unknown
      <4>1. w.user_count * QuantityScale = QuantityScale * w.user_count
        BY <3>1, <3>3, ScaleAssumption DEF Known
      <4> QED BY <3>3, <4>1, VerifierNames DEF Verifier!RuntimeQuantity, People
    <3> QED BY <3>2, <3>3
  <2>2. w.vcpu_count \in Known /\ w.storage_gib \in Known /\ w.memory_gib \in Known /\ People(w) \in Known
    <3>1. People(w) \in Known
      BY PeopleType
    <3> QED BY <3>1 DEF WorkloadInputs, Positive
  <2> HIDE DEF expected
  <2> QED BY <1>2, <1>3, <2>1, <2>2 DEF RuntimeLine, StorageLine, MemoryLine
<1>5. setup = PlanLines(p, h)[1]
  BY <1>3, LineIsExpected DEF PlanLines
<1>6. team = PlanLines(p, h)[2]
  <2> HIDE DEF expected
  <2> QED BY <1>2, <1>3 DEF PlanLines
<1>7. \A w \in W : three(w) = own(w)
  <2>1. \A w \in W : w \in WorkloadInputs
    BY DEF ScenarioInputs
  <2> HIDE DEF three, own, W
  <2> QED BY <1>4, <2>1
<1> HIDE DEF three, setup, team
<1>8. UNION {three(w) : w \in W} = UNION {own(s.workloads[i]) : i \in DOMAIN s.workloads}
  BY <1>7
<1> QED BY <1>1, <1>5, <1>6, <1>8

(* The engine's list of cost lines is the verifier's set of them, each     *)
(* once.                                                                   *)
LEMMA LinesExact ==
  ASSUME NEW s \in ScenarioInputs, NEW p \in CatalogPlans, NEW h \in Nat
  PROVE  /\ Lines(s, p, h) \in Seq(LineRows) /\ Distinct(Lines(s, p, h))
         /\ ToSet(Lines(s, p, h)) = Verifier!ExpectedLines(s, p, h)
<1> DEFINE n == Len(s.workloads)
           a == [i \in DOMAIN s.workloads |-> LinesOf(s.workloads[i], p, h)]
           own == PlanLines(p, h)
           F == FlattenSeq(a)
<1>1. /\ n \in Nat /\ n # 0 /\ 1 \in 1..n /\ DOMAIN s.workloads = 1..n
      /\ \A i \in 1..n : s.workloads[i] \in WorkloadInputs
      /\ \A i, j \in 1..n : s.workloads[i].key = s.workloads[j].key => i = j
  BY DEF ScenarioInputs
<1>2. Lines(s, p, h) = F \o own
  BY DEF Lines, WorkloadLines, PlanLines, RuntimeLine, StorageLine, MemoryLine, LinesOf
<1>3. /\ a \in [1..n -> Seq(LineRows)] /\ \A i \in 1..n : a[i] = LinesOf(s.workloads[i], p, h)
  <2> HIDE DEF n
  <2> QED BY <1>1, LinesOfIs
<1> HIDE DEF a, n
<1>4. a \in Seq(Seq(LineRows)) /\ Len(a) = n
  BY <1>1, <1>3, AsSequence
<1>5. \A i \in 1..n : Distinct(a[i])
  BY <1>1, <1>3, LinesOfIs
<1>6. ASSUME NEW i \in 1..n, NEW l \in ToSet(a[i])
      PROVE  l.id[1] = s.workloads[i].key /\ l.id[2] \in {"runtime", "storage", "memory"}
  <2>1. a[i] = LinesOf(s.workloads[i], p, h) /\ s.workloads[i] \in WorkloadInputs
    BY <1>1, <1>3
  <2>2. l \in ToSet(LinesOf(s.workloads[i], p, h))
    BY <2>1
  <2> QED BY <2>1, <2>2, LinesOfIs
<1>7. \A i, j \in 1..n : i # j => ToSet(a[i]) \cap ToSet(a[j]) = {}
  BY <1>1, <1>6
<1>8. F \in Seq(LineRows) /\ Distinct(F) /\ ToSet(F) = Upto(a, n)
  BY <1>1, <1>4, <1>5, <1>7, FlattenDistinct
<1>9. own \in Seq(LineRows) /\ Distinct(own) /\ ToSet(own) = {own[1], own[2]}
      /\ \A l \in ToSet(own) : l.id[2] \in {"setup", "operations"}
  BY <1>1, PlanLinesIs
<1> HIDE DEF F, own
<1>10. \A l \in ToSet(F) : l.id[2] \in {"runtime", "storage", "memory"}
  BY <1>6, <1>8 DEF Upto
<1>11. ToSet(F) \cap ToSet(own) = {}
  <2>1. {"runtime", "storage", "memory"} \cap {"setup", "operations"} = {}
    OBVIOUS
  <2> QED BY <1>9, <1>10, <2>1
<1>12. F \o own \in Seq(LineRows) /\ ToSet(F \o own) = ToSet(F) \cup ToSet(own)
  BY <1>8, <1>9, ConcatIs
<1>13. Distinct(F \o own)
  BY <1>8, <1>9, <1>11, ConcatDistinct
<1>14. Upto(a, n) = UNION {{RuntimeLine(s.workloads[i], p, h), StorageLine(s.workloads[i], h),
                           MemoryLine(s.workloads[i], h)} : i \in DOMAIN s.workloads}
  <2> DEFINE set(i) == {RuntimeLine(s.workloads[i], p, h), StorageLine(s.workloads[i], h),
                        MemoryLine(s.workloads[i], h)}
  <2>1. \A i \in 1..n : ToSet(a[i]) = set(i)
    BY <1>1, <1>3, LinesOfIs, SMTT(30)
  <2> HIDE DEF set
  <2>2. Upto(a, n) = UNION {set(i) : i \in DOMAIN s.workloads}
    BY <1>1, <2>1 DEF Upto
  <2> QED BY <2>2 DEF set
<1>15. ToSet(F \o own) = Verifier!ExpectedLines(s, p, h)
  BY <1>8, <1>9, <1>12, <1>14, ExpectedLinesIs DEF own
<1> QED BY <1>2, <1>12, <1>13, <1>15
-------------------------------------------------------------------------------
(* Units carried over by a bijection, and the engine's sums of lines are   *)
(* the verifier's.                                                         *)

\* b takes S to T one to one, and the numbers of S with it
Carries(b, S, T, f, g) ==
  /\ f \in [S -> Nat] /\ g \in [T -> Nat] /\ b \in [S -> T]
  /\ \A x, y \in S : b[x] = b[y] => x = y
  /\ \A z \in T : \E x \in S : b[x] = z
  /\ \A x \in S : g[b[x]] = f[x]

LEMMA UnitsMoved ==
  ASSUME NEW S, IsFiniteSet(S), NEW T, NEW f, NEW g, NEW b, Carries(b, S, T, f, g)
  PROVE  Cardinality(Units(f, S)) = Cardinality(Units(g, T))
<1> DEFINE U == Units(f, S)
           V == Units(g, T)
           m == [u \in U |-> <<b[u[1]], u[2]>>]
<1>a. /\ f \in [S -> Nat] /\ g \in [T -> Nat] /\ b \in [S -> T]
      /\ \A x, y \in S : b[x] = b[y] => x = y
      /\ \A z \in T : \E x \in S : b[x] = z
      /\ \A x \in S : g[b[x]] = f[x]
  BY DEF Carries
<1>1. \A u : u \in U <=> u \in S \X Nat /\ u[2] \in 1..f[u[1]]
  BY DEF Units
<1>2. \A v : v \in V <=> v \in T \X Nat /\ v[2] \in 1..g[v[1]]
  BY DEF Units
<1>3. IsFiniteSet(U)
  BY <1>a, UnitsFinite
<1> HIDE DEF U, V
<1>4. \A u \in U : <<b[u[1]], u[2]>> \in V
  BY <1>a, <1>1, <1>2
<1>5. m \in [U -> V]
  BY <1>4
<1>6. ASSUME NEW u \in U, NEW v \in U, m[u] = m[v] PROVE u = v
  <2>1. u[1] = v[1] /\ u[2] = v[2]
    BY <1>a, <1>1, <1>6
  <2>2. u = <<u[1], u[2]>> /\ v = <<v[1], v[2]>>
    BY <1>1
  <2> QED BY <2>1, <2>2
<1>7. ASSUME NEW v \in V PROVE \E u \in U : m[u] = v
  <2>1. v \in T \X Nat /\ v[2] \in 1..g[v[1]] /\ v = <<v[1], v[2]>>
    BY <1>2
  <2>2. PICK x \in S : b[x] = v[1]
    BY <1>a, <2>1
  <2>3. <<x, v[2]>> \in U
    BY <1>a, <1>1, <2>1, <2>2
  <2>4. m[<<x, v[2]>>] = v
    BY <2>1, <2>2, <2>3
  <2> QED BY <2>3, <2>4
<1> HIDE DEF m
<1>8. m \in Bijection(U, V)
  BY <1>5, <1>6, <1>7 DEF Bijection, Injection, IsInjective, Surjection
<1>9. ExistsBijection(U, V)
  BY <1>8 DEF ExistsBijection
<1>10. Cardinality(V) = Cardinality(U)
  BY <1>3, <1>9, FS_Bijection
<1> QED BY <1>10 DEF U, V

\* the verifier's lines with one value of a field
LinesWith(L, f, x) == {l \in L : l[f] = x}

LEMMA TotalIsSum ==
  ASSUME NEW lines \in Seq(LineRows), Distinct(lines), NEW f, NEW x
  PROVE  Verifier!Sum(LinesWith(ToSet(lines), f, x)) = TotalOf(lines, Having(lines, f, x))
<1> DEFINE I == Having(lines, f, x)
           X == LinesWith(ToSet(lines), f, x)
           g == [i \in I |-> lines[i].total]
           k == [l \in X |-> l.total]
           b == [i \in I |-> lines[i]]
<1>1. X = {lines[i] : i \in I} /\ I \subseteq DOMAIN lines
  BY DEF Having, LinesWith, ToSet
<1>2. IsFiniteSet(I)
  BY <1>1, TotalOfType
<1>3. (\E l \in X : l.total = Unknown) <=> (\E i \in I : lines[i].total = Unknown)
  BY <1>1
<1>4. CASE \E i \in I : lines[i].total = Unknown
  BY <1>3, <1>4, VerifierNames DEF TotalOf, Verifier!Sum
<1>5. CASE \A i \in I : lines[i].total # Unknown
  <2>1. TotalOf(lines, I) = Total(g)
    BY <1>5 DEF TotalOf
  <2>2. Verifier!Sum(X) = Verifier!SumFunction(k)
    BY <1>3, <1>5, VerifierNames DEF Verifier!Sum
  <2>3. g \in [I -> Nat]
    <3>1. \A i \in I : lines[i] \in LineRows
      BY <1>1
    <3>2. \A i \in I : lines[i].total \in Nat
      BY <1>5, <3>1 DEF LineRows, Known
    <3> QED BY <3>2
  <2>4. k \in [X -> Nat]
    BY <1>1, <2>3
  <2>5. b \in [I -> X] /\ (\A z \in X : \E i \in I : b[i] = z) /\ \A i \in I : k[b[i]] = g[i]
    BY <1>1
  <2>6. \A i, j \in I : b[i] = b[j] => i = j
    BY <1>1 DEF Distinct
  <2>7. IsFiniteSet(X)
    <3>1. IsFiniteSet(ToSet(lines))
      BY DistinctCounts
    <3>2. X \in SUBSET ToSet(lines)
      BY DEF LinesWith
    <3> HIDE DEF X
    <3> QED BY <3>1, <3>2, FS_Subset
  <2> HIDE DEF I, X, g, k, b
  <2>8. Cardinality(Units(g, I)) = Cardinality(Units(k, X))
    <3>1. Carries(b, I, X, g, k)
      BY <2>3, <2>4, <2>5, <2>6 DEF Carries
    <3> QED BY <1>2, <3>1, UnitsMoved
  <2>9. Total(g) = Cardinality(Units(g, I))
    BY <1>2, <2>3, TotalCounts
  <2>10. Verifier!SumFunction(k) = Cardinality(Units(k, X))
    BY <2>4, <2>7, SumCounts
  <2>11. Verifier!Sum(X) = TotalOf(lines, I)
    BY <2>1, <2>2, <2>8, <2>9, <2>10
  <2> QED BY <2>11 DEF I, X
<1> QED BY <1>4, <1>5

SumFields == {"complete", "capex", "opex", "tco", "startup", "monthly"}

(* The engine's sums are the verifier's.                                   *)
LEMMA SumsExact ==
  ASSUME NEW lines \in Seq(LineRows), Distinct(lines), NEW h
  PROVE  LET c == Summed(lines, h)
             e == Verifier!ExpectedSums(ToSet(lines), h)
         IN  DOMAIN e = SumFields /\ \A f \in SumFields : c[f] = e[f]
<1> DEFINE c == Summed(lines, h)
           e == Verifier!ExpectedSums(ToSet(lines), h)
           capex == TotalOf(lines, Having(lines, "category", "CAPEX"))
           opex == TotalOf(lines, Having(lines, "category", "OPEX"))
           monthly == TotalOf(lines, Having(lines, "recurrence", "MONTHLY"))
           once == TotalOf(lines, Having(lines, "recurrence", "ONCE"))
<1>1. /\ c.capex = capex /\ c.opex = opex /\ c.startup = once
      /\ c.tco = (IF Unknown \in {capex, opex} THEN Unknown ELSE capex + opex)
      /\ c.monthly = (IF monthly = Unknown THEN Unknown ELSE monthly \div h)
      /\ c.complete = (\A i \in DOMAIN lines : lines[i].total # Unknown)
  BY DEF Summed, TotalFor, TotalOf, Having
<1>2. /\ Verifier!Sum({l \in ToSet(lines) : l.category = "CAPEX"}) = capex
      /\ Verifier!Sum({l \in ToSet(lines) : l.category = "OPEX"}) = opex
      /\ Verifier!Sum({l \in ToSet(lines) : l.recurrence = "MONTHLY"}) = monthly
      /\ Verifier!Sum({l \in ToSet(lines) : l.recurrence = "ONCE"}) = once
  <2>1. \A f, x : Verifier!Sum(LinesWith(ToSet(lines), f, x)) = TotalOf(lines, Having(lines, f, x))
    BY TotalIsSum
  <2> QED BY <2>1 DEF LinesWith
<1>3. DOMAIN e = SumFields
  BY DEF Verifier!ExpectedSums, SumFields
<1>4. /\ e.capex = capex /\ e.opex = opex /\ e.startup = once
      /\ e.tco = (IF Unknown \in {capex, opex} THEN Unknown ELSE capex + opex)
      /\ e.monthly = (IF monthly = Unknown THEN Unknown ELSE monthly \div h)
      /\ e.complete = (Unknown \notin {capex, opex})
  <2> HIDE DEF capex, opex, monthly, once
  <2> QED BY <1>2, VerifierNames DEF Verifier!ExpectedSums
<1>5. (\A i \in DOMAIN lines : lines[i].total # Unknown) <=> Unknown \notin {capex, opex}
  <2>1. \A x : TotalOf(lines, Having(lines, "category", x)) = Unknown <=>
                 \E i \in Having(lines, "category", x) : lines[i].total = Unknown
    <3>1. \A x : Having(lines, "category", x) \in SUBSET DOMAIN lines
      BY DEF Having
    <3> QED BY <3>1, TotalOfType
  <2>2. \A i \in DOMAIN lines : lines[i].category \in {"CAPEX", "OPEX"}
    <3>1. \A i \in DOMAIN lines : lines[i] \in LineRows
      OBVIOUS
    <3> QED BY <3>1 DEF LineRows
  <2> QED BY <2>1, <2>2, ZenonT(60) DEF Having
<1> HIDE DEF c, e, capex, opex, monthly, once
<1>6. c.complete = e.complete
  BY <1>1, <1>4, <1>5
<1>7. \A f \in SumFields : c[f] = e[f]
  BY <1>1, <1>4, <1>6 DEF SumFields
<1> QED BY <1>3, <1>7 DEF c, e
-------------------------------------------------------------------------------
(* The engine's demands on a workload are the verifier's.                  *)

AsState(r) == <<r.key, r.status>>

LEMMA AmountState ==
  ASSUME NEW w \in WorkloadInputs, NEW p \in CatalogPlans, NEW i \in 1..4
  PROVE  LET capacity == Verifier!ValidPrice(p.capacities[Amounts[i]])
         IN  AsState(AmountCheck(w, p, i)) =
               Verifier!State(<<w.key, Amounts[i]>>, w[Amounts[i]] = Unknown \/ capacity = Unknown,
                              capacity >= w[Amounts[i]])
<1> DEFINE need == w[Amounts[i]]
           own == PriceValue(p.capacities[Amounts[i]])
           capacity == Verifier!ValidPrice(p.capacities[Amounts[i]])
<1>1. Amounts[i] \in {"user_count", "vcpu_count", "memory_gib", "storage_gib"}
  BY FourOf
<1>2. p.capacities[Amounts[i]] \in Int
  <2>1. Amounts[i] \in {Amounts[j] : j \in DOMAIN Amounts}
    BY FourOf
  <2> QED BY <2>1 DEF CatalogPlans
<1>3. need \in Known
  BY <1>1 DEF WorkloadInputs, Positive
<1>4. own = capacity /\ own \in Known
  BY <1>2, ScaleAssumption, PriceType, VerifierNames DEF Verifier!ValidPrice, PriceValue
<1>5. Unknown \notin {need, own} => (need <= own <=> capacity >= need)
  BY <1>3, <1>4 DEF Known
<1>6. Unknown \notin {need, own} <=> ~(need = Unknown \/ capacity = Unknown)
  BY <1>4
<1> HIDE DEF need, own, capacity
<1>7. AsState(Check(<<w.key, Amounts[i]>>, Unknown \notin {need, own}, need <= own)) =
        Verifier!State(<<w.key, Amounts[i]>>, need = Unknown \/ capacity = Unknown, capacity >= need)
  BY <1>5, <1>6 DEF AsState, Check, Verifier!State
<1> QED BY <1>7 DEF AmountCheck, need, own, capacity

LEMMA TargetStates ==
  ASSUME NEW w \in WorkloadInputs, NEW p \in CatalogPlans
  PROVE  /\ AsState(TargetCheck(w, p, 1)) =
              Verifier!State(<<w.key, "max_latency_ms">>, w.max_latency_ms = Unknown, w.max_latency_ms >= p.latency)
         /\ AsState(TargetCheck(w, p, 2)) =
              Verifier!State(<<w.key, "availability_percent">>, w.availability_percent = Unknown,
                             w.availability_percent <= p.availability)
         /\ AsState(TargetCheck(w, p, 3)) =
              Verifier!State(<<w.key, "rto_seconds">>, w.rto_seconds = Unknown, w.rto_seconds >= p.rto)
         /\ AsState(TargetCheck(w, p, 4)) =
              Verifier!State(<<w.key, "rpo_seconds">>, w.rpo_seconds = Unknown, w.rpo_seconds >= p.rpo)
<1>1. /\ w.max_latency_ms \in Known /\ w.availability_percent \in Known
      /\ w.rto_seconds \in Known /\ w.rpo_seconds \in Known
      /\ p.latency \in Nat /\ p.availability \in Nat /\ p.rto \in Nat /\ p.rpo \in Nat
  BY DEF WorkloadInputs, Positive, CatalogPlans
<1>2. /\ TargetCheck(w, p, 1) = Check(<<w.key, "max_latency_ms">>, w.max_latency_ms # Unknown,
                                      p.latency <= w.max_latency_ms)
      /\ TargetCheck(w, p, 2) = Check(<<w.key, "availability_percent">>, w.availability_percent # Unknown,
                                      p.availability >= w.availability_percent)
      /\ TargetCheck(w, p, 3) = Check(<<w.key, "rto_seconds">>, w.rto_seconds # Unknown, p.rto <= w.rto_seconds)
      /\ TargetCheck(w, p, 4) = Check(<<w.key, "rpo_seconds">>, w.rpo_seconds # Unknown, p.rpo <= w.rpo_seconds)
  BY DEF TargetCheck, Targets
<1>3. \A a, b \in Int : a <= b <=> b >= a
  OBVIOUS
<1>4. \A a \in Known : a \in Int
  BY DEF Known, Unknown
<1> QED BY <1>1, <1>2, <1>3, <1>4 DEF AsState, Check, Verifier!State

\* the checks of one workload, by their names
LEMMA WorkloadChecksIs ==
  ASSUME NEW w \in WorkloadInputs, NEW p
  PROVE  /\ WorkloadChecks(w, p) \in Seq(Rows) /\ Distinct(WorkloadChecks(w, p))
         /\ ToSet(WorkloadChecks(w, p)) =
              {FunctionCheck(w, p), InternetCheck(w), SensitivityCheck(w)}
              \cup {AmountCheck(w, p, i) : i \in 1..4} \cup {TargetCheck(w, p, i) : i \in 1..4}
         /\ \A r \in ToSet(WorkloadChecks(w, p)) :
              r.key[1] = w.key /\ r.key[2] \notin {"price_validity", "region", "staff", "budget"}
<1> DEFINE A1 == <<FunctionCheck(w, p)>>
           A2 == [i \in 1..4 |-> AmountCheck(w, p, i)]
           A3 == [i \in 1..4 |-> TargetCheck(w, p, i)]
           A4 == <<InternetCheck(w), SensitivityCheck(w)>>
           amounts == {"user_count", "vcpu_count", "memory_gib", "storage_gib"}
           targets == {"max_latency_ms", "availability_percent", "rto_seconds", "rpo_seconds"}
           Named(r, n) == r.key = <<w.key, n>>
<1>1. /\ FunctionCheck(w, p) \in Rows /\ InternetCheck(w) \in Rows /\ SensitivityCheck(w) \in Rows
      /\ \A i \in 1..4 : AmountCheck(w, p, i) \in Rows /\ TargetCheck(w, p, i) \in Rows
  BY CheckTypes
<1>2. /\ Named(FunctionCheck(w, p), "function") /\ Named(InternetCheck(w), "internet")
      /\ Named(SensitivityCheck(w), "sensitivity")
      /\ \A i \in 1..4 : Named(AmountCheck(w, p, i), Amounts[i]) /\ Named(TargetCheck(w, p, i), Targets[i].field)
  BY DEF FunctionCheck, InternetCheck, SensitivityCheck, AmountCheck, TargetCheck, Check
<1>3. /\ \A i, j \in 1..4 : Amounts[i] = Amounts[j] => i = j
      /\ \A i, j \in 1..4 : Targets[i].field = Targets[j].field => i = j
  <2>1. \A i \in 1..4 : i = 1 \/ i = 2 \/ i = 3 \/ i = 4
    OBVIOUS
  <2>2. /\ Amounts[1] = "user_count" /\ Amounts[2] = "vcpu_count" /\ Amounts[3] = "memory_gib"
        /\ Amounts[4] = "storage_gib"
    BY DEF Amounts
  <2>3. /\ Targets[1].field = "max_latency_ms" /\ Targets[2].field = "availability_percent"
        /\ Targets[3].field = "rto_seconds" /\ Targets[4].field = "rpo_seconds"
    BY DEF Targets
  <2>4. \A i, j \in 1..4 : Amounts[i] = Amounts[j] => i = j
    BY <2>1, <2>2
  <2>5. \A i, j \in 1..4 : Targets[i].field = Targets[j].field => i = j
    BY <2>1, <2>3
  <2> QED BY <2>4, <2>5
<1>4. \A i \in 1..4 : Amounts[i] \in amounts /\ Targets[i].field \in targets
  BY FourOf
<1>5. A1 \in Seq(Rows) /\ Distinct(A1) /\ ToSet(A1) = {FunctionCheck(w, p)}
  BY <1>1 DEF Distinct, ToSet
<1>6. A2 \in Seq(Rows) /\ Distinct(A2) /\ ToSet(A2) = {AmountCheck(w, p, i) : i \in 1..4}
  <2>1. A2 \in [1..4 -> Rows]
    BY <1>1
  <2>2. A2 \in Seq(Rows)
    <3> HIDE DEF A2
    <3> QED BY <2>1, AsSequence
  <2>3. Distinct(A2)
    <3>1. \A i, j \in 1..4 : AmountCheck(w, p, i) = AmountCheck(w, p, j) => i = j
      BY <1>2, <1>3
    <3> QED BY <3>1 DEF Distinct
  <2> QED BY <2>2, <2>3 DEF ToSet
<1>7. A3 \in Seq(Rows) /\ Distinct(A3) /\ ToSet(A3) = {TargetCheck(w, p, i) : i \in 1..4}
  <2>1. A3 \in [1..4 -> Rows]
    BY <1>1
  <2>2. A3 \in Seq(Rows)
    <3> HIDE DEF A3
    <3> QED BY <2>1, AsSequence
  <2>3. Distinct(A3)
    <3>1. \A i, j \in 1..4 : TargetCheck(w, p, i) = TargetCheck(w, p, j) => i = j
      BY <1>2, <1>3
    <3> QED BY <3>1 DEF Distinct
  <2> QED BY <2>2, <2>3 DEF ToSet
<1>8. A4 \in Seq(Rows) /\ Distinct(A4) /\ ToSet(A4) = {InternetCheck(w), SensitivityCheck(w)}
  <2>1. InternetCheck(w) # SensitivityCheck(w)
    BY <1>2
  <2>2. DOMAIN A4 = {1, 2} /\ A4[1] = InternetCheck(w) /\ A4[2] = SensitivityCheck(w)
    OBVIOUS
  <2>3. A4 \in Seq(Rows)
    BY <1>1
  <2> HIDE DEF A4
  <2> QED BY <2>1, <2>2, <2>3 DEF Distinct, ToSet
<1>9. WorkloadChecks(w, p) = A1 \o A2 \o A3 \o A4
  BY WorkloadChecksParts
<1>10. /\ \A r \in ToSet(A1) : Named(r, "function")
       /\ \A r \in ToSet(A2) : \E n \in amounts : Named(r, n)
       /\ \A r \in ToSet(A3) : \E n \in targets : Named(r, n)
       /\ \A r \in ToSet(A4) : Named(r, "internet") \/ Named(r, "sensitivity")
  <2> HIDE DEF Named, A1, A2, A3, A4, amounts, targets
  <2> QED BY <1>2, <1>4, <1>5, <1>6, <1>7, <1>8
<1> HIDE DEF A1, A2, A3, A4
<1>11. /\ ToSet(A1) \cap ToSet(A2) = {}
       /\ (ToSet(A1) \cup ToSet(A2)) \cap ToSet(A3) = {}
       /\ (ToSet(A1) \cup ToSet(A2) \cup ToSet(A3)) \cap ToSet(A4) = {}
  BY <1>10
<1> DEFINE B == A1 \o A2
           C == A1 \o A2 \o A3
           D == A1 \o A2 \o A3 \o A4
<1>12. B \in Seq(Rows) /\ ToSet(B) = ToSet(A1) \cup ToSet(A2) /\ Distinct(B)
  BY <1>5, <1>6, <1>11, ConcatIs, ConcatDistinct
<1>13. C \in Seq(Rows) /\ ToSet(C) = ToSet(A1) \cup ToSet(A2) \cup ToSet(A3) /\ Distinct(C)
  <2>1. C = B \o A3
    OBVIOUS
  <2> HIDE DEF B, C
  <2>2. ToSet(B) \cap ToSet(A3) = {}
    BY <1>11, <1>12
  <2> QED BY <1>7, <1>12, <2>1, <2>2, ConcatIs, ConcatDistinct
<1>14. D \in Seq(Rows) /\ ToSet(D) = ToSet(A1) \cup ToSet(A2) \cup ToSet(A3) \cup ToSet(A4) /\ Distinct(D)
  <2>1. D = C \o A4
    OBVIOUS
  <2> HIDE DEF C, D
  <2>2. ToSet(C) \cap ToSet(A4) = {}
    BY <1>11, <1>13
  <2> QED BY <1>8, <1>13, <2>1, <2>2, ConcatIs, ConcatDistinct
<1>15. \A r \in ToSet(D) : r.key[1] = w.key /\ r.key[2] \notin {"price_validity", "region", "staff", "budget"}
  <2>1. \A r \in ToSet(D) : \E n \in {"function", "internet", "sensitivity"} \cup amounts \cup targets : Named(r, n)
    <3> HIDE DEF Named, D
    <3> QED BY <1>10, <1>14
  <2> HIDE DEF D
  <2> QED BY <2>1
<1> HIDE DEF D
<1>16. D = WorkloadChecks(w, p)
  BY <1>9 DEF D
<1> QED BY <1>5, <1>6, <1>7, <1>8, <1>14, <1>15, <1>16
-------------------------------------------------------------------------------
(* The engine's constraints are the verifier's.                            *)

StatesOf(rows) == {AsState(r) : r \in rows}

LEMMA WorkloadStatesIs ==
  ASSUME NEW w \in WorkloadInputs, NEW p \in CatalogPlans
  PROVE  Verifier!WorkloadStates(w, p) = StatesOf(ToSet(WorkloadChecks(w, p)))
<1> DEFINE cap(a) == Verifier!ValidPrice(p.capacities[a])
           amount(a) == Verifier!State(<<w.key, a>>, w[a] = Unknown \/ cap(a) = Unknown, cap(a) >= w[a])
           function == Verifier!State(<<w.key, "function">>, FALSE, w.type \in p.supported)
           latency == Verifier!State(<<w.key, "max_latency_ms">>, w.max_latency_ms = Unknown, w.max_latency_ms >= p.latency)
           availability == Verifier!State(<<w.key, "availability_percent">>, w.availability_percent = Unknown,
                                          w.availability_percent <= p.availability)
           rto == Verifier!State(<<w.key, "rto_seconds">>, w.rto_seconds = Unknown, w.rto_seconds >= p.rto)
           rpo == Verifier!State(<<w.key, "rpo_seconds">>, w.rpo_seconds = Unknown, w.rpo_seconds >= p.rpo)
           internet == Verifier!State(<<w.key, "internet">>, w.internet = "unknown", w.internet # "no")
           sensitivity == Verifier!State(<<w.key, "sensitivity">>, w.sensitivity = "unknown",
                                         w.sensitivity # "RESTRICTED")
<1>1. Verifier!WorkloadStates(w, p) =
        {function, latency, availability, rto, rpo, internet, sensitivity}
        \cup {amount(Amounts[i]) : i \in 1..4}
  <2>1. Verifier!ToSet(Verifier!Amounts) = {Amounts[i] : i \in 1..4}
    BY FourOf, VerifierNames DEF Verifier!ToSet
  <2>2. Verifier!WorkloadStates(w, p) =
          {function, latency, availability, rto, rpo, internet, sensitivity}
          \cup {amount(a) : a \in Verifier!ToSet(Verifier!Amounts)}
    BY VerifierNames DEF Verifier!WorkloadStates, Verifier!AvailabilityMet
  <2> HIDE DEF amount, function, latency, availability, rto, rpo, internet, sensitivity
  <2> QED BY <2>1, <2>2
<1>2. function = AsState(FunctionCheck(w, p))
  BY DEF FunctionCheck, AsState, Check, Verifier!State
<1>3. internet = AsState(InternetCheck(w))
  <2>1. w.internet \in {"yes", "no", "unknown"}
    BY DEF WorkloadInputs
  <2> QED BY <2>1 DEF InternetCheck, AsState, Check, Verifier!State
<1>4. sensitivity = AsState(SensitivityCheck(w))
  BY DEF SensitivityCheck, AsState, Check, Verifier!State
<1>5. /\ latency = AsState(TargetCheck(w, p, 1)) /\ availability = AsState(TargetCheck(w, p, 2))
      /\ rto = AsState(TargetCheck(w, p, 3)) /\ rpo = AsState(TargetCheck(w, p, 4))
  BY TargetStates
<1>6. \A i \in 1..4 : amount(Amounts[i]) = AsState(AmountCheck(w, p, i))
  BY AmountState
<1>7. ToSet(WorkloadChecks(w, p)) =
        {FunctionCheck(w, p), InternetCheck(w), SensitivityCheck(w)}
        \cup {AmountCheck(w, p, i) : i \in 1..4} \cup {TargetCheck(w, p, i) : i \in 1..4}
  BY WorkloadChecksIs
<1> HIDE DEF amount, function, latency, availability, rto, rpo, internet, sensitivity
<1>8. {TargetCheck(w, p, i) : i \in 1..4} =
        {TargetCheck(w, p, 1), TargetCheck(w, p, 2), TargetCheck(w, p, 3), TargetCheck(w, p, 4)}
  <2>1. 1..4 = {1, 2, 3, 4}
    OBVIOUS
  <2> QED BY <2>1
<1>9. StatesOf(ToSet(WorkloadChecks(w, p))) =
        {AsState(FunctionCheck(w, p)), AsState(InternetCheck(w)), AsState(SensitivityCheck(w))}
        \cup {AsState(AmountCheck(w, p, i)) : i \in 1..4}
        \cup {AsState(TargetCheck(w, p, 1)), AsState(TargetCheck(w, p, 2)),
              AsState(TargetCheck(w, p, 3)), AsState(TargetCheck(w, p, 4))}
  BY <1>7, <1>8 DEF StatesOf
<1>10. {amount(Amounts[i]) : i \in 1..4} = {AsState(AmountCheck(w, p, i)) : i \in 1..4}
  BY <1>6
<1> QED BY <1>1, <1>2, <1>3, <1>4, <1>5, <1>9, <1>10

LEMMA PlanStates ==
  ASSUME NEW s \in ScenarioInputs, NEW o \in OptionInputs, NEW p \in CatalogPlans
  PROVE  LET date == o.date \in Catalog.priceDate..Catalog.validUntil
         IN  /\ AsState(PriceCheck(o.date)) = Verifier!State(<<"plan", "price_validity">>, ~date, TRUE)
             /\ AsState(RegionCheck(s)) = Verifier!State(<<"plan", "region">>, FALSE, s.region = "EU")
             /\ AsState(StaffCheck(s, p)) =
                  Verifier!State(<<"plan", "staff">>, s.staff = Unknown, p.staff <= s.staff)
<1>1. o.date \in Int /\ Catalog.priceDate \in Int /\ Catalog.validUntil \in Int
  BY OptionNumbers, CatalogAssumption
<1>2. (Catalog.priceDate <= o.date /\ o.date <= Catalog.validUntil)
        <=> o.date \in Catalog.priceDate..Catalog.validUntil
  BY <1>1
<1>3. AsState(PriceCheck(o.date)) =
        Verifier!State(<<"plan", "price_validity">>, ~(o.date \in Catalog.priceDate..Catalog.validUntil), TRUE)
  BY <1>2 DEF PriceCheck, AsState, Check, Verifier!State
<1>4. AsState(RegionCheck(s)) = Verifier!State(<<"plan", "region">>, FALSE, s.region = "EU")
  BY DEF RegionCheck, AsState, Check, Verifier!State
<1>5. s.staff \in Known /\ p.staff \in Nat
  BY DEF ScenarioInputs, CatalogPlans
<1>6. s.staff # Unknown => (s.staff >= p.staff <=> p.staff <= s.staff)
  BY <1>5 DEF Known
<1>7. AsState(StaffCheck(s, p)) =
        Verifier!State(<<"plan", "staff">>, s.staff = Unknown, p.staff <= s.staff)
  BY <1>6 DEF StaffCheck, AsState, Check, Verifier!State
<1> QED BY <1>3, <1>4, <1>7

LEMMA DemandsExact ==
  ASSUME NEW s \in ScenarioInputs, NEW p \in CatalogPlans, NEW date
  PROVE  LET D == Demands(s, p, date)
         IN  /\ D \in Seq(Rows) /\ Distinct(D)
             /\ ToSet(D) = {PriceCheck(date), RegionCheck(s), StaffCheck(s, p)}
                  \cup (UNION {ToSet(WorkloadChecks(s.workloads[i], p)) : i \in DOMAIN s.workloads})
             /\ \A r \in ToSet(D) : r.key[2] # "budget"
<1> DEFINE n == Len(s.workloads)
           a == [i \in DOMAIN s.workloads |-> WorkloadChecks(s.workloads[i], p)]
           A1 == <<PriceCheck(date), RegionCheck(s), StaffCheck(s, p)>>
           F == FlattenSeq(a)
<1>1. /\ n \in Nat /\ n # 0 /\ DOMAIN s.workloads = 1..n
      /\ \A i \in 1..n : s.workloads[i] \in WorkloadInputs
      /\ \A i, j \in 1..n : s.workloads[i].key = s.workloads[j].key => i = j
  BY DEF ScenarioInputs
<1>2. Demands(s, p, date) = A1 \o F
  BY DEF Demands
<1>3. a \in [1..n -> Seq(Rows)] /\ \A i \in 1..n : a[i] = WorkloadChecks(s.workloads[i], p)
  <2> HIDE DEF n
  <2> QED BY <1>1, WorkloadChecksIs
<1> HIDE DEF a, n
<1>4. a \in Seq(Seq(Rows)) /\ Len(a) = n
  BY <1>1, <1>3, AsSequence
<1>5. \A i \in 1..n : Distinct(a[i])
  BY <1>1, <1>3, WorkloadChecksIs
<1>6. ASSUME NEW i \in 1..n, NEW r \in ToSet(a[i])
      PROVE  r.key[1] = s.workloads[i].key /\ r.key[2] \notin {"price_validity", "region", "staff", "budget"}
  <2>1. a[i] = WorkloadChecks(s.workloads[i], p) /\ s.workloads[i] \in WorkloadInputs
    BY <1>1, <1>3
  <2>2. r \in ToSet(WorkloadChecks(s.workloads[i], p))
    BY <2>1
  <2> QED BY <2>1, <2>2, WorkloadChecksIs
<1>7. \A i, j \in 1..n : i # j => ToSet(a[i]) \cap ToSet(a[j]) = {}
  BY <1>1, <1>6
<1>8. F \in Seq(Rows) /\ Distinct(F) /\ ToSet(F) = Upto(a, n)
  BY <1>1, <1>4, <1>5, <1>7, FlattenDistinct
<1>9. /\ PriceCheck(date) \in Rows /\ RegionCheck(s) \in Rows /\ StaffCheck(s, p) \in Rows
  BY CheckType DEF PriceCheck, RegionCheck, StaffCheck, CheckNames
<1>10. /\ PriceCheck(date).key[2] = "price_validity" /\ RegionCheck(s).key[2] = "region"
       /\ StaffCheck(s, p).key[2] = "staff"
  BY DEF PriceCheck, RegionCheck, StaffCheck, Check
<1>11. A1 \in Seq(Rows) /\ Distinct(A1) /\ ToSet(A1) = {PriceCheck(date), RegionCheck(s), StaffCheck(s, p)}
  <2>1. /\ DOMAIN A1 = {1, 2, 3} /\ A1[1] = PriceCheck(date) /\ A1[2] = RegionCheck(s)
        /\ A1[3] = StaffCheck(s, p)
    OBVIOUS
  <2>2. A1 \in Seq(Rows)
    BY <1>9
  <2>3. /\ PriceCheck(date) # RegionCheck(s) /\ RegionCheck(s) # StaffCheck(s, p)
        /\ PriceCheck(date) # StaffCheck(s, p)
    BY <1>10
  <2> HIDE DEF A1
  <2> QED BY <2>1, <2>2, <2>3 DEF Distinct, ToSet
<1> HIDE DEF A1, F
<1>12. ToSet(A1) \cap ToSet(F) = {}
  <2>1. \A r \in ToSet(A1) : r.key[2] \in {"price_validity", "region", "staff"}
    BY <1>10, <1>11
  <2>2. \A r \in ToSet(F) : r.key[2] \notin {"price_validity", "region", "staff"}
    BY <1>6, <1>8 DEF Upto
  <2> QED BY <2>1, <2>2
<1>13. A1 \o F \in Seq(Rows) /\ ToSet(A1 \o F) = ToSet(A1) \cup ToSet(F) /\ Distinct(A1 \o F)
  BY <1>8, <1>11, <1>12, ConcatIs, ConcatDistinct
<1>14. Upto(a, n) = UNION {ToSet(WorkloadChecks(s.workloads[i], p)) : i \in DOMAIN s.workloads}
  BY <1>1, <1>3 DEF Upto
<1>15. \A r \in ToSet(A1) \cup ToSet(F) : r.key[2] # "budget"
  BY <1>6, <1>8, <1>10, <1>11 DEF Upto
<1> QED BY <1>2, <1>8, <1>11, <1>13, <1>14, <1>15

\* what a candidate's constraints say, for a set of states
RowsOf(states, source) == {[key |-> x[1], status |-> x[2], source |-> source] : x \in states}

(* The constraints of a candidate are the verifier's states, each once.    *)
Found(states) == {x[2] : x \in states}
StatusesOf(rows) == {rows[i].status : i \in DOMAIN rows}
SameBudget(costs, sums) ==
  /\ costs.complete = sums.complete
  /\ costs.startup = sums.startup /\ costs.monthly = sums.monthly

LEMMA ConstraintsExact ==
  ASSUME NEW s \in ScenarioInputs, NEW o \in OptionInputs, NEW p \in CatalogPlans,
         NEW costs, NEW sums, SameBudget(costs, sums)
  PROVE  LET C == Constraints(s, p, costs, o.date)
             states == Verifier!ExpectedStates(s, o, p, sums)
         IN  /\ Verifier!Exactly(C, RowsOf(states, p.key))
             /\ Found(states) = StatusesOf(C)
<1> DEFINE D == Demands(s, p, o.date)
           budget == BudgetCheck(s, costs)
           H == IF s.hard THEN <<budget>> ELSE <<>>
           K == D \o H
           C == Constraints(s, p, costs, o.date)
           states == Verifier!ExpectedStates(s, o, p, sums)
<1>1. /\ D \in Seq(Rows) /\ Distinct(D) /\ \A r \in ToSet(D) : r.key[2] # "budget"
      /\ ToSet(D) = {PriceCheck(o.date), RegionCheck(s), StaffCheck(s, p)}
           \cup (UNION {ToSet(WorkloadChecks(s.workloads[i], p)) : i \in DOMAIN s.workloads})
  BY DemandsExact
<1>2. budget \in Rows /\ budget.key[2] = "budget"
  <2>1. budget \in Rows
    BY CheckType DEF BudgetCheck, CheckNames
  <2> QED BY <2>1 DEF BudgetCheck, Check
<1>3. C = [i \in DOMAIN K |-> [key |-> K[i].key, status |-> K[i].status, source |-> p.key]]
  BY DEF Constraints, Demands, PriceCheck, RegionCheck, StaffCheck
<1> HIDE DEF D, budget
<1>4. H \in Seq(Rows) /\ Distinct(H) /\ ToSet(H) = IF s.hard THEN {budget} ELSE {}
  BY <1>2 DEF ToSet, Distinct
<1>5. ToSet(D) \cap ToSet(H) = {}
  BY <1>1, <1>2, <1>4
<1> HIDE DEF H
<1>6. K \in Seq(Rows) /\ ToSet(K) = ToSet(D) \cup ToSet(H) /\ Distinct(K)
  BY <1>1, <1>4, <1>5, ConcatIs, ConcatDistinct
<1>7. states = StatesOf(ToSet(D)) \cup StatesOf(ToSet(H))
  <2> DEFINE date == o.date \in Catalog.priceDate..Catalog.validUntil
             price == Verifier!State(<<"plan", "price_validity">>, ~date, TRUE)
             region == Verifier!State(<<"plan", "region">>, FALSE, s.region = "EU")
             staff == Verifier!State(<<"plan", "staff">>, s.staff = Unknown, p.staff <= s.staff)
             hard == Verifier!State(<<"plan", "budget">>,
                       ~sums.complete \/ s.initial = Unknown \/ s.monthly = Unknown,
                       sums.startup <= s.initial /\ sums.monthly <= s.monthly)
             rest == IF ~s.hard THEN {} ELSE {hard}
             loads == UNION {Verifier!WorkloadStates(w, p) : w \in Verifier!Workloads(s)}
  <2>1. states = {price, region, staff} \cup loads \cup rest
    BY VerifierNames DEF Verifier!ExpectedStates
  <2>2. price = AsState(PriceCheck(o.date)) /\ region = AsState(RegionCheck(s))
        /\ staff = AsState(StaffCheck(s, p))
    BY PlanStates
  <2>3. hard = AsState(budget)
    BY DEF budget, BudgetCheck, AsState, Check, Verifier!State, SameBudget
  <2>4. loads = UNION {StatesOf(ToSet(WorkloadChecks(s.workloads[i], p))) : i \in DOMAIN s.workloads}
    <3>1. \A i \in DOMAIN s.workloads : s.workloads[i] \in WorkloadInputs
      BY DEF ScenarioInputs
    <3>2. \A i \in DOMAIN s.workloads :
            Verifier!WorkloadStates(s.workloads[i], p) = StatesOf(ToSet(WorkloadChecks(s.workloads[i], p)))
      BY <3>1, WorkloadStatesIs
    <3> QED BY <3>2 DEF Verifier!Workloads, Verifier!ToSet
  <2> HIDE DEF price, region, staff, hard, loads
  <2>5. StatesOf(ToSet(D)) = {price, region, staff} \cup loads
    BY <1>1, <2>2, <2>4 DEF StatesOf
  <2>6. StatesOf(ToSet(H)) = rest
    BY <1>4, <2>3 DEF StatesOf
  <2> HIDE DEF rest
  <2> QED BY <2>1, <2>5, <2>6
<1>8. states = StatesOf(ToSet(K))
  BY <1>6, <1>7 DEF StatesOf
<1> HIDE DEF K, C, states
<1>9. states = {AsState(r) : r \in ToSet(K)} /\ \A r : AsState(r)[1] = r.key /\ AsState(r)[2] = r.status
  BY <1>8 DEF StatesOf, AsState
<1>10. ToSet(C) = RowsOf(states, p.key)
  <2>1. ToSet(C) = {[key |-> r.key, status |-> r.status, source |-> p.key] : r \in ToSet(K)}
    BY <1>3 DEF ToSet
  <2>2. RowsOf(states, p.key) =
          {[key |-> AsState(r)[1], status |-> AsState(r)[2], source |-> p.key] : r \in ToSet(K)}
    BY <1>9 DEF RowsOf
  <2> QED BY <1>9, <2>1, <2>2
<1> DEFINE R == [key : (STRING \cup {"plan"}) \X CheckNames, status : {"PASS", "FAIL", "UNKNOWN"},
                 source : {p.key}]
<1>11. Distinct(C) /\ C \in Seq(R)
  <2>1. \A i \in DOMAIN K : K[i] \in Rows
    BY <1>6
  <2>2. \A i \in DOMAIN K : K[i] = [key |-> K[i].key, status |-> K[i].status] /\ C[i] \in R
    BY <1>3, <2>1 DEF Rows
  <2>3. \A i \in DOMAIN K : C[i].key = K[i].key /\ C[i].status = K[i].status
    BY <1>3
  <2>4. \A i, j \in DOMAIN K : C[i] = C[j] => K[i] = K[j]
    BY <2>2, <2>3
  <2>5. DOMAIN C = DOMAIN K /\ DOMAIN K = 1..Len(K) /\ Len(K) \in Nat
    BY <1>3, <1>6
  <2>6. Distinct(C)
    BY <1>6, <2>4, <2>5 DEF Distinct
  <2>7. C \in [1..Len(K) -> R]
    <3> HIDE DEF R
    <3> QED BY <1>3, <2>2, <2>5
  <2> HIDE DEF R
  <2> QED BY <2>5, <2>6, <2>7, AsSequence
<1>12. Verifier!Exactly(C, ToSet(C))
  <2> HIDE DEF R
  <2> QED BY <1>11, DistinctCounts
<1>13. Found(states) = StatusesOf(C)
  <2>1. {C[i].status : i \in DOMAIN C} = {r.status : r \in ToSet(K)}
    BY <1>3 DEF ToSet
  <2>2. {x[2] : x \in states} = {r.status : r \in ToSet(K)}
    BY <1>9
  <2> QED BY <2>1, <2>2 DEF Found, StatusesOf
<1> QED BY <1>10, <1>12, <1>13 DEF C, states
-------------------------------------------------------------------------------
(* Fractions added up.                                                     *)

(* Of the subsets for which something is wrong, one has none below it.     *)
LEMMA LeastSubset ==
  ASSUME NEW S, IsFiniteSet(S), NEW Bad \in SUBSET SUBSET S, Bad # {}
  PROVE  \E s \in Bad : \A t \in SUBSET s : t # s => t \notin Bad
<1>1. PICK s \in Bad : \A t \in Bad : <<t, s>> \notin StrictSubsetOrdering(S)
  BY SubsetsWellFounded, WFMin
<1>2. \A t \in Bad : t \in SUBSET S /\ s \in SUBSET S
  OBVIOUS
<1>3. \A t \in SUBSET s : t # s => t \notin Bad
  BY <1>1, <1>2 DEF StrictSubsetOrdering
<1> QED BY <1>3

LEMMA TimesGrows2 ==
  ASSUME NEW a \in Nat, NEW b \in Nat, a <= b, NEW c \in Nat
  PROVE  c * a <= c * b
<1>1. c * (b - a) \in Nat
  BY TimesType
<1> QED BY <1>1

LEMMA RoundedWhole ==
  ASSUME NEW k \in Nat, NEW d \in Nat \ {0}
  PROVE  Rounded(k * d, d) = k
<1>1. /\ 2 * (k * d) + d \in Nat /\ 2 * d \in Nat \ {0} /\ d < 2 * d /\ d \in Nat
      /\ 2 * (k * d) + d = (2 * d) * k + d
  BY TimesType
<1>2. (2 * (k * d) + d) \div (2 * d) = k
  BY <1>1, QuotientIs
<1> QED BY <1>2 DEF Rounded

(* The cap on points is never needed.                                      *)
LEMMA PointsAre ==
  ASSUME NEW n \in Nat, NEW d \in Nat \ {0}, n <= 100 * d
  PROVE  Points(<<n, d>>) = Verifier!Cents(PointScale * n, d)
<1>1. PointScale \in Nat /\ 100 * d \in Nat
  BY ScaleAssumption
<1>2. PointScale * n \in Nat /\ PointScale * (100 * d) \in Nat /\ 100 * PointScale \in Nat
  BY <1>1, TimesType
<1>3. PointScale * n <= PointScale * (100 * d)
  BY <1>1, TimesGrows2
<1>4. PointScale * (100 * d) = (100 * PointScale) * d
  BY <1>1
<1>5. Rounded((100 * PointScale) * d, d) = 100 * PointScale
  BY <1>2, RoundedWhole
<1>6. Rounded(PointScale * n, d) <= 100 * PointScale
  BY <1>2, <1>3, <1>4, <1>5, RoundedGrows
<1>7. Rounded(PointScale * n, d) = Verifier!Cents(PointScale * n, d) /\ Rounded(PointScale * n, d) \in Nat
  BY <1>2, RoundedIsCents, RoundedType
<1> DEFINE r == Rounded(PointScale * n, d)
<1>8. Points(<<n, d>>) = IF r > 100 * PointScale THEN 100 * PointScale ELSE r
  BY DEF Points
<1> HIDE DEF r
<1>9. Points(<<n, d>>) = r
  BY <1>2, <1>6, <1>7, <1>8 DEF r
<1> QED BY <1>7, <1>9 DEF r
-------------------------------------------------------------------------------
(* A mean of fractions, and a sum over the common product of the           *)
(* denominators.                                                           *)

LEMMA Swapped ==
  ASSUME NEW a \in Nat, NEW b \in Nat, NEW c \in Nat
  PROVE  a * (b * c) = b * (a * c)
OBVIOUS

Multiplies(S, c, k) ==
  /\ c \in [S -> Nat \ {0}] /\ k \in [SUBSET S -> Nat \ {0}]
  /\ IsProductOf(c, S, k)
Adds(S, f, m) == f \in [S -> Fractions] /\ m \in [SUBSET S -> Fractions] /\ IsSumOf(f, S, m)
Over(S, f, c) == \A i \in S : f[i][2] = c[i]

Divides(d, x) == \E q \in Nat : x = d * q

(* Every factor divides the product.                                       *)
LEMMA FactorDivides ==
  ASSUME NEW S, IsFiniteSet(S), NEW c, NEW k, Multiplies(S, c, k), NEW i \in S
  PROVE  Divides(c[i], k[S])
<1> USE DEF Multiplies, Divides
<1> DEFINE Bad == {s \in SUBSET S : i \in s /\ ~Divides(c[i], k[s])}
<1>1. SUFFICES ASSUME Bad # {} PROVE FALSE
  <2>1. S \in SUBSET S
    OBVIOUS
  <2> QED BY <1>1, <2>1
<1>2. PICK s \in Bad : \A t \in SUBSET s : t # s => t \notin Bad
  <2>1. Bad \in SUBSET SUBSET S
    OBVIOUS
  <2> HIDE DEF Bad
  <2> QED BY <1>1, <2>1, LeastSubset
<1> DEFINE j == Pick(s)
           t == s \ {j}
<1>3. s \in SUBSET S /\ i \in s /\ j \in s /\ t \in SUBSET S /\ t # s /\ t \in SUBSET s
  BY DEF Pick
<1>4. k[s] = c[j] * k[t] /\ c[j] \in Nat /\ k[t] \in Nat /\ c[i] \in Nat
  BY <1>3 DEF IsProductOf
<1> HIDE DEF j, t
<1>5. CASE i = j
  BY <1>2, <1>4, <1>5
<1>6. CASE i # j
  <2>1. i \in t
    BY <1>3, <1>6 DEF t
  <2>2. PICK q \in Nat : k[t] = c[i] * q
    BY <1>2, <1>3, <2>1
  <2>3. c[j] * q \in Nat
    BY <1>4, TimesType
  <2>4. k[s] = c[i] * (c[j] * q)
    BY <1>4, <2>2, Swapped
  <2> QED BY <1>2, <2>3, <2>4
<1> QED BY <1>5, <1>6

(* The denominators are multiplied.                                        *)
LEMMA DenominatorIs ==
  ASSUME NEW S, IsFiniteSet(S), NEW c, NEW k, Multiplies(S, c, k), NEW f, Over(S, f, c),
         NEW m, Adds(S, f, m), NEW s \in SUBSET S
  PROVE  m[s][2] = k[s]
<1> USE DEF Multiplies, Over, Adds
<1> DEFINE Bad == {r \in SUBSET S : m[r][2] # k[r]}
<1>1. SUFFICES ASSUME Bad # {} PROVE FALSE
  BY <1>1
<1>2. PICK r \in Bad : \A t \in SUBSET r : t # r => t \notin Bad
  <2>1. Bad \in SUBSET SUBSET S
    OBVIOUS
  <2> HIDE DEF Bad
  <2> QED BY <1>1, <2>1, LeastSubset
<1>3. r # {}
  BY DEF IsSumOf, IsProductOf
<1> DEFINE j == Pick(r)
           t == r \ {j}
<1>4. r \in SUBSET S /\ j \in r /\ t \in SUBSET S /\ t # r /\ t \in SUBSET r
  BY <1>3 DEF Pick
<1>5. k[r] = c[j] * k[t] /\ m[r] = Plus(f[j], m[t]) /\ f[j][2] = c[j]
  BY <1>3, <1>4 DEF IsSumOf, IsProductOf
<1>6. m[t][2] = k[t]
  <2> HIDE DEF t
  <2> QED BY <1>2, <1>4
<1>7. m[r][2] = f[j][2] * m[t][2]
  BY <1>5 DEF Plus
<1> QED BY <1>5, <1>6, <1>7

Scaled(S, f, c, all, q, points) ==
  /\ all \in Nat /\ q \in [S -> Nat] /\ points \in [S -> Nat]
  /\ \A i \in S : all = c[i] * q[i] /\ points[i] = f[i][1] * q[i]

(* Brought to the common denominator, the numerators add up.               *)
LEMMA NumeratorIs ==
  ASSUME NEW S, IsFiniteSet(S), NEW c, NEW k, Multiplies(S, c, k), NEW f, Over(S, f, c),
         NEW m, Adds(S, f, m), NEW all, NEW q, NEW points, Scaled(S, f, c, all, q, points),
         NEW s \in SUBSET S
  PROVE  m[s][1] * all = k[s] * Cardinality(Units(points, s))
<1> USE DEF Multiplies, Over, Adds, Scaled
<1> DEFINE U(r) == Cardinality(Units(points, r))
           Bad == {r \in SUBSET S : m[r][1] * all # k[r] * U(r)}
<1>1. SUFFICES ASSUME Bad # {} PROVE FALSE
  BY <1>1
<1>2. PICK r \in Bad : \A t \in SUBSET r : t # r => t \notin Bad
  <2>1. Bad \in SUBSET SUBSET S
    OBVIOUS
  <2> HIDE DEF Bad
  <2> QED BY <1>1, <2>1, LeastSubset
<1>3. r # {}
  <2>1. Units(points, {}) = {}
    BY DEF Units
  <2>2. U({}) = 0
    BY <2>1, FS_EmptySet
  <2>3. m[{}][1] = 0 /\ k[{}] = 1
    BY DEF IsSumOf, IsProductOf
  <2>4. {} \notin Bad
    BY <2>2, <2>3
  <2> QED BY <2>4
<1> DEFINE j == Pick(r)
           t == r \ {j}
<1>4. r \in SUBSET S /\ j \in r /\ j \in S /\ t \in SUBSET S /\ t # r /\ t \in SUBSET r
  BY <1>3 DEF Pick
<1>5. k[r] = c[j] * k[t] /\ m[r] = Plus(f[j], m[t]) /\ f[j][2] = c[j]
  BY <1>3, <1>4 DEF IsSumOf, IsProductOf
<1>6. m[t][2] = k[t]
  <2>1. t \in SUBSET S
    BY <1>4
  <2> HIDE DEF t, Multiplies, Over, Adds
  <2> QED BY <2>1, DenominatorIs
<1>7. /\ f[j] \in Fractions /\ m[t] \in Fractions /\ c[j] \in Nat /\ k[t] \in Nat /\ q[j] \in Nat
      /\ all = c[j] * q[j] /\ points[j] = f[j][1] * q[j]
  BY <1>4
<1>8. f[j][1] \in Nat /\ m[t][1] \in Nat
  BY <1>7 DEF Fractions
<1>9. U(r) = points[j] + U(t) /\ U(t) \in Nat
  BY <1>4, UnitsSplit, UnitsFinite
<1>10. m[t][1] * all = k[t] * U(t)
  <2> HIDE DEF t, U
  <2> QED BY <1>2, <1>4
<1>11. m[r][1] = f[j][1] * m[t][2] + m[t][1] * f[j][2]
  BY <1>5 DEF Plus
<1> HIDE DEF U, j, t
<1>12. (f[j][1] * k[t] + m[t][1] * c[j]) * (c[j] * q[j]) = (c[j] * k[t]) * (f[j][1] * q[j] + U(t))
  <2>1. m[t][1] * (c[j] * q[j]) = k[t] * U(t)
    BY <1>7, <1>10
  <2> DEFINE a == f[j][1]
             b == k[t]
             d == c[j]
             p == q[j]
             u == U(t)
             n == m[t][1]
  <2>2. /\ a \in Nat /\ b \in Nat /\ d \in Nat /\ p \in Nat /\ u \in Nat /\ n \in Nat
        /\ n * (d * p) = b * u
    BY <1>7, <1>8, <1>9, <2>1
  <2> HIDE DEF a, b, d, p, u, n
  <2>3. (a * b + n * d) * (d * p) = (a * b) * (d * p) + d * (n * (d * p))
    BY <2>2, Z3
  <2>4. (d * b) * (a * p + u) = (a * b) * (d * p) + d * (b * u)
    BY <2>2, Z3
  <2>5. (a * b + n * d) * (d * p) = (d * b) * (a * p + u)
    BY <2>2, <2>3, <2>4
  <2> QED BY <2>5 DEF a, b, d, p, u, n
<1>13. m[r][1] * all = k[r] * U(r)
  BY <1>5, <1>6, <1>7, <1>9, <1>11, <1>12
<1> QED BY <1>13 DEF Bad

LEMMA Cancel ==
  ASSUME NEW a \in Nat, NEW b \in Nat, NEW d \in Nat \ {0}, a * d = d * b
  PROVE  a = b
OBVIOUS

Common(n, c, f, all, points) ==
  /\ c \in [1..n -> Nat \ {0}] /\ f \in [1..n -> Fractions]
  /\ \A i \in 1..n : f[i][2] = c[i] /\ f[i][1] <= 100 * c[i]
  /\ all = Verifier!Product(c)
  /\ points = [i \in 1..n |-> f[i][1] * (all \div c[i])]

(* The mean over the product of the denominators: the verifier's formula.  *)
LEMMA MeanIsSum ==
  ASSUME NEW n \in Nat \ {0}, NEW c, NEW f, NEW all, NEW points, Common(n, c, f, all, points)
  PROVE  LET sum == Verifier!SumFunction(points)
         IN  /\ all \in Nat \ {0} /\ sum \in Nat
             /\ Mean(f) = <<sum, all * n>> /\ sum <= 100 * (all * n)
<1> USE DEF Common
<1> DEFINE S == 1..n
           sum == Cardinality(Units(points, S))
<1>1. IsFiniteSet(S) /\ Cardinality(S) = n /\ S \in SUBSET S
  BY Interval
<1>2. c \in [S -> Nat \ {0}] /\ f \in [S -> Fractions]
  OBVIOUS
<1>3. PICK m \in [SUBSET S -> Fractions] : IsSumOf(f, S, m) /\ Mean(f) = <<m[S][1], m[S][2] * n>>
  BY MeanIs
<1> HIDE DEF S
<1>4. PICK k : Multiplies(S, c, k) /\ all = k[S]
  <2>1. \E k \in [SUBSET S -> Nat \ {0}] : IsProductOf(c, S, k) /\ Verifier!Product(c) = k[S]
    BY <1>1, <1>2, ProductIs, Zenon
  <2> QED BY <1>2, <2>1 DEF Multiplies
<1> DEFINE q == [i \in S |-> all \div c[i]]
<1>5. all \in Nat \ {0}
  BY <1>1, <1>4 DEF Multiplies
<1>6. ASSUME NEW i \in S
      PROVE  /\ q[i] \in Nat /\ all = c[i] * q[i] /\ f[i][1] \in Nat /\ points[i] = f[i][1] * q[i]
             /\ points[i] \in Nat /\ points[i] <= 100 * all
  <2>1. c[i] \in Nat \ {0} /\ f[i] \in Fractions /\ f[i][1] <= 100 * c[i]
    BY <1>2, <1>6 DEF S
  <2>2. PICK p \in Nat : all = c[i] * p
    <3>1. Divides(c[i], k[S])
      BY <1>1, <1>4, <1>6, FactorDivides
    <3> QED BY <1>4, <3>1 DEF Divides
  <2>3. q[i] = p
    BY <2>1, <2>2, Multiple
  <2>4. f[i][1] \in Nat /\ 100 * c[i] \in Nat
    BY <2>1 DEF Fractions
  <2>5. p * f[i][1] <= p * (100 * c[i]) /\ f[i][1] * p \in Nat
    BY <2>1, <2>4, TimesGrows2, TimesType
  <2>6. p * (100 * c[i]) = 100 * (c[i] * p) /\ p * f[i][1] = f[i][1] * p
    BY <2>1, <2>4
  <2>7. points[i] = f[i][1] * q[i]
    BY <1>6 DEF S
  <2> QED BY <2>2, <2>3, <2>4, <2>5, <2>6, <2>7
<1>7. points = [i \in S |-> points[i]]
  BY DEF S
<1>8. q \in [S -> Nat] /\ points \in [S -> Nat]
  BY <1>6, <1>7
<1> HIDE DEF q
<1>15. Over(S, f, c) /\ Adds(S, f, m)
  BY <1>2, <1>3 DEF Over, Adds, S
<1>9. m[S][2] = all
  BY <1>1, <1>4, <1>15, DenominatorIs
<1>10. m[S][1] * all = all * sum /\ sum \in Nat
  <2>1. Scaled(S, f, c, all, q, points)
    BY <1>5, <1>6, <1>8 DEF Scaled
  <2> HIDE DEF sum
  <2>2. m[S][1] * all = k[S] * Cardinality(Units(points, S))
    BY <1>1, <1>4, <1>15, <2>1, NumeratorIs
  <2>3. Cardinality(Units(points, S)) \in Nat
    BY <1>1, <1>8, UnitsFinite
  <2> QED BY <1>4, <2>2, <2>3 DEF sum
<1>11. m[S][1] = sum
  <2>1. m[S] \in Fractions
    BY <1>1
  <2>2. m[S][1] \in Nat
    BY <2>1 DEF Fractions
  <2> HIDE DEF sum
  <2> QED BY <1>5, <1>10, <2>2, Cancel
<1>12. Verifier!SumFunction(points) = sum
  BY <1>1, <1>8, SumCounts
<1>13. sum <= 100 * (all * n)
  <2> DEFINE top == [i \in S |-> 100 * all]
  <2>1. 100 * all \in Nat
    BY <1>5
  <2>2. top \in [S -> Nat] /\ \A i \in S : points[i] <= top[i]
    BY <1>6, <2>1
  <2>3. Cardinality(Units(points, S)) <= Cardinality(Units(top, S))
    <3> HIDE DEF top
    <3> QED BY <1>1, <1>8, <2>2, UnitsGrow
  <2>4. Units(top, S) = S \X (1..(100 * all))
    BY DEF Units
  <2>5. IsFiniteSet(1..(100 * all)) /\ Cardinality(1..(100 * all)) = 100 * all
    BY <2>1, Interval
  <2>6. Cardinality(S \X (1..(100 * all))) = n * (100 * all)
    <3> DEFINE T == 1..(100 * all)
    <3> HIDE DEF T
    <3>1. IsFiniteSet(T) /\ Cardinality(T) = 100 * all
      BY <2>5 DEF T
    <3>2. Cardinality(S \X T) = Cardinality(S) * Cardinality(T)
      BY <1>1, <3>1, FS_Product
    <3> QED BY <1>1, <3>1, <3>2 DEF T
  <2>7. n * (100 * all) = 100 * (all * n)
    BY <1>5
  <2> QED BY <2>3, <2>4, <2>6, <2>7
<1> HIDE DEF sum
<1> QED BY <1>3, <1>5, <1>9, <1>10, <1>11, <1>12, <1>13
-------------------------------------------------------------------------------
(* The engine's criteria are the verifier's.                               *)

LEMMA CutOff ==
  ASSUME NEW a \in Nat, NEW d \in Nat
  PROVE  LET x == AtLeastZero(100 * d - 50 * a)
         IN  x = Verifier!Larger(0, 100 * d - a * 50) /\ x \in Nat /\ x <= 100 * d
BY DEF AtLeastZero, Verifier!Larger

LEMMA MeanPointsSame ==
  ASSUME NEW n \in Nat \ {0}, NEW c \in [1..n -> Nat \ {0}], NEW actual \in Nat
  PROVE  MeanPoints(c, actual) = Verifier!MeanPoints(actual, c)
<1> DEFINE f == [i \in DOMAIN c |-> Anchored(actual, c[i])]
           all == Verifier!Product(c)
           points == [i \in 1..n |-> f[i][1] * (all \div c[i])]
           sum == Verifier!SumFunction(points)
<1>1. DOMAIN c = 1..n /\ Len(c) = n
  OBVIOUS
<1>2. f \in [1..n -> Fractions]
  BY <1>1, AnchoredType
<1>3. \A i \in 1..n : f[i] = <<AtLeastZero(100 * c[i] - 50 * actual), c[i]>>
  BY <1>1 DEF Anchored
<1>4. \A i \in 1..n : /\ f[i][2] = c[i] /\ f[i][1] <= 100 * c[i]
                      /\ f[i][1] = Verifier!Larger(0, 100 * c[i] - actual * 50)
  <2>1. ASSUME NEW i \in 1..n
        PROVE  /\ f[i][2] = c[i] /\ f[i][1] <= 100 * c[i]
               /\ f[i][1] = Verifier!Larger(0, 100 * c[i] - actual * 50)
    <3>1. c[i] \in Nat
      OBVIOUS
    <3> DEFINE x == AtLeastZero(100 * c[i] - 50 * actual)
    <3>2. x = Verifier!Larger(0, 100 * c[i] - actual * 50) /\ x <= 100 * c[i]
      BY <3>1, CutOff
    <3> HIDE DEF f, x
    <3>3. f[i] = <<x, c[i]>>
      BY <1>3 DEF x
    <3> QED BY <3>2, <3>3
  <2> QED BY <2>1
<1> HIDE DEF f
<1>5. all \in Nat \ {0} /\ sum \in Nat /\ Mean(f) = <<sum, all * n>> /\ sum <= 100 * (all * n)
  <2>1. Common(n, c, f, all, points)
    BY <1>2, <1>4 DEF Common
  <2> HIDE DEF all, points
  <2> QED BY <2>1, MeanIsSum
<1>6. points = [i \in DOMAIN c |-> Verifier!Larger(0, 100 * c[i] - actual * 50) * (all \div c[i])]
  BY <1>1, <1>4
<1>7. MeanPoints(c, actual) = Points(<<sum, all * n>>)
  BY <1>5 DEF MeanPoints, f
<1>8. Verifier!Unknown \notin Verifier!ToSet(c)
  BY DEF Verifier!Unknown, Verifier!ToSet
<1>9. Verifier!MeanPoints(actual, c) = Verifier!Cents(PointScale * sum, all * n)
  BY <1>1, <1>6, <1>8 DEF Verifier!MeanPoints
<1> HIDE DEF all, points, sum
<1>10. all * n \in Nat \ {0}
  BY <1>5, PositiveProduct
<1>11. Points(<<sum, all * n>>) = Verifier!Cents(PointScale * sum, all * n)
  BY <1>5, <1>10, PointsAre
<1> QED BY <1>7, <1>9, <1>11

ExpectedOf(s, o, p, sums, k) ==
  LET latency == ColumnOf(s, "max_latency_ms")
      rto == ColumnOf(s, "rto_seconds")
      budget == IF Unknown \in {s.initial, s.monthly} THEN Unknown
                ELSE s.initial + o.horizon * s.monthly
      people == s.staff + QuantityScale
  IN  /\ k = [g \in GroupSet |-> k[g]]
      /\ k["cost"] = IF budget = Unknown \/ sums.tco = Unknown THEN Unknown
                     ELSE IF budget > 0
                          THEN Verifier!Cents(PointScale * Verifier!Larger(0, 100 * budget - sums.tco * 50),
                                              budget)
                     ELSE IF sums.tco = 0 THEN PointScale * 100 ELSE 0
      /\ k["performance"] = Verifier!MeanPoints(p.latency, latency)
      /\ k["resilience"] =
           IF Unknown \in Verifier!ToSet(rto) THEN Unknown
           ELSE Verifier!MeanPoints(p.rto, [i \in DOMAIN rto |-> Verifier!Larger(1, rto[i])])
      /\ k["operations"] =
           IF s.staff = Unknown THEN Unknown
           ELSE Verifier!Cents(PointScale * 100 * Verifier!Larger(0, people - p.staff), people)
      /\ k["governance"] = PointScale * Verifier!Smaller(100, p.governance)

LEMMA ExpectedCriteriaParts ==
  ASSUME NEW s, NEW o, NEW p, NEW sums
  PROVE  ExpectedOf(s, o, p, sums, Verifier!ExpectedCriteria(s, o, p, sums))
<1> DEFINE k == Verifier!ExpectedCriteria(s, o, p, sums)
           budget == IF Unknown \in {s.initial, s.monthly} THEN Unknown
                     ELSE s.initial + o.horizon * s.monthly
           people == s.staff + QuantityScale
           rto == ColumnOf(s, "rto_seconds")
<1> USE VerifierNames, GroupsFinite
<1>1. k = [g \in GroupSet |-> k[g]]
  BY DEF Verifier!ExpectedCriteria
<1>2. k["cost"] = IF budget = Unknown \/ sums.tco = Unknown THEN Unknown
                  ELSE IF budget > 0
                       THEN Verifier!Cents(PointScale * Verifier!Larger(0, 100 * budget - sums.tco * 50), budget)
                  ELSE IF sums.tco = 0 THEN PointScale * 100 ELSE 0
  BY DEF Verifier!ExpectedCriteria
<1>3. k["performance"] = Verifier!MeanPoints(p.latency, ColumnOf(s, "max_latency_ms"))
  BY DEF Verifier!ExpectedCriteria, ColumnOf
<1>4. k["resilience"] =
        IF Unknown \in Verifier!ToSet(rto) THEN Unknown
        ELSE Verifier!MeanPoints(p.rto, [i \in DOMAIN rto |-> Verifier!Larger(1, rto[i])])
  BY DEF Verifier!ExpectedCriteria, ColumnOf
<1>5. k["operations"] = IF s.staff = Unknown THEN Unknown
                        ELSE Verifier!Cents(PointScale * 100 * Verifier!Larger(0, people - p.staff), people)
  BY DEF Verifier!ExpectedCriteria
<1>6. k["governance"] = PointScale * Verifier!Smaller(100, p.governance)
  BY DEF Verifier!ExpectedCriteria
<1> HIDE DEF k
<1>7. ExpectedOf(s, o, p, sums, k)
  BY <1>1, <1>2, <1>3, <1>4, <1>5, <1>6 DEF ExpectedOf
<1> QED BY <1>7 DEF k

LEMMA MissingIs ==
  ASSUME NEW c PROVE Missing(c) <=> Unknown \in Verifier!ToSet(c)
BY DEF Missing, Verifier!ToSet

LEMMA CostPointsSame ==
  ASSUME NEW s \in ScenarioInputs, NEW h \in Nat \ {0}, NEW costs, costs.tco \in Known, NEW budget,
         budget = IF Unknown \in {s.initial, s.monthly} THEN Unknown ELSE s.initial + h * s.monthly
  PROVE  CostPoints(s, costs, h) =
           IF budget = Unknown \/ costs.tco = Unknown THEN Unknown
           ELSE IF budget > 0
                THEN Verifier!Cents(PointScale * Verifier!Larger(0, 100 * budget - costs.tco * 50), budget)
           ELSE IF costs.tco = 0 THEN PointScale * 100 ELSE 0
<1>1. s.initial \in Known /\ s.monthly \in Known
  BY DEF ScenarioInputs
<1>2. CASE Unknown \in {s.initial, s.monthly, costs.tco}
  BY <1>2 DEF CostPoints
<1>3. CASE Unknown \notin {s.initial, s.monthly, costs.tco}
  <2>1. s.initial \in Nat /\ s.monthly \in Nat /\ costs.tco \in Nat
    BY <1>1, <1>3 DEF Known
  <2>2. h * s.monthly \in Nat /\ s.monthly * h = h * s.monthly
    BY <2>1, TimesType
  <2>3. budget = s.initial + s.monthly * h /\ budget \in Nat
    BY <1>3, <2>1, <2>2
  <2>4. budget # Unknown /\ (budget = 0 <=> ~(budget > 0))
    BY <2>3 DEF Unknown
  <2>5. CostPoints(s, costs, h) =
          IF budget = 0 THEN IF costs.tco = 0 THEN 100 * PointScale ELSE 0
          ELSE Points(Anchored(costs.tco, budget))
    BY <1>3, <2>3 DEF CostPoints
  <2>6. 100 * PointScale = PointScale * 100
    BY ScaleAssumption
  <2>7. ASSUME budget > 0
        PROVE  Points(Anchored(costs.tco, budget)) =
                 Verifier!Cents(PointScale * Verifier!Larger(0, 100 * budget - costs.tco * 50), budget)
    <3> DEFINE n == AtLeastZero(100 * budget - 50 * costs.tco)
    <3>1. n = Verifier!Larger(0, 100 * budget - costs.tco * 50) /\ n \in Nat /\ n <= 100 * budget
      BY <2>1, <2>3, CutOff
    <3>2. Anchored(costs.tco, budget) = <<n, budget>>
      BY DEF Anchored
    <3> HIDE DEF n
    <3>3. budget \in Nat \ {0}
      BY <2>3, <2>7
    <3>4. Points(<<n, budget>>) = Verifier!Cents(PointScale * n, budget)
      BY <3>1, <3>3, PointsAre
    <3> QED BY <3>1, <3>2, <3>4
  <2> QED BY <1>3, <2>4, <2>5, <2>6, <2>7
<1> QED BY <1>2, <1>3

LEMMA StaffPointsSame ==
  ASSUME NEW staff \in Nat, NEW p \in CatalogPlans, NEW people, people = staff + QuantityScale
  PROVE  StaffPoints(staff, p) =
           Verifier!Cents(PointScale * 100 * Verifier!Larger(0, people - p.staff), people)
<1> DEFINE n == AtLeastZero(100 * (people - p.staff))
           x == Verifier!Larger(0, people - p.staff)
<1>1. people \in Nat \ {0} /\ p.staff \in Nat /\ PointScale \in Nat
  BY ScaleAssumption DEF CatalogPlans
<1>2. n = 100 * x /\ n \in Nat /\ n <= 100 * people /\ x \in Nat
  BY <1>1 DEF AtLeastZero, Verifier!Larger
<1>3. StaffPoints(staff, p) = Points(<<n, people>>)
  BY <1>1, ScaleAssumption DEF StaffPoints
<1> HIDE DEF n, x
<1>4. Points(<<n, people>>) = Verifier!Cents(PointScale * n, people)
  BY <1>1, <1>2, PointsAre
<1>5. PointScale * n = PointScale * 100 * x
  BY <1>1, <1>2
<1> QED BY <1>3, <1>4, <1>5 DEF x

(* The engine's criteria are the verifier's.                               *)
(* A whole number of points needs no rounding, and neither side gives more *)
(* than 100.                                                               *)
LEMMA WholePoints ==
  ASSUME NEW n \in Nat
  PROVE  Points(<<n, 1>>) = PointScale * Verifier!Smaller(100, n)
<1> DEFINE p == PointScale * n
<1>1. p \in Nat /\ PointScale \in Nat \ {0} /\ 100 * PointScale \in Nat
  BY ScaleAssumption, TimesType
<1>2. Points(<<n, 1>>) = IF Rounded(p, 1) > 100 * PointScale THEN 100 * PointScale ELSE Rounded(p, 1)
  BY DEF Points
<1>3. n > 100 => PointScale * 100 < p
  BY ScaleAssumption
<1>4. n <= 100 => p <= PointScale * 100
  BY ScaleAssumption
<1>5. PointScale * 100 = 100 * PointScale
  BY <1>1
<1> HIDE DEF p
<1>6. Rounded(p, 1) = p
  BY <1>1 DEF Rounded
<1>7. CASE n > 100
  BY <1>1, <1>2, <1>3, <1>5, <1>6, <1>7 DEF Verifier!Smaller
<1>8. CASE n <= 100
  BY <1>1, <1>2, <1>4, <1>5, <1>6, <1>8 DEF Verifier!Smaller, p
<1> QED BY <1>7, <1>8

LEMMA CriteriaExact ==
  ASSUME NEW s \in ScenarioInputs, NEW o \in OptionInputs, NEW p \in CatalogPlans,
         NEW costs, NEW sums, costs.tco = sums.tco, costs.tco \in Known
  PROVE  Criteria(s, p, costs, o.horizon) = Verifier!ExpectedCriteria(s, o, p, sums)
<1> DEFINE k == Criteria(s, p, costs, o.horizon)
           e == Verifier!ExpectedCriteria(s, o, p, sums)
           n == Len(s.workloads)
           latency == ColumnOf(s, "max_latency_ms")
           rto == ColumnOf(s, "rto_seconds")
<1>1. n \in Nat \ {0} /\ DOMAIN s.workloads = 1..n /\ \A i \in 1..n : s.workloads[i] \in WorkloadInputs
  BY DEF ScenarioInputs
<1>2. /\ latency \in [1..n -> Positive] /\ rto \in [1..n -> Known]
      /\ s.staff \in Known /\ o.horizon \in Nat \ {0}
      /\ p.latency \in Nat /\ p.rto \in Nat /\ p.governance \in Nat
  <2>1. \A w \in WorkloadInputs : w.max_latency_ms \in Positive /\ w.rto_seconds \in Known
    BY DEF WorkloadInputs
  <2>2. ColumnOf(s, "max_latency_ms") \in [1..n -> Positive] /\ ColumnOf(s, "rto_seconds") \in [1..n -> Known]
    BY <1>1, <2>1 DEF ColumnOf
  <2> QED BY <2>2 DEF ScenarioInputs, OptionInputs, CatalogPlans
<1> HIDE DEF n, latency, rto
<1>20. ExpectedOf(s, o, p, sums, e)
  BY ExpectedCriteriaParts
<1> HIDE DEF e
<1>3. k["cost"] = e["cost"]
  <2> DEFINE budget == IF Unknown \in {s.initial, s.monthly} THEN Unknown
                       ELSE s.initial + o.horizon * s.monthly
             x == IF budget = Unknown \/ costs.tco = Unknown THEN Unknown
                  ELSE IF budget > 0
                       THEN Verifier!Cents(PointScale * Verifier!Larger(0, 100 * budget - costs.tco * 50), budget)
                  ELSE IF costs.tco = 0 THEN PointScale * 100 ELSE 0
  <2>1. k["cost"] = CostPoints(s, costs, o.horizon)
    BY CriteriaParts
  <2>2. e["cost"] = x
    BY <1>20 DEF ExpectedOf
  <2>3. CostPoints(s, costs, o.horizon) = x
    <3>1. budget = IF Unknown \in {s.initial, s.monthly} THEN Unknown ELSE s.initial + o.horizon * s.monthly
      OBVIOUS
    <3> HIDE DEF budget
    <3> QED BY <1>2, <3>1, CostPointsSame
  <2> HIDE DEF x, k, e
  <2> QED BY <2>1, <2>2, <2>3
<1>4. k["performance"] = e["performance"]
  <2>1. k["performance"] = IF Missing(latency) THEN Unknown ELSE MeanPoints(latency, p.latency)
    BY CriteriaParts DEF latency
  <2>4. e["performance"] = Verifier!MeanPoints(p.latency, latency)
    BY <1>20 DEF ExpectedOf, latency
  <2> HIDE DEF k, e
  <2>2. CASE Missing(latency)
    <3>1. Verifier!Unknown \in Verifier!ToSet(latency)
      BY <2>2, MissingIs, VerifierNames
    <3>2. Verifier!MeanPoints(p.latency, latency) = Verifier!Unknown
      BY <3>1 DEF Verifier!MeanPoints
    <3> QED BY <2>1, <2>2, <2>4, <3>2, VerifierNames
  <2>3. CASE ~Missing(latency)
    <3>1. latency \in [1..n -> Nat \ {0}]
      BY <1>2, <2>3 DEF Missing, Positive, Known
    <3>2. MeanPoints(latency, p.latency) = Verifier!MeanPoints(p.latency, latency)
      BY <1>1, <1>2, <3>1, MeanPointsSame DEF n
    <3> QED BY <2>1, <2>3, <2>4, <3>2
  <2> QED BY <2>2, <2>3
<1>5. k["resilience"] = e["resilience"]
  <2> DEFINE lifted == [i \in DOMAIN rto |-> Verifier!Larger(1, rto[i])]
  <2>1. k["resilience"] = IF Missing(rto) THEN Unknown ELSE MeanPoints(Lifted(rto), p.rto)
    BY CriteriaParts DEF rto
  <2>3. e["resilience"] = IF Unknown \in Verifier!ToSet(rto) THEN Unknown
                          ELSE Verifier!MeanPoints(p.rto, lifted)
    BY <1>20 DEF ExpectedOf, rto
  <2>2. ASSUME ~Missing(rto) PROVE MeanPoints(Lifted(rto), p.rto) = Verifier!MeanPoints(p.rto, lifted)
    <3>1. rto \in [1..n -> Nat]
      BY <1>2, <2>2 DEF Missing, Known
    <3>2. lifted \in [1..n -> Nat \ {0}] /\ lifted = Lifted(rto)
      BY <3>1 DEF Lifted, Verifier!Larger
    <3> HIDE DEF lifted
    <3>3. MeanPoints(lifted, p.rto) = Verifier!MeanPoints(p.rto, lifted)
      BY <1>1, <1>2, <3>2, MeanPointsSame DEF n
    <3> QED BY <3>2, <3>3
  <2> HIDE DEF k, e, lifted
  <2> QED BY <2>1, <2>2, <2>3, MissingIs
<1>6. k["operations"] = e["operations"]
  <2> DEFINE people == s.staff + QuantityScale
             x == Verifier!Cents(PointScale * 100 * Verifier!Larger(0, people - p.staff), people)
  <2>1. k["operations"] = IF s.staff = Unknown THEN Unknown ELSE StaffPoints(s.staff, p)
    BY CriteriaParts
  <2>3. e["operations"] = IF s.staff = Unknown THEN Unknown ELSE x
    BY <1>20 DEF ExpectedOf
  <2>2. ASSUME s.staff # Unknown PROVE StaffPoints(s.staff, p) = x
    <3>1. s.staff \in Nat
      BY <1>2, <2>2 DEF Known
    <3> QED BY <3>1, StaffPointsSame
  <2> HIDE DEF k, e, x
  <2> QED BY <2>1, <2>2, <2>3
<1>7. k["governance"] = e["governance"]
  <2>1. k["governance"] = GovernancePoints(p)
    BY CriteriaParts
  <2>2. e["governance"] = PointScale * Verifier!Smaller(100, p.governance)
    BY <1>20 DEF ExpectedOf
  <2> HIDE DEF k, e
  <2> QED BY <1>2, <2>1, <2>2, WholePoints DEF GovernancePoints
<1>8. k = [g \in GroupSet |-> k[g]] /\ e = [g \in GroupSet |-> e[g]]
  BY <1>20, CriteriaParts DEF ExpectedOf
<1> HIDE DEF k, e
<1>9. \A g \in GroupSet : k[g] = e[g]
  BY <1>3, <1>4, <1>5, <1>6, <1>7, GroupsFinite
<1>10. k = e
  BY <1>8, <1>9
<1> QED BY <1>10 DEF k, e
-------------------------------------------------------------------------------
(* The engine's scores are the verifier's, also with a weight varied.      *)

LEMMA WeightedSame ==
  ASSUME NEW criteria \in [GroupSet -> Known], NEW weights \in [GroupSet -> Nat],
         NEW g \in GroupSet, weights[g] > 0
  PROVE  Weighted(criteria, weights) = Verifier!WeightedPoints(criteria, weights)
<1> DEFINE f == [h \in GroupSet |-> weights[h] * (IF criteria[h] = Unknown THEN 0 ELSE criteria[h])]
           v == [h \in GroupSet |-> weights[h] * Verifier!Larger(0, criteria[h])]
           w == [h \in GroupSet |-> weights[h]]
<1>1. \A h \in GroupSet : /\ f[h] = v[h] /\ f[h] \in Nat
  <2>1. ASSUME NEW h \in GroupSet PROVE f[h] = v[h] /\ f[h] \in Nat
    <3>1. criteria[h] \in Known /\ weights[h] \in Nat
      OBVIOUS
    <3> DEFINE x == IF criteria[h] = Unknown THEN 0 ELSE criteria[h]
    <3>2. x = Verifier!Larger(0, criteria[h]) /\ x \in Nat
      BY <3>1 DEF Known, Unknown, Verifier!Larger
    <3> HIDE DEF x
    <3>3. weights[h] * x \in Nat
      BY <3>1, <3>2, TimesType
    <3>4. f[h] = weights[h] * x /\ v[h] = weights[h] * Verifier!Larger(0, criteria[h])
      BY DEF x
    <3> HIDE DEF f, v
    <3> QED BY <3>2, <3>3, <3>4
  <2> QED BY <2>1
<1>2. f = [h \in GroupSet |-> f[h]] /\ v = [h \in GroupSet |-> v[h]] /\ w = weights
  OBVIOUS
<1>3. Weighted(criteria, weights) = Rounded(Total(f), Total(weights))
  BY DEF Weighted
<1>4. Verifier!WeightedPoints(criteria, weights) =
        Verifier!Cents(Verifier!SumFunction(v), Verifier!SumFunction(w))
  BY VerifierNames DEF Verifier!WeightedPoints
<1> HIDE DEF f, v, w
<1>5. f = v /\ f \in [GroupSet -> Nat]
  BY <1>1, <1>2
<1>6. Total(f) = Verifier!SumFunction(v) /\ Total(f) \in Nat
  <2>1. Total(f) = Cardinality(Units(f, GroupSet))
    BY <1>5, GroupsFinite, TotalCounts
  <2>2. Verifier!SumFunction(f) = Cardinality(Units(f, GroupSet)) /\ Verifier!SumFunction(f) \in Nat
    BY <1>5, GroupsFinite, SumCounts
  <2> QED BY <1>5, <2>1, <2>2
<1>7. Total(weights) = Verifier!SumFunction(w) /\ Total(weights) \in Nat \ {0}
  <2>1. Total(weights) = Cardinality(Units(weights, GroupSet))
    BY GroupsFinite, TotalCounts
  <2>2. Verifier!SumFunction(weights) = Cardinality(Units(weights, GroupSet))
    BY GroupsFinite, SumCounts
  <2>3. Verifier!SumFunction(weights) \in Nat \ {0}
    BY GroupsFinite, PositiveSum
  <2> QED BY <1>2, <2>1, <2>2, <2>3
<1> QED BY <1>3, <1>4, <1>6, <1>7, RoundedIsCents

\* the verifier's weights of a variation
Raised(raw, g, fifths) ==
  LET varied == [raw EXCEPT ![g] = @ * fifths]
  IN  [h \in GroupSet |-> IF h = g THEN varied[h] ELSE 5 * varied[h]]

LEMMA VariedIs ==
  ASSUME NEW o \in OptionInputs, NEW g \in GroupSet, NEW fifths \in {4, 6}
  PROVE  LET w == Varied(RawWeights(o), g, fifths)
         IN  /\ w \in [GroupSet -> Nat] /\ (\E h \in GroupSet : w[h] > 0)
             /\ w = Raised(RawWeights(o), g, fifths)
<1> DEFINE raw == RawWeights(o)
<1>1. raw \in [GroupSet -> Nat] /\ \E h \in GroupSet : raw[h] > 0
  BY WeightsType
<1> HIDE DEF raw
<1>2. \A h \in GroupSet : raw[h] \in Nat
  BY <1>1
<1>3. Varied(raw, g, fifths) = [h \in GroupSet |-> raw[h] * (IF h = g THEN fifths ELSE 5)]
  BY DEF Varied
<1>4. \A h \in GroupSet : LET x == raw[h] * (IF h = g THEN fifths ELSE 5)
                         IN  x \in Nat /\ (raw[h] > 0 => x > 0)
  BY <1>2
<1>5. Raised(raw, g, fifths) = [h \in GroupSet |-> IF h = g THEN raw[h] * fifths ELSE 5 * raw[h]]
  BY <1>1 DEF Raised
<1>6. \A h \in GroupSet : raw[h] * (IF h = g THEN fifths ELSE 5)
                         = IF h = g THEN raw[h] * fifths ELSE 5 * raw[h]
  BY <1>2
<1>7. Varied(raw, g, fifths) = Raised(raw, g, fifths)
  BY <1>3, <1>5, <1>6
<1>8. Varied(raw, g, fifths) \in [GroupSet -> Nat] /\ \E h \in GroupSet : Varied(raw, g, fifths)[h] > 0
  BY <1>1, <1>3, <1>4
<1> QED BY <1>7, <1>8 DEF raw
-------------------------------------------------------------------------------
(* A row of the engine passes the verifier.                                *)

LEMMA PlanIs ==
  ASSUME NEW i \in DOMAIN Catalog.plans
  PROVE  /\ Catalog.plans[i] \in CatalogPlans /\ Catalog.plans[i].key \in Verifier!Keys
         /\ Verifier!PlanOf(Catalog.plans[i].key) = Catalog.plans[i]
<1>1. /\ Catalog.plans[i] \in CatalogPlans
      /\ \A j, k \in DOMAIN Catalog.plans : Catalog.plans[j].key = Catalog.plans[k].key => j = k
  BY CatalogAssumption
<1>2. \A j \in DOMAIN Catalog.plans : Catalog.plans[j].key = Catalog.plans[i].key => j = i
  BY <1>1
<1>3. (CHOOSE j \in DOMAIN Catalog.plans : Catalog.plans[j].key = Catalog.plans[i].key) = i
  BY <1>2
<1> QED BY <1>1, <1>3 DEF Verifier!PlanOf, Verifier!Keys

RowParts(c, s, o, p) ==
  LET costs == Costs(s, p, o.horizon)
  IN  /\ c.key = p.key /\ c.source = p.key /\ c.costs = costs
      /\ c.constraints = Constraints(s, p, costs, o.date)
      /\ c.criteria = Criteria(s, p, costs, o.horizon)
      /\ c.status = IF Occurs("FAIL", c.constraints) THEN "EXCLUDED"
                    ELSE IF Lacking(s, o, p) THEN "INDETERMINATE" ELSE "ELIGIBLE"
      /\ c.score = IF c.status = "ELIGIBLE" THEN Weighted(c.criteria, RawWeights(o)) ELSE Unknown
      /\ c.assignments = [i \in DOMAIN s.workloads |->
                            [key |-> s.workloads[i].key, components |-> Components(p),
                             source |-> p.key]]

LEMMA CandidateIs ==
  ASSUME NEW s, NEW o, NEW p
  PROVE  RowParts(Candidate(s, o, p), s, o, p)
<1> DEFINE c == Candidate(s, o, p)
<1>1. /\ c.status = IF Occurs("FAIL", c.constraints) THEN "EXCLUDED"
                    ELSE IF Lacking(s, o, p) THEN "INDETERMINATE" ELSE "ELIGIBLE"
      /\ c.score = IF c.status = "ELIGIBLE" THEN Weighted(c.criteria, RawWeights(o)) ELSE Unknown
  BY DEF Candidate, Priced, Judged, Status, Occurs, Lacking
<1>2. LET costs == Costs(s, p, o.horizon)
      IN  /\ c.key = p.key /\ c.source = p.key /\ c.costs = costs
          /\ c.constraints = Constraints(s, p, costs, o.date)
          /\ c.criteria = Criteria(s, p, costs, o.horizon)
          /\ c.assignments = [i \in DOMAIN s.workloads |->
                                [key |-> s.workloads[i].key, components |-> Components(p),
                                 source |-> p.key]]
  BY DEF Candidate, Priced, Judged
<1> HIDE DEF c
<1>3. RowParts(c, s, o, p)
  BY <1>1, <1>2 DEF RowParts
<1> QED BY <1>3 DEF c

LEMMA ExpectedOutcome ==
  ASSUME NEW s, NEW o, NEW key
  PROVE  LET e == Verifier!Expected(s, o, key)
             found == {state[2] : state \in e.states}
         IN  /\ e.status = IF "FAIL" \in found THEN "EXCLUDED"
                           ELSE IF \/ ~e.sums.complete \/ "UNKNOWN" \in found
                                   \/ \E g \in GroupSet : RawWeights(o)[g] > 0 /\ e.criteria[g] = Unknown
                                THEN "INDETERMINATE" ELSE "ELIGIBLE"
             /\ e.score = IF e.status = "ELIGIBLE"
                          THEN Verifier!WeightedPoints(e.criteria, RawWeights(o)) ELSE Unknown
BY VerifierNames DEF Verifier!Expected

LEMMA ConcatPlaces ==
  ASSUME NEW A, NEW u \in Seq(A), NEW v \in Seq(A)
  PROVE  /\ \A i \in 1..Len(u) : (u \o v)[i] = u[i]
         /\ \A i \in 1..Len(v) : (u \o v)[Len(u) + i] = v[i]
<1>1. \A i \in 1..Len(u) : (u \o v)[i] = u[i]
  OBVIOUS
<1>2. \A i \in 1..Len(v) : (u \o v)[Len(u) + i] = v[i]
  OBVIOUS
<1> QED BY <1>1, <1>2

LEMMA PairIs ==
  ASSUME NEW x, NEW y
  PROVE  <<x>> \o <<y>> = <<x, y>>
<1> DEFINE A == {x, y}
           b == <<x>>
           d == <<y>>
           v == <<x, y>>
           u == b \o d
<1>1. b \in Seq(A) /\ Len(b) = 1 /\ b[1] = x /\ d \in Seq(A) /\ Len(d) = 1 /\ d[1] = y
  OBVIOUS
<1>2. v \in Seq(A) /\ Len(v) = 2 /\ v[1] = x /\ v[2] = y
  OBVIOUS
<1> HIDE DEF b, d, v, A
<1>3. u \in Seq(A) /\ Len(u) = 2
  <2>1. b \o d \in Seq(A) /\ Len(b \o d) = Len(b) + Len(d)
    BY <1>1, ConcatIs
  <2> QED BY <1>1, <2>1
<1>4. u[1] = x /\ u[2] = y
  <2>1. /\ \A i \in 1..Len(b) : (b \o d)[i] = b[i]
        /\ \A i \in 1..Len(d) : (b \o d)[Len(b) + i] = d[i]
    BY <1>1, ConcatPlaces
  <2>3. 1 \in 1..Len(b) /\ 1 \in 1..Len(d) /\ Len(b) + 1 = 2
    BY <1>1
  <2> QED BY <1>1, <2>1, <2>3
<1> HIDE DEF u
<1>5. DOMAIN u = 1..2 /\ DOMAIN v = 1..2
  BY <1>2, <1>3
<1>6. u = [i \in 1..2 |-> u[i]] /\ v = [i \in 1..2 |-> v[i]]
  BY <1>2, <1>3, <1>5
<1>7. \A i \in 1..2 : i = 1 \/ i = 2
  OBVIOUS
<1>8. u = v
  BY <1>2, <1>4, <1>6, <1>7
<1> QED BY <1>8 DEF u, b, d, v

LEMMA AssignmentsExact ==
  ASSUME NEW s \in ScenarioInputs, NEW i \in DOMAIN Catalog.plans, NEW c,
         c.key = Catalog.plans[i].key,
         c.assignments = [j \in DOMAIN s.workloads |->
                            [key |-> s.workloads[j].key, components |-> Components(Catalog.plans[i]),
                             source |-> Catalog.plans[i].key]]
  PROVE  Verifier!AssignmentsHold(s, c)
<1> DEFINE p == Catalog.plans[i]
           n == Len(s.workloads)
           row(j) == [key |-> s.workloads[j].key, components |-> Components(p), source |-> p.key]
           A == {row(j) : j \in 1..n}
           u == [j \in 1..n |-> row(j)]
           parts == IF c.key = "HYBRID" THEN <<Verifier!PlanOf(c.key).model, "cloud backup">>
                    ELSE <<Verifier!PlanOf(c.key).model>>
<1>1. n \in Nat /\ DOMAIN s.workloads = 1..n
      /\ \A j, k \in 1..n : s.workloads[j].key = s.workloads[k].key => j = k
  BY DEF ScenarioInputs
<1>2. c.assignments = u
  BY <1>1
<1>3. parts = Components(p)
  <2>1. Verifier!PlanOf(c.key) = p
    BY PlanIs
  <2>2. <<p.model>> \o <<"cloud backup">> = <<p.model, "cloud backup">> /\ <<p.model>> \o <<>> = <<p.model>>
    <3>1. \A x : <<x>> \o <<"cloud backup">> = <<x, "cloud backup">>
      BY PairIs
    <3>2. \A x : <<x>> \o <<>> = <<x>>
      OBVIOUS
    <3> QED BY <3>1, <3>2
  <2> HIDE DEF p
  <2>3. c.key = p.key
    BY DEF p
  <2> QED BY <2>1, <2>2, <2>3 DEF Components
<1>4. u \in Seq(A) /\ Distinct(u)
  <2>1. \A j \in 1..n : u[j] \in A /\ u[j].key = s.workloads[j].key
    OBVIOUS
  <2>2. DOMAIN u = 1..n /\ u = [j \in 1..n |-> u[j]]
    OBVIOUS
  <2> HIDE DEF u, A, n
  <2>3. u \in [1..n -> A]
    BY <2>1, <2>2
  <2>4. Distinct(u)
    BY <1>1, <2>1, <2>2 DEF Distinct
  <2> QED BY <1>1, <2>3, <2>4, AsSequence
<1>5. ToSet(u) = {[key |-> w.key, components |-> parts, source |-> c.key] : w \in Verifier!Workloads(s)}
  <2>1. Verifier!Workloads(s) = {s.workloads[j] : j \in 1..n}
    BY <1>1 DEF Verifier!Workloads, Verifier!ToSet
  <2>2. ToSet(u) = {row(j) : j \in 1..n}
    BY DEF ToSet
  <2>3. \A j \in 1..n : row(j) = [key |-> s.workloads[j].key, components |-> parts, source |-> c.key]
    BY <1>3
  <2> HIDE DEF row, parts, u, n
  <2> QED BY <2>1, <2>2, <2>3
<1>6. Verifier!Exactly(u, ToSet(u))
  <2> HIDE DEF u, A
  <2> QED BY <1>4, DistinctCounts
<1> HIDE DEF u
<1>7. Verifier!Exactly(c.assignments,
        {[key |-> w.key, components |-> parts, source |-> c.key] : w \in Verifier!Workloads(s)})
  BY <1>2, <1>5, <1>6
<1> QED BY <1>7 DEF Verifier!AssignmentsHold

(* A row of the engine passes the verifier, and the verifier expects it.   *)
LEMMA CandidateExact ==
  ASSUME NEW s \in ScenarioInputs, NEW o \in OptionInputs, NEW i \in DOMAIN Catalog.plans, NEW c,
         RowParts(c, s, o, Catalog.plans[i]), NEW e, e = Verifier!Expected(s, o, Catalog.plans[i].key)
  PROVE  /\ Verifier!CandidateHolds(s, c, e)
         /\ e.key = c.key /\ e.status = c.status /\ e.score = c.score /\ e.criteria = c.criteria
<1> DEFINE p == Catalog.plans[i]
           h == o.horizon
           lines == Lines(s, p, h)
           costs == Costs(s, p, h)
           sums == Verifier!ExpectedSums(Verifier!ExpectedLines(s, p, h), h)
           states == Verifier!ExpectedStates(s, o, p, sums)
           C == Constraints(s, p, costs, o.date)
           found == Found(states)
<1>1. p \in CatalogPlans /\ Verifier!PlanOf(p.key) = p /\ h \in Nat \ {0}
  BY PlanIs, OptionNumbers
<1>2. /\ e.key = p.key /\ e.lines = Verifier!ExpectedLines(s, p, h) /\ e.sums = sums
      /\ e.states = states /\ e.criteria = Verifier!ExpectedCriteria(s, o, p, sums)
  <2> DEFINE key == p.key
  <2>1. Verifier!PlanOf(key) = p /\ e = Verifier!Expected(s, o, key)
    BY <1>1
  <2> HIDE DEF key, p
  <2>2. /\ e.key = key /\ e.lines = Verifier!ExpectedLines(s, p, h) /\ e.sums = sums
        /\ e.states = states /\ e.criteria = Verifier!ExpectedCriteria(s, o, p, sums)
    BY <2>1 DEF Verifier!Expected
  <2> QED BY <2>2 DEF key
<1>3. /\ e.status = IF "FAIL" \in {x[2] : x \in e.states} THEN "EXCLUDED"
                    ELSE IF \/ ~e.sums.complete \/ "UNKNOWN" \in {x[2] : x \in e.states}
                            \/ \E g \in GroupSet : RawWeights(o)[g] > 0 /\ e.criteria[g] = Unknown
                         THEN "INDETERMINATE" ELSE "ELIGIBLE"
      /\ e.score = IF e.status = "ELIGIBLE"
                   THEN Verifier!WeightedPoints(e.criteria, RawWeights(o)) ELSE Unknown
  BY ExpectedOutcome
<1>4. RowParts(c, s, o, p)
  OBVIOUS
<1> HIDE DEF p
<1>5. lines \in Seq(LineRows) /\ Distinct(lines) /\ ToSet(lines) = e.lines
  BY <1>1, <1>2, LinesExact
<1>6. costs = Summed(lines, h) /\ costs.lines = lines /\ costs.tco \in Known
  <2>1. costs = Summed(lines, h)
    BY DEF Costs
  <2>2. Summed(lines, h).lines = lines
    BY DEF Summed
  <2> HIDE DEF costs, lines, h
  <2> QED BY <1>5, <2>1, <2>2, TcoType
<1>7. DOMAIN e.sums = SumFields /\ \A f \in SumFields : costs[f] = e.sums[f]
  <2>1. e.sums = Verifier!ExpectedSums(ToSet(lines), h)
    BY <1>2, <1>5
  <2> HIDE DEF costs, lines, h, sums
  <2> QED BY <1>5, <1>6, <2>1, SumsExact
<1>8. /\ costs.complete = sums.complete /\ costs.startup = sums.startup
      /\ costs.monthly = sums.monthly /\ costs.tco = sums.tco
  <2> HIDE DEF costs, sums
  <2> QED BY <1>2, <1>7 DEF SumFields
<1>9. Verifier!CostsHold(c, e)
  <2>1. Verifier!Exactly(lines, ToSet(lines))
    <3> HIDE DEF lines
    <3> QED BY <1>5, DistinctCounts
  <2>2. c.costs = costs
    BY <1>4 DEF RowParts
  <2> HIDE DEF costs, lines
  <2> QED BY <1>5, <1>6, <1>7, <2>1, <2>2 DEF Verifier!CostsHold
<1>10. Verifier!Exactly(C, RowsOf(states, p.key)) /\ found = StatusesOf(C)
  <2> HIDE DEF costs, sums
  <2>1. SameBudget(costs, sums)
    BY <1>8 DEF SameBudget
  <2> QED BY <1>1, <2>1, ConstraintsExact
<1> HIDE DEF sums, costs
<1>11. Verifier!ConstraintsHold(c, e)
  <2>1. c.constraints = C /\ c.key = p.key
    BY <1>4 DEF RowParts, costs
  <2> HIDE DEF C, states
  <2> QED BY <1>2, <1>10, <2>1 DEF Verifier!ConstraintsHold, RowsOf
<1>12. c.criteria = e.criteria /\ c.criteria = Criteria(s, p, costs, h)
  <2>1. Criteria(s, p, costs, h) = Verifier!ExpectedCriteria(s, o, p, sums)
    BY <1>1, <1>6, <1>8, CriteriaExact
  <2> QED BY <1>2, <1>4, <2>1 DEF RowParts, costs
<1>13. c.criteria \in [GroupSet -> Known]
  <2>1. Criteria(s, p, costs, h) \in [GroupSet -> Known]
    BY <1>1, <1>6, EngineCriteriaType, SMTT(30)
  <2> QED BY <1>12, <2>1
<1>14. c.status = e.status
  <2>1. "FAIL" \in found <=> Occurs("FAIL", C)
    <3> HIDE DEF C, found
    <3> QED BY <1>10 DEF Occurs, StatusesOf
  <2>2. "UNKNOWN" \in found <=> Occurs("UNKNOWN", C)
    <3> HIDE DEF C, found
    <3> QED BY <1>10 DEF Occurs, StatusesOf
  <2>3. c.constraints = C
    BY <1>4 DEF RowParts, costs
  <2>4. Lacking(s, o, p) <=> \/ Occurs("UNKNOWN", C) \/ ~costs.complete
                             \/ \E g \in GroupSet : c.criteria[g] = Unknown /\ RawWeights(o)[g] > 0
    BY <1>12 DEF Lacking, costs
  <2>5. c.status = IF Occurs("FAIL", C) THEN "EXCLUDED"
                   ELSE IF Lacking(s, o, p) THEN "INDETERMINATE" ELSE "ELIGIBLE"
    BY <1>4, <2>3 DEF RowParts
  <2>6. (\E g \in GroupSet : c.criteria[g] = Unknown /\ RawWeights(o)[g] > 0)
        <=> \E g \in GroupSet : RawWeights(o)[g] > 0 /\ e.criteria[g] = Unknown
    BY <1>12
  <2>7. found = {x[2] : x \in e.states} /\ e.sums.complete = costs.complete
    BY <1>2, <1>8, SMTT(30) DEF Found
  <2> HIDE DEF C, found
  <2> QED BY <1>3, <2>1, <2>2, <2>4, <2>5, <2>6, <2>7
<1>15. c.score = e.score
  <2>1. Weighted(c.criteria, RawWeights(o)) = Verifier!WeightedPoints(c.criteria, RawWeights(o))
    BY <1>13, WeightsType, WeightedSame
  <2>2. c.score = IF c.status = "ELIGIBLE" THEN Weighted(c.criteria, RawWeights(o)) ELSE Unknown
    BY <1>4 DEF RowParts
  <2> QED BY <1>3, <1>12, <1>14, <2>1, <2>2, Zenon
<1>16. Verifier!AssignmentsHold(s, c)
  BY <1>4, AssignmentsExact, ZenonT(60) DEF RowParts, p
<1>17. c.source = c.key /\ c.key = p.key
  BY <1>4 DEF RowParts
<1> QED BY <1>2, <1>9, <1>11, <1>12, <1>14, <1>15, <1>16, <1>17 DEF Verifier!CandidateHolds
-------------------------------------------------------------------------------
(* The best, and the order in which the verifier lists the keys.           *)

KeySet == {PlanKeys[i] : i \in DOMAIN PlanKeys}
Scored(S, f) == IsFiniteSet(S) /\ S \subseteq KeySet /\ \A a \in S : f[a] \in Int
Beats(f, a, b) == f[a] > f[b] \/ (f[a] = f[b] /\ Before(a, b))
Better(S, f, a) == {b \in S : Beats(f, b, a)}

LEMMA BeforeTotal ==
  ASSUME NEW a \in KeySet, NEW b \in KeySet, a # b
  PROVE  Before(a, b) \/ Before(b, a)
<1>1. DOMAIN PlanKeys = 1..4
  BY DEF PlanKeys
<1>2. PICK i \in 1..4, j \in 1..4 : PlanKeys[i] = a /\ PlanKeys[j] = b
  BY <1>1 DEF KeySet
<1> HIDE DEF PlanKeys
<1>3. i < j \/ j < i
  BY <1>2
<1> QED BY <1>1, <1>2, <1>3 DEF Before

LEMMA BeatsOrders ==
  ASSUME NEW S, NEW f, Scored(S, f)
  PROVE  /\ \A a \in S : ~Beats(f, a, a)
         /\ \A a, b, c \in S : Beats(f, a, b) /\ Beats(f, b, c) => Beats(f, a, c)
         /\ \A a, b \in S : a # b => Beats(f, a, b) \/ Beats(f, b, a)
<1>1. \A a \in S : f[a] \in Int /\ a \in KeySet
  BY DEF Scored
<1>2. \A a \in S : ~Beats(f, a, a)
  BY <1>1, BeforeOrders DEF Beats
<1>3. ASSUME NEW a \in S, NEW b \in S, NEW c \in S, Beats(f, a, b), Beats(f, b, c)
      PROVE  Beats(f, a, c)
  <2>1. f[a] \in Int /\ f[b] \in Int /\ f[c] \in Int
    BY <1>1
  <2> QED BY <1>3, <2>1, BeforeOrders DEF Beats
<1>4. ASSUME NEW a \in S, NEW b \in S, a # b PROVE Beats(f, a, b) \/ Beats(f, b, a)
  <2>1. f[a] \in Int /\ f[b] \in Int
    BY <1>1
  <2>2. Before(a, b) \/ Before(b, a)
    BY <1>1, <1>4, BeforeTotal
  <2> QED BY <2>1, <2>2 DEF Beats
<1> QED BY <1>2, <1>3, <1>4

(* The best of a set beats all the others.                                 *)
LEMMA BestIs ==
  ASSUME NEW S, NEW f, Scored(S, f), S # {}
  PROVE  Best(S, f) \in S /\ \A b \in S \ {Best(S, f)} : Beats(f, Best(S, f), b)
<1> DEFINE R == {p \in S \X S : Beats(f, p[1], p[2])}
<1>1. \A a, b \in S : <<a, b>> \in R <=> Beats(f, a, b)
  OBVIOUS
<1>2. R \in SUBSET (S \X S) /\ IsFiniteSet(S)
  BY DEF Scored
<1> HIDE DEF R
<1>3. PICK a \in S : \A b \in S : <<b, a>> \notin R
  <2>1. /\ \A x \in S : <<x, x>> \notin R
        /\ \A x, b, c \in S : <<x, b>> \in R /\ <<b, c>> \in R => <<x, c>> \in R
    BY <1>1, BeatsOrders
  <2> QED BY <1>2, <2>1, Unbeaten
<1>4. \A b \in S \ {a} : Beats(f, a, b)
  BY <1>1, <1>3, BeatsOrders
<1>5. Best(S, f) = CHOOSE x \in S : \A b \in S \ {x} : Beats(f, x, b)
  BY DEF Best, Beats
<1> QED BY <1>4, <1>5

LEMMA OrderedIs ==
  ASSUME NEW S, NEW f
  PROVE  Verifier!Ordered(S, f) =
           [i \in 1..Cardinality(S) |-> CHOOSE a \in S : Cardinality(Better(S, f, a)) = i - 1]
<1> DEFINE better(a) == {b \in S : f[b] > f[a] \/ (f[b] = f[a] /\ Verifier!Before(b, a))}
<1>1. \A a : Better(S, f, a) = better(a)
  BY VerifierNames DEF Better, Beats
<1>2. \A T : Verifier!Cardinality(T) = Cardinality(T)
  BY VerifierCounts
<1>3. Verifier!Ordered(S, f) =
        [i \in 1..Verifier!Cardinality(S) |-> CHOOSE a \in S : Verifier!Cardinality(better(a)) = i - 1]
  BY DEF Verifier!Ordered
<1> HIDE DEF better
<1> QED BY <1>1, <1>2, <1>3

LEMMA BetterFinite ==
  ASSUME NEW S, NEW f, Scored(S, f), NEW a
  PROVE  IsFiniteSet(Better(S, f, a)) /\ Cardinality(Better(S, f, a)) \in Nat
<1>1. Better(S, f, a) \subseteq S
  BY DEF Better
<1> QED BY <1>1, FS_Subset, FS_CardinalityType DEF Scored

LEMMA FirstInOrder ==
  ASSUME NEW S, NEW f, Scored(S, f), S # {}
  PROVE  /\ Cardinality(S) \in Nat \ {0}
         /\ Verifier!Ordered(S, f)[1] = Best(S, f) /\ Head(Verifier!Ordered(S, f)) = Best(S, f)
<1> DEFINE q == Verifier!Ordered(S, f)
           x == Best(S, f)
<1>1. Cardinality(S) \in Nat \ {0}
  BY FS_EmptySet, FS_CardinalityType DEF Scored
<1>2. x \in S /\ \A b \in S \ {x} : Beats(f, x, b)
  BY BestIs
<1>3. q[1] = CHOOSE a \in S : Cardinality(Better(S, f, a)) = 1 - 1
  <2>1. 1 \in 1..Cardinality(S)
    BY <1>1
  <2> QED BY <2>1, OrderedIs
<1>4. Head(q) = q[1]
  <2>1. q = [i \in 1..Cardinality(S) |-> CHOOSE a \in S : Cardinality(Better(S, f, a)) = i - 1]
    BY OrderedIs
  <2> QED BY <1>1, <2>1
<1> HIDE DEF q, x
<1>5. Better(S, f, x) = {}
  BY <1>2, BeatsOrders DEF Better
<1>6. ASSUME NEW a \in S, Cardinality(Better(S, f, a)) = 0 PROVE a = x
  <2>1. Better(S, f, a) = {}
    BY <1>6, BetterFinite, FS_EmptySet
  <2> QED BY <1>2, <2>1 DEF Better
<1>7. Cardinality(Better(S, f, x)) = 0
  BY <1>5, FS_EmptySet
<1>8. \A a \in S : Cardinality(Better(S, f, a)) = 1 - 1 <=> a = x
  BY <1>6, <1>7
<1>9. q[1] = x
  BY <1>2, <1>3, <1>8
<1> QED BY <1>1, <1>4, <1>9 DEF q, x

LEMMA SecondInOrder ==
  ASSUME NEW S, NEW f, Scored(S, f), Cardinality(S) > 1
  PROVE  Verifier!Ordered(S, f)[2] = Best(S \ {Best(S, f)}, f)
<1> DEFINE q == Verifier!Ordered(S, f)
           x == Best(S, f)
           T == S \ {x}
           y == Best(T, f)
<1>1. Cardinality(S) \in Nat /\ S # {}
  BY FS_EmptySet, FS_CardinalityType DEF Scored
<1>2. x \in S /\ \A b \in S \ {x} : Beats(f, x, b)
  BY <1>1, BestIs
<1>3. T # {}
  <2>1. S = {x} => Cardinality(S) = 1
    BY FS_Singleton
  <2> HIDE DEF x
  <2> QED BY <1>1, <1>2, <2>1
<1>4. Scored(T, f)
  <2>1. IsFiniteSet(T)
    BY FS_Subset DEF Scored
  <2> QED BY <2>1 DEF Scored
<1> HIDE DEF x
<1>5. y \in T /\ \A b \in T \ {y} : Beats(f, y, b)
  <2> HIDE DEF T
  <2> QED BY <1>3, <1>4, BestIs
<1>6. q[2] = CHOOSE a \in S : Cardinality(Better(S, f, a)) = 2 - 1
  <2>1. 2 \in 1..Cardinality(S)
    BY <1>1
  <2> QED BY <2>1, OrderedIs
<1> HIDE DEF y, q
<1>7. y \in S /\ y # x /\ Beats(f, x, y)
  BY <1>2, <1>5
<1>8. Better(S, f, y) = {x}
  <2>1. ASSUME NEW b \in S, b # x PROVE ~Beats(f, b, y)
    <3>1. b = y \/ Beats(f, y, b)
      BY <1>5, <2>1
    <3> QED BY <1>7, <3>1, BeatsOrders
  <2> QED BY <1>2, <1>7, <2>1 DEF Better
<1>9. Cardinality(Better(S, f, y)) = 1
  BY <1>8, FS_Singleton
<1>10. ASSUME NEW a \in S, Cardinality(Better(S, f, a)) = 1 PROVE a = y
  <2>1. PICK b : Better(S, f, a) = {b}
    BY <1>10, BetterFinite, FS_Singleton
  <2>2. CASE a = x
    <3>1. b \in S /\ Beats(f, b, x)
      BY <2>1, <2>2 DEF Better
    <3> QED BY <1>2, <3>1, BeatsOrders
  <2>3. CASE a # x /\ a # y
    <3>1. x \in Better(S, f, a) /\ y \in Better(S, f, a)
      BY <1>2, <1>5, <1>7, <2>3 DEF Better
    <3> QED BY <1>7, <2>1, <3>1
  <2> QED BY <2>2, <2>3
<1>11. \A a \in S : Cardinality(Better(S, f, a)) = 2 - 1 <=> a = y
  BY <1>9, <1>10
<1>12. q[2] = y
  BY <1>6, <1>7, <1>11
<1> QED BY <1>12 DEF q, x, y, T
-------------------------------------------------------------------------------
(* Places in a descending order.                                           *)

Above(S, a) == {b \in S : b > a}

LEMMA AboveFinite ==
  ASSUME NEW S \in SUBSET Int, IsFiniteSet(S), NEW a \in S
  PROVE  /\ IsFiniteSet(Above(S, a)) /\ Cardinality(Above(S, a)) \in Nat
         /\ Cardinality(Above(S, a)) < Cardinality(S)
<1>1. Above(S, a) \in SUBSET S /\ a \notin Above(S, a)
  BY DEF Above
<1>2. /\ IsFiniteSet(Above(S, a)) /\ Cardinality(Above(S, a)) <= Cardinality(S)
      /\ Cardinality(S) = Cardinality(Above(S, a)) => S = Above(S, a)
  BY <1>1, FS_Subset
<1>3. Cardinality(Above(S, a)) \in Nat /\ Cardinality(S) \in Nat
  BY <1>2, FS_CardinalityType
<1> QED BY <1>1, <1>2, <1>3

LEMMA AboveShrinks ==
  ASSUME NEW S \in SUBSET Int, IsFiniteSet(S), NEW a \in S, NEW b \in S, a < b
  PROVE  Cardinality(Above(S, b)) < Cardinality(Above(S, a))
<1>1. Above(S, b) \in SUBSET Above(S, a) /\ b \in Above(S, a) /\ b \notin Above(S, b)
  <2>1. a \in Int /\ b \in Int /\ b > a /\ ~(b > b)
    OBVIOUS
  <2>2. \A x \in S : x > b => x > a
    <3>1. ASSUME NEW x \in S, x > b PROVE x > a
      <4>1. x \in Int
        OBVIOUS
      <4> QED BY <2>1, <3>1, <4>1
    <3> QED BY <3>1
  <2>3. Above(S, b) \in SUBSET Above(S, a)
    BY <2>2 DEF Above
  <2> QED BY <2>1, <2>3 DEF Above
<1>2. IsFiniteSet(Above(S, a)) /\ IsFiniteSet(Above(S, b))
      /\ Cardinality(Above(S, a)) \in Nat /\ Cardinality(Above(S, b)) \in Nat
  BY AboveFinite
<1>3. /\ Cardinality(Above(S, b)) <= Cardinality(Above(S, a))
      /\ Cardinality(Above(S, a)) = Cardinality(Above(S, b)) => Above(S, a) = Above(S, b)
  BY <1>1, <1>2, FS_Subset
<1> QED BY <1>1, <1>2, <1>3

(* A number's place in the descending order is one more than the numbers   *)
(* above it.                                                               *)
LEMMA PlaceIs ==
  ASSUME NEW S \in SUBSET Int, IsFiniteSet(S), NEW m \in S, NEW d, d = Verifier!Descending(S)
  PROVE  (CHOOSE i \in DOMAIN d : d[i] = m) = Cardinality(Above(S, m)) + 1
<1> DEFINE n == Cardinality(S)
           place == [a \in S |-> Cardinality(Above(S, a)) + 1]
<1>1. n \in Nat /\ IsFiniteSet(1..n) /\ Cardinality(1..n) = n
  BY FS_CardinalityType, Interval
<1>2. d = [i \in 1..n |-> CHOOSE a \in S : Cardinality(Above(S, a)) = i - 1]
  <2> DEFINE above(a) == {b \in S : b > a}
  <2>1. d = [i \in 1..Verifier!Cardinality(S) |->
               CHOOSE a \in S : Verifier!Cardinality(above(a)) = i - 1]
    BY DEF Verifier!Descending
  <2>2. \A a : above(a) = Above(S, a)
    BY DEF Above
  <2> HIDE DEF above
  <2> QED BY <2>1, <2>2, VerifierCounts
<1>3. \A a \in S : place[a] \in 1..n
  BY <1>1, AboveFinite
<1>4. ASSUME NEW a \in S, NEW b \in S, place[a] = place[b] PROVE a = b
  <2>1. a \in Int /\ b \in Int
    OBVIOUS
  <2>2. Cardinality(Above(S, a)) = Cardinality(Above(S, b))
        /\ Cardinality(Above(S, a)) \in Nat /\ Cardinality(Above(S, b)) \in Nat
    <3>1. \A x \in S : place[x] = Cardinality(Above(S, x)) + 1
      OBVIOUS
    <3>2. Cardinality(Above(S, a)) \in Nat /\ Cardinality(Above(S, b)) \in Nat
      BY AboveFinite
    <3> HIDE DEF place
    <3> QED BY <1>4, <3>1, <3>2
  <2>3. ~(a < b)
    BY <2>2, AboveShrinks
  <2>4. ~(b < a)
    BY <2>2, AboveShrinks
  <2> QED BY <2>1, <2>3, <2>4
<1> HIDE DEF n
<1>5. place \in Surjection(S, 1..n)
  <2>1. place \in Injection(S, 1..n)
    <3>1. place \in [S -> 1..n]
      BY <1>3
    <3> HIDE DEF place
    <3> QED BY <1>4, <3>1 DEF Injection, IsInjective
  <2>2. Cardinality(S) = Cardinality(1..n)
    BY <1>1 DEF n
  <2> HIDE DEF place
  <2> QED BY <1>1, <2>1, <2>2, FS_Injection
<1>6. ASSUME NEW i \in 1..n PROVE d[i] \in S /\ place[d[i]] = i
  <2>1. PICK a \in S : place[a] = i
    BY <1>5 DEF Surjection
  <2>2. i \in Int /\ Cardinality(Above(S, a)) \in Nat
    BY <1>1, AboveFinite
  <2>3. Cardinality(Above(S, a)) = i - 1
    BY <2>1, <2>2
  <2>4. d[i] = CHOOSE b \in S : Cardinality(Above(S, b)) = i - 1
    BY <1>2
  <2>5. d[i] \in S /\ Cardinality(Above(S, d[i])) = i - 1
    BY <2>3, <2>4
  <2> QED BY <2>2, <2>5
<1>7. DOMAIN d = 1..n
  BY <1>2
<1> HIDE DEF place
<1>8. \A i \in 1..n : d[i] = m <=> i = place[m]
  <2>1. place[m] \in 1..n
    BY <1>3
  <2>2. d[place[m]] = m
    BY <1>4, <1>6, <2>1
  <2> QED BY <1>6, <2>2
<1>9. (CHOOSE i \in DOMAIN d : d[i] = m) = place[m]
  BY <1>3, <1>7, <1>8
<1> QED BY <1>9 DEF place
-------------------------------------------------------------------------------
(* The rows of a draft, found by their keys.                               *)

(* Rows with different keys are found by their keys.                       *)
Table(cs, N) == DOMAIN cs = N /\ \A i, j \in N : cs[i].key = cs[j].key => i = j
RowOf(cs, k) == CHOOSE c \in Range(cs) : c.key = k
EligibleAt(cs, N) == {i \in N : cs[i].status = "ELIGIBLE"}

LEMMA TableIs ==
  ASSUME NEW N, NEW cs, Table(cs, N)
  PROVE  /\ \A i \in N : RowOf(cs, cs[i].key) = cs[i]
         /\ Eligible(cs) = {cs[i].key : i \in EligibleAt(cs, N)}
         /\ ScoreOf(cs) = [k \in Eligible(cs) |-> RowOf(cs, k).score]
         /\ \A i \in EligibleAt(cs, N) : ScoreOf(cs)[cs[i].key] = cs[i].score
<1>1. Range(cs) = {cs[i] : i \in N} /\ \A i, j \in N : cs[i].key = cs[j].key => i = j
  BY DEF Table, Range
<1>2. ASSUME NEW i \in N PROVE RowOf(cs, cs[i].key) = cs[i]
  <2>1. cs[i] \in Range(cs) /\ \A c \in Range(cs) : c.key = cs[i].key => c = cs[i]
    BY <1>1
  <2> QED BY <2>1 DEF RowOf
<1>3. Eligible(cs) = {cs[i].key : i \in EligibleAt(cs, N)}
  BY DEF Eligible, EligibleAt, Table
<1>4. ScoreOf(cs) = [k \in Eligible(cs) |-> RowOf(cs, k).score]
  BY DEF ScoreOf, RowOf
<1>5. ASSUME NEW i \in EligibleAt(cs, N) PROVE ScoreOf(cs)[cs[i].key] = cs[i].score
  <2>1. i \in N /\ cs[i].key \in Eligible(cs)
    BY <1>3 DEF EligibleAt
  <2> QED BY <1>2, <1>4, <2>1
<1> QED BY <1>2, <1>3, <1>4, <1>5

RankIn(cs, c) ==
  IF c.status = "ELIGIBLE"
  THEN Cardinality({ScoreOf(cs)[k] : k \in {k \in Eligible(cs) : ScoreOf(cs)[k] > c.score}}) + 1
  ELSE Unknown

IsRanked(c, s, o, p, rank) == c = [Candidate(s, o, p) EXCEPT !.rank = rank]

LEMMA RankedRow ==
  ASSUME NEW s, NEW o, NEW p, NEW rank, NEW c, IsRanked(c, s, o, p, rank)
  PROVE  RowParts(c, s, o, p) /\ c.rank = rank
<1> DEFINE d == Candidate(s, o, p)
           parts == {"key", "status", "costs", "constraints", "criteria", "source", "score", "assignments"}
<1>1. DOMAIN d = parts \cup {"rank"}
  BY DEF Candidate, Priced, Judged
<1>2. RowParts(d, s, o, p)
  BY CandidateIs
<1> HIDE DEF d
<1>3. c.rank = rank /\ \A f \in parts : c[f] = d[f]
  BY <1>1 DEF d, IsRanked
<1>4. /\ c.key = d.key /\ c.status = d.status /\ c.costs = d.costs /\ c.constraints = d.constraints
      /\ c.criteria = d.criteria /\ c.source = d.source /\ c.score = d.score
      /\ c.assignments = d.assignments
  BY <1>3
<1>5. RowParts(c, s, o, p)
  BY <1>2, <1>4 DEF RowParts
<1> QED BY <1>3, <1>5

(* The candidates of a draft, one for each plan in the catalog's order.    *)
LEMMA CandidatesAre ==
  ASSUME NEW s, NEW o, NEW N, N = DOMAIN Catalog.plans, NEW cs, cs = Draft(s, o).candidates
  PROVE  /\ Table(cs, N)
         /\ \A i \in N : RowParts(cs[i], s, o, Catalog.plans[i]) /\ cs[i].rank = RankIn(cs, cs[i])
<1> DEFINE row == [i \in N |-> Row(s, o, i)]
           rank(i) == RankIn(row, row[i])
<1>1. cs = Ranked(row)
  BY DEF Draft, Concluded, Row
<1>2. Ranked(row) = [i \in N |-> [row[i] EXCEPT !.rank = rank(i)]]
  BY DEF Ranked, RankIn
<1>3. \A i \in N : row[i] = Candidate(s, o, Catalog.plans[i])
  BY DEF Row
<1>4. DOMAIN row = N
  OBVIOUS
<1> HIDE DEF row, rank
<1>5. DOMAIN cs = N /\ \A i \in N : cs[i] = [Candidate(s, o, Catalog.plans[i]) EXCEPT !.rank = rank(i)]
  BY <1>1, <1>2, <1>3
<1>6. \A i \in N : RowParts(cs[i], s, o, Catalog.plans[i]) /\ cs[i].rank = rank(i)
  <2>1. ASSUME NEW i \in N PROVE RowParts(cs[i], s, o, Catalog.plans[i]) /\ cs[i].rank = rank(i)
    <3> DEFINE a == cs[i]
               p == Catalog.plans[i]
               r == rank(i)
    <3>1. IsRanked(a, s, o, p, r)
      BY <1>5 DEF IsRanked
    <3> HIDE DEF a, p, r
    <3>2. RowParts(a, s, o, p) /\ a.rank = r
      BY <3>1, RankedRow
    <3> QED BY <3>2 DEF a, p, r
  <2> QED BY <2>1
<1>7. \A i \in N : RowParts(row[i], s, o, Catalog.plans[i])
  BY <1>3, CandidateIs
<1>8. \A i \in N : /\ cs[i].key = row[i].key /\ cs[i].key = Catalog.plans[i].key
                   /\ cs[i].status = row[i].status /\ cs[i].score = row[i].score
  <2>1. ASSUME NEW i \in N
        PROVE  /\ cs[i].key = row[i].key /\ cs[i].key = Catalog.plans[i].key
               /\ cs[i].status = row[i].status /\ cs[i].score = row[i].score
    <3> DEFINE a == cs[i]
               b == row[i]
               p == Catalog.plans[i]
    <3>1. RowParts(a, s, o, p) /\ RowParts(b, s, o, p)
      BY <1>6, <1>7
    <3> HIDE DEF a, b, p
    <3>2. /\ a.key = p.key /\ b.key = p.key /\ a.constraints = b.constraints
          /\ a.criteria = b.criteria
      BY <3>1 DEF RowParts
    <3>3. a.status = b.status
      BY <3>1, <3>2 DEF RowParts
    <3>4. a.score = b.score
      BY <3>1, <3>2, <3>3 DEF RowParts
    <3> QED BY <3>2, <3>3, <3>4 DEF a, b, p
  <2> QED BY <2>1
<1>9. \A i, j \in N : Catalog.plans[i].key = Catalog.plans[j].key => i = j
  BY CatalogAssumption
<1>10. Table(cs, N) /\ Table(row, N)
  <2>1. DOMAIN cs = N /\ DOMAIN row = N
    BY <1>4, <1>5
  <2>2. ASSUME NEW i \in N, NEW j \in N
        PROVE  /\ cs[i].key = cs[j].key => i = j
               /\ row[i].key = row[j].key => i = j
    <3>1. /\ cs[i].key = Catalog.plans[i].key /\ cs[j].key = Catalog.plans[j].key
          /\ cs[i].key = row[i].key /\ cs[j].key = row[j].key
      BY <1>8
    <3> QED BY <1>9, <3>1
  <2> QED BY <2>1, <2>2 DEF Table
<1>11. EligibleAt(cs, N) = EligibleAt(row, N)
  BY <1>8 DEF EligibleAt
<1>12. Eligible(cs) = Eligible(row)
  <2>1. /\ Eligible(cs) = {cs[i].key : i \in EligibleAt(cs, N)}
        /\ Eligible(row) = {row[i].key : i \in EligibleAt(row, N)}
    BY <1>10, TableIs
  <2>2. EligibleAt(row, N) \subseteq N
    BY DEF EligibleAt
  <2> QED BY <1>8, <1>11, <2>1, <2>2
<1>13. ScoreOf(cs) = ScoreOf(row)
  <2>1. /\ ScoreOf(cs) = [k \in Eligible(cs) |-> RowOf(cs, k).score]
        /\ ScoreOf(row) = [k \in Eligible(row) |-> RowOf(row, k).score]
    BY <1>10, TableIs
  <2>2. ASSUME NEW k \in Eligible(cs) PROVE RowOf(cs, k).score = RowOf(row, k).score
    <3>1. PICK i \in N : k = cs[i].key
      BY <1>10, TableIs DEF EligibleAt
    <3>2. RowOf(cs, k) = cs[i] /\ RowOf(row, k) = row[i]
      BY <1>8, <1>10, <3>1, TableIs
    <3> QED BY <1>8, <3>2
  <2> QED BY <1>12, <2>1, <2>2
<1>14. \A i \in N : rank(i) = RankIn(cs, cs[i])
  <2>1. ASSUME NEW i \in N PROVE rank(i) = RankIn(cs, cs[i])
    <3>1. cs[i].status = row[i].status /\ cs[i].score = row[i].score
      BY <1>8
    <3>2. rank(i) = RankIn(row, row[i])
      BY DEF rank
    <3> DEFINE a == cs[i]
               b == row[i]
               S == Eligible(cs)
               f == ScoreOf(cs)
    <3>3. /\ RankIn(cs, a) = IF a.status = "ELIGIBLE"
               THEN Cardinality({f[k] : k \in {k \in S : f[k] > a.score}}) + 1 ELSE Unknown
          /\ RankIn(row, b) = IF b.status = "ELIGIBLE"
               THEN Cardinality({f[k] : k \in {k \in S : f[k] > b.score}}) + 1 ELSE Unknown
      BY <1>12, <1>13 DEF RankIn
    <3>4. a.status = b.status /\ a.score = b.score
      BY <3>1
    <3> HIDE DEF a, b, S, f
    <3>5. RankIn(cs, a) = RankIn(row, b)
      BY <3>3, <3>4
    <3> QED BY <3>2, <3>5 DEF a, b
  <2> QED BY <2>1
<1> QED BY <1>6, <1>10, <1>14
-------------------------------------------------------------------------------
(* The two tables are the same, and so are the ranks.                      *)

(* What the verifier expects of every plan, and of one of them.            *)
AllExpected(s, o) == {Verifier!Expected(s, o, k) : k \in Verifier!Keys}
PlanIn(E, k) == CHOOSE e \in E : e.key = k

MatchedRow(c, e) ==
  /\ e.key = c.key /\ e.status = c.status /\ e.score = c.score /\ e.criteria = c.criteria
  /\ c.key \in KeySet /\ c.key \in Verifier!Keys
  /\ c.score \in IF c.status = "ELIGIBLE" THEN Nat ELSE {Unknown}
  /\ c.criteria \in [GroupSet -> Known]
Matched(cs, N, E) ==
  /\ \A i \in N : MatchedRow(cs[i], PlanIn(E, cs[i].key)) /\ PlanIn(E, cs[i].key) \in E
  /\ \A e \in E : \E i \in N : e = PlanIn(E, cs[i].key)

LEMMA OfIs ==
  ASSUME NEW s, NEW o, NEW k \in Verifier!Keys
  PROVE  /\ PlanIn(AllExpected(s, o), k) = Verifier!Expected(s, o, k)
         /\ Verifier!Expected(s, o, k) \in AllExpected(s, o)
<1>1. \A x : Verifier!Expected(s, o, x).key = x
  BY DEF Verifier!Expected
<1>2. Verifier!Expected(s, o, k) \in AllExpected(s, o)
      /\ \A e \in AllExpected(s, o) : e.key = k => e = Verifier!Expected(s, o, k)
  BY <1>1 DEF AllExpected
<1> QED BY <1>1, <1>2 DEF PlanIn

(* Every row of the draft passes the verifier's checks of a single row,    *)
(* and each expected plan has its row.                                     *)
LEMMA RowsMatch ==
  ASSUME NEW s \in ScenarioInputs, NEW o \in OptionInputs, NEW N, N = DOMAIN Catalog.plans,
         NEW cs, cs = Draft(s, o).candidates, NEW E, E = AllExpected(s, o)
  PROVE  /\ Matched(cs, N, E)
         /\ \A i \in N : /\ cs[i].key = Catalog.plans[i].key
                         /\ Verifier!CandidateHolds(s, cs[i], PlanIn(E, cs[i].key))
<1>1. \A i \in N : RowParts(cs[i], s, o, Catalog.plans[i])
  BY CandidatesAre
<1>2. ASSUME NEW i \in N
      PROVE  /\ cs[i].key = Catalog.plans[i].key
             /\ PlanIn(E, cs[i].key) = Verifier!Expected(s, o, Catalog.plans[i].key)
             /\ Verifier!CandidateHolds(s, cs[i], PlanIn(E, cs[i].key))
             /\ MatchedRow(cs[i], PlanIn(E, cs[i].key)) /\ PlanIn(E, cs[i].key) \in E
  <2> DEFINE c == cs[i]
             p == Catalog.plans[i]
             k == p.key
             e == Verifier!Expected(s, o, k)
  <2>1. p \in CatalogPlans /\ k \in Verifier!Keys /\ Verifier!PlanOf(k) = p /\ i \in DOMAIN Catalog.plans
    BY PlanIs
  <2>2. RowParts(c, s, o, p)
    BY <1>1
  <2> HIDE DEF c, e
  <2>3. /\ Verifier!CandidateHolds(s, c, e)
        /\ e.key = c.key /\ e.status = c.status /\ e.score = c.score /\ e.criteria = c.criteria
    BY <2>1, <2>2, CandidateExact DEF e
  <2> HIDE DEF p
  <2>4. c.key = k /\ PlanIn(E, k) = e /\ e \in E
    BY <2>1, <2>2, OfIs DEF RowParts, e
  <2>5. k \in KeySet
    BY <2>1 DEF CatalogPlans, KeySet
  <2>6. c.criteria \in [GroupSet -> Known]
    <3> DEFINE costs == Costs(s, p, o.horizon)
               lines == Lines(s, p, o.horizon)
    <3>1. o.horizon \in Nat \ {0}
      BY OptionNumbers
    <3>2. costs.tco \in Known
      <4>1. costs = Summed(lines, o.horizon)
        BY DEF Costs
      <4>2. lines \in Seq(LineRows)
        BY <2>1, <3>1, LinesExact
      <4> HIDE DEF costs, lines
      <4> QED BY <3>1, <4>1, <4>2, TcoType
    <3>3. c.criteria = Criteria(s, p, costs, o.horizon)
      BY <2>2 DEF RowParts
    <3> HIDE DEF costs
    <3> QED BY <2>1, <3>1, <3>2, <3>3, EngineCriteriaType
  <2>7. c.score \in IF c.status = "ELIGIBLE" THEN Nat ELSE {Unknown}
    <3>1. c.status # "ELIGIBLE" => c.score = Unknown
      BY <2>2 DEF RowParts
    <3>2. c.status = "ELIGIBLE" => e.score \in Nat
      BY <2>1, <2>3, EligibleMeans DEF e
    <3> QED BY <2>3, <3>1, <3>2
  <2>8. MatchedRow(c, e)
    BY <2>1, <2>3, <2>4, <2>5, <2>6, <2>7 DEF MatchedRow
  <2> QED BY <2>3, <2>4, <2>8 DEF c, e, p
<1>3. ASSUME NEW e \in E PROVE \E i \in N : e = PlanIn(E, cs[i].key)
  <2>1. PICK k \in Verifier!Keys : e = Verifier!Expected(s, o, k)
    BY DEF AllExpected
  <2>2. PICK i \in N : Catalog.plans[i].key = k
    BY <2>1 DEF Verifier!Keys
  <2> QED BY <1>2, <2>1, <2>2
<1>4. Matched(cs, N, E)
  BY <1>2, <1>3 DEF Matched
<1> QED BY <1>2, <1>4

(* The tables of the two sides are the same table.                         *)
LEMMA TablesSame ==
  ASSUME NEW N, NEW cs, Table(cs, N), NEW E, Matched(cs, N, E)
  PROVE  /\ {e.key : e \in {x \in E : x.status = "ELIGIBLE"}} = Eligible(cs)
         /\ (\E e \in E : e.status = "INDETERMINATE") <=> Incomplete(cs)
         /\ \A k \in Eligible(cs) : /\ PlanIn(E, k).score = ScoreOf(cs)[k]
                                    /\ PlanIn(E, k).criteria = RowOf(cs, k).criteria
                                    /\ ScoreOf(cs)[k] \in Nat
                                    /\ RowOf(cs, k).criteria \in [GroupSet -> Known]
         /\ Scored(Eligible(cs), ScoreOf(cs))
<1>1. /\ \A i \in N : MatchedRow(cs[i], PlanIn(E, cs[i].key)) /\ PlanIn(E, cs[i].key) \in E
      /\ \A e \in E : \E i \in N : e = PlanIn(E, cs[i].key)
  BY DEF Matched
<1>2. /\ DOMAIN cs = N /\ \A i \in N : RowOf(cs, cs[i].key) = cs[i]
      /\ Eligible(cs) = {cs[i].key : i \in EligibleAt(cs, N)}
      /\ ScoreOf(cs) = [k \in Eligible(cs) |-> RowOf(cs, k).score]
  BY TableIs DEF Table
<1>3. ASSUME NEW i \in N
      PROVE  PlanIn(E, cs[i].key).key = cs[i].key /\ PlanIn(E, cs[i].key).status = cs[i].status
  BY <1>1 DEF MatchedRow
<1>4. {e.key : e \in {x \in E : x.status = "ELIGIBLE"}} = Eligible(cs)
  <2> DEFINE T == {e.key : e \in {x \in E : x.status = "ELIGIBLE"}}
  <2>1. ASSUME NEW e \in E, e.status = "ELIGIBLE" PROVE e.key \in Eligible(cs)
    <3>1. PICK i \in N : e = PlanIn(E, cs[i].key)
      BY <1>1
    <3>2. e.key = cs[i].key /\ cs[i].status = "ELIGIBLE"
      BY <1>3, <2>1, <3>1
    <3> QED BY <1>2, <3>2 DEF EligibleAt
  <2>2. ASSUME NEW i \in EligibleAt(cs, N) PROVE cs[i].key \in T
    <3>1. i \in N /\ cs[i].status = "ELIGIBLE"
      BY DEF EligibleAt
    <3>2. PlanIn(E, cs[i].key) \in E /\ PlanIn(E, cs[i].key).key = cs[i].key
          /\ PlanIn(E, cs[i].key).status = "ELIGIBLE"
      BY <1>1, <1>3, <3>1
    <3> QED BY <3>2
  <2> QED BY <1>2, <2>1, <2>2
<1>5. (\E e \in E : e.status = "INDETERMINATE") <=> Incomplete(cs)
  <2>1. (\E e \in E : e.status = "INDETERMINATE") <=> \E i \in N : cs[i].status = "INDETERMINATE"
    BY <1>1, <1>3
  <2> QED BY <1>2, <2>1 DEF Incomplete
<1>6. ASSUME NEW k \in Eligible(cs)
      PROVE  /\ PlanIn(E, k).score = ScoreOf(cs)[k] /\ PlanIn(E, k).criteria = RowOf(cs, k).criteria
             /\ ScoreOf(cs)[k] \in Nat /\ RowOf(cs, k).criteria \in [GroupSet -> Known]
             /\ k \in KeySet /\ k \in Verifier!Keys
  <2>1. PICK i \in N : k = cs[i].key /\ cs[i].status = "ELIGIBLE"
    BY <1>2 DEF EligibleAt
  <2>2. RowOf(cs, k) = cs[i] /\ ScoreOf(cs)[k] = cs[i].score
    BY <1>2, <2>1
  <2>3. MatchedRow(cs[i], PlanIn(E, k))
    BY <1>1, <2>1
  <2> QED BY <2>1, <2>2, <2>3 DEF MatchedRow
<1>7. Scored(Eligible(cs), ScoreOf(cs))
  <2>1. IsFiniteSet(Eligible(cs))
    BY <1>6, KeysFinite, FS_Subset
  <2> QED BY <1>6, <2>1 DEF Scored
<1> QED BY <1>4, <1>5, <1>6, <1>7

ScoresOf(E) == {e.score : e \in E} \ {Unknown}
PlaceOf(E, m) ==
  LET d == Verifier!Descending(ScoresOf(E)) IN CHOOSE i \in DOMAIN d : d[i] = m

LEMMA RankHoldsIs ==
  ASSUME NEW c, NEW E
  PROVE  Verifier!RankHolds(c, E) <=>
           c.rank = IF PlanIn(E, c.key).score = Unknown THEN Unknown ELSE PlaceOf(E, PlanIn(E, c.key).score)
BY VerifierNames DEF Verifier!RankHolds, PlanIn, PlaceOf, ScoresOf

(* The engine's ranks are the places among the verifier's scores.          *)
LEMMA RankSame ==
  ASSUME NEW N, NEW cs, Table(cs, N), NEW E, Matched(cs, N, E),
         NEW i \in N, cs[i].rank = RankIn(cs, cs[i])
  PROVE  Verifier!RankHolds(cs[i], E)
<1> DEFINE c == cs[i]
           f == ScoreOf(cs)
           L == Eligible(cs)
           S == {f[k] : k \in L}
           d == Verifier!Descending(S)
           m == c.score
<1>1. /\ PlanIn(E, c.key) \in E /\ PlanIn(E, c.key).score = m
      /\ m \in IF c.status = "ELIGIBLE" THEN Nat ELSE {Unknown}
  BY DEF Matched, MatchedRow
<1>2. IsFiniteSet(L) /\ \A k \in L : f[k] \in Nat /\ PlanIn(E, k).score = f[k] /\ PlanIn(E, k) \in E
  <2>1. IsFiniteSet(L) /\ \A k \in L : f[k] \in Nat /\ PlanIn(E, k).score = f[k]
    BY TablesSame DEF Scored
  <2>2. \A k \in L : \E j \in N : k = cs[j].key
    BY TableIs DEF EligibleAt
  <2>3. \A k \in L : PlanIn(E, k) \in E
    BY <2>2 DEF Matched
  <2> QED BY <2>1, <2>3
<1>3. Verifier!Unknown = Unknown /\ Unknown \notin Nat
  BY VerifierNames DEF Unknown
<1>4. ScoresOf(E) = S
  <2>1. ASSUME NEW e \in E, e.score # Unknown PROVE e.score \in S
    <3>1. PICK j \in N : e = PlanIn(E, cs[j].key)
      BY DEF Matched
    <3>2. MatchedRow(cs[j], e)
      BY <3>1 DEF Matched
    <3>3. e.score = cs[j].score /\ cs[j].status = "ELIGIBLE"
      BY <2>1, <3>2 DEF MatchedRow
    <3>4. j \in EligibleAt(cs, N)
      BY <3>3 DEF EligibleAt
    <3>5. f[cs[j].key] = cs[j].score /\ cs[j].key \in L
      BY <3>4, TableIs
    <3> QED BY <3>3, <3>5
  <2>2. ASSUME NEW k \in L PROVE f[k] \in {e.score : e \in E} \ {Unknown}
    BY <1>2, <1>3
  <2> QED BY <2>1, <2>2 DEF ScoresOf
<1>5. S \in SUBSET Int /\ IsFiniteSet(S)
  <2>1. IsFiniteSet(S)
    <3> DEFINE g == [k \in L |-> f[k]]
    <3>1. g \in Surjection(L, S)
      BY DEF Surjection
    <3> HIDE DEF L, f, g, S
    <3> QED BY <1>2, <3>1, FS_Surjection
  <2> QED BY <1>2, <2>1
<1>6. CASE c.status # "ELIGIBLE"
  <2>1. m = Unknown /\ c.rank = Unknown
    BY <1>1, <1>6 DEF RankIn
  <2> HIDE DEF c
  <2>2. Verifier!RankHolds(c, E)
    BY <1>1, <2>1, RankHoldsIs
  <2> QED BY <2>2 DEF c
<1>7. CASE c.status = "ELIGIBLE"
  <2>1. m \in S
    <3>1. i \in EligibleAt(cs, N)
      BY <1>7 DEF EligibleAt
    <3>2. f[cs[i].key] = cs[i].score /\ cs[i].key \in L
      BY <3>1, TableIs
    <3> QED BY <3>2
  <2>2. (CHOOSE j \in DOMAIN d : d[j] = m) = Cardinality(Above(S, m)) + 1
    <3> HIDE DEF S, m
    <3> QED BY <1>5, <2>1, PlaceIs
  <2>3. c.rank = Cardinality(Above(S, m)) + 1
    <3>1. {f[k] : k \in {k \in L : f[k] > m}} = Above(S, m)
      BY DEF Above
    <3> QED BY <1>7, <3>1 DEF RankIn
  <2>4. m # Unknown
    BY <1>1, <1>3, <1>7
  <2>5. PlaceOf(E, m) = Cardinality(Above(S, m)) + 1
    <3>1. PlaceOf(E, m) = CHOOSE j \in DOMAIN d : d[j] = m
      BY <1>4 DEF PlaceOf
    <3> QED BY <2>2, <3>1
  <2> HIDE DEF c, d, S
  <2>6. Verifier!RankHolds(c, E)
    BY <1>1, <2>3, <2>4, <2>5, RankHoldsIs DEF m
  <2> QED BY <2>6 DEF c
<1> QED BY <1>6, <1>7
-------------------------------------------------------------------------------
(* Pairs end to end, and changes counted.                                  *)

(* A sequence of n pairs, one after the other.                             *)
PairsUpTo(u, x, y, n, A) ==
  /\ u \in Seq(A) /\ Len(u) = 2 * n
  /\ \A i \in 1..n : u[2 * i - 1] = x[i] /\ u[2 * i] = y[i]

LEMMA PairAppended ==
  ASSUME NEW A, NEW n \in Nat, NEW x, NEW y, NEW u, PairsUpTo(u, x, y, n, A),
         x[n + 1] \in A, y[n + 1] \in A
  PROVE  PairsUpTo(u \o <<x[n + 1], y[n + 1]>>, x, y, n + 1, A)
<1> DEFINE v == <<x[n + 1], y[n + 1]>>
           t == u \o v
<1>1. v \in Seq(A) /\ Len(v) = 2 /\ v[1] = x[n + 1] /\ v[2] = y[n + 1]
  OBVIOUS
<1>2. u \in Seq(A) /\ Len(u) = 2 * n
  BY DEF PairsUpTo
<1> HIDE DEF v
<1>3. t \in Seq(A) /\ Len(t) = 2 * (n + 1)
  <2>1. t \in Seq(A) /\ Len(t) = Len(u) + Len(v)
    BY <1>1, <1>2, ConcatIs
  <2> QED BY <1>1, <1>2, <2>1
<1>4. /\ \A i \in 1..Len(u) : t[i] = u[i]
      /\ \A i \in 1..Len(v) : t[Len(u) + i] = v[i]
  <2>1. u \in Seq(A) /\ v \in Seq(A)
    BY <1>1, <1>2
  <2>2. /\ \A i \in 1..Len(u) : (u \o v)[i] = u[i]
        /\ \A i \in 1..Len(v) : (u \o v)[Len(u) + i] = v[i]
    BY <2>1, ConcatPlaces
  <2> QED BY <2>2
<1> HIDE DEF t
<1>5. ASSUME NEW i \in 1..(n + 1) PROVE t[2 * i - 1] = x[i] /\ t[2 * i] = y[i]
  <2>1. CASE i \in 1..n
    <3>1. 2 * i - 1 \in 1..Len(u) /\ 2 * i \in 1..Len(u)
      BY <1>2, <2>1
    <3>2. u[2 * i - 1] = x[i] /\ u[2 * i] = y[i]
      BY <2>1 DEF PairsUpTo
    <3> QED BY <1>4, <3>1, <3>2
  <2>2. CASE i = n + 1
    <3>1. 2 * i - 1 = Len(u) + 1 /\ 2 * i = Len(u) + 2 /\ 1 \in 1..Len(v) /\ 2 \in 1..Len(v)
      BY <1>1, <1>2, <2>2
    <3>2. t[Len(u) + 1] = v[1] /\ t[Len(u) + 2] = v[2]
      BY <1>4, <3>1
    <3> QED BY <1>1, <2>2, <3>1, <3>2
  <2> QED BY <2>1, <2>2
<1>6. PairsUpTo(t, x, y, n + 1, A)
  BY <1>3, <1>5 DEF PairsUpTo
<1> QED BY <1>6 DEF t, v

(* Five pairs flattened.                                                   *)
LEMMA PairsFlat ==
  ASSUME NEW A, NEW x \in [1..5 -> A], NEW y \in [1..5 -> A]
  PROVE  FlattenSeq([i \in 1..5 |-> <<x[i], y[i]>>])
           = [i \in 1..10 |-> IF i % 2 = 1 THEN x[(i + 1) \div 2] ELSE y[(i + 1) \div 2]]
<1> DEFINE a == [i \in 1..5 |-> <<x[i], y[i]>>]
<1>1. a \in Seq(Seq(A)) /\ Len(a) = 5 /\ \A i \in 1..5 : a[i] = <<x[i], y[i]>>
  <2>1. \A i \in 1..5 : x[i] \in A /\ y[i] \in A
    OBVIOUS
  <2>2. \A i \in 1..5 : <<x[i], y[i]>> \in Seq(A)
    BY <2>1
  <2>3. a \in [1..5 -> Seq(A)]
    BY <2>2
  <2> QED BY <2>3, AsSequence
<1> HIDE DEF a
<1>2. PICK k : IsFlat(a, k) /\ FlattenSeq(a) = k[5]
  <2> DEFINE n == Len(a)
  <2>1. a \in Seq(Seq(A)) /\ n = 5
    BY <1>1
  <2>2. PICK k : IsFlat(a, k) /\ FlattenSeq(a) = k[n]
    <3>1. Len(a) # 0
      BY <2>1
    <3> QED BY <2>1, <3>1, FlattenIs
  <2> QED BY <2>1, <2>2
<1>3. ASSUME NEW i \in 1..5 PROVE k[i] = IF i = 1 THEN a[1] ELSE k[i - 1] \o a[i]
  <2>1. i \in 1..Len(a)
    BY <1>1
  <2> QED BY <1>2, <2>1, FlatStep
<1>4. PairsUpTo(k[1], x, y, 1, A)
  <2> DEFINE v == <<x[1], y[1]>>
  <2>1. k[1] = v
    BY <1>1, <1>3
  <2>2. v \in Seq(A) /\ Len(v) = 2 /\ v[1] = x[1] /\ v[2] = y[1]
    <3>1. x[1] \in A /\ y[1] \in A
      OBVIOUS
    <3> QED BY <3>1
  <2> HIDE DEF v
  <2> QED BY <2>1, <2>2 DEF PairsUpTo
<1>5. ASSUME NEW n \in 1..4, PairsUpTo(k[n], x, y, n, A) PROVE PairsUpTo(k[n + 1], x, y, n + 1, A)
  <2>1. n + 1 \in 1..5 /\ n + 1 # 1 /\ (n + 1) - 1 = n /\ n \in Nat
    OBVIOUS
  <2>2. k[n + 1] = k[n] \o <<x[n + 1], y[n + 1]>>
    BY <1>1, <1>3, <2>1
  <2>3. x[n + 1] \in A /\ y[n + 1] \in A
    BY <2>1
  <2> QED BY <1>5, <2>1, <2>2, <2>3, PairAppended
<1>6. PairsUpTo(k[2], x, y, 2, A)
  BY <1>4, <1>5
<1>7. PairsUpTo(k[3], x, y, 3, A)
  BY <1>5, <1>6
<1>8. PairsUpTo(k[4], x, y, 4, A)
  BY <1>5, <1>7
<1>9. PairsUpTo(k[5], x, y, 5, A)
  BY <1>5, <1>8
<1> DEFINE u == k[5]
           e(i) == IF i % 2 = 1 THEN x[(i + 1) \div 2] ELSE y[(i + 1) \div 2]
<1>10. DOMAIN u = 1..10 /\ u = [i \in 1..10 |-> u[i]]
  <2>1. u \in Seq(A) /\ Len(u) = 10
    BY <1>9 DEF PairsUpTo
  <2> HIDE DEF u
  <2> QED BY <2>1
<1>11. ASSUME NEW i \in 1..10 PROVE u[i] = e(i)
  <2> DEFINE j == (i + 1) \div 2
  <2>1. j \in 1..5 /\ i = IF i % 2 = 1 THEN 2 * j - 1 ELSE 2 * j
    OBVIOUS
  <2>2. u[2 * j - 1] = x[j] /\ u[2 * j] = y[j]
    BY <1>9, <2>1 DEF PairsUpTo
  <2> HIDE DEF u
  <2> QED BY <2>1, <2>2
<1> HIDE DEF e, u
<1>12. u = [i \in 1..10 |-> e(i)]
  BY <1>10, <1>11
<1> QED BY <1>2, <1>12 DEF u, e, a

(* Counting the changed rows is summing ones.                              *)
LEMMA ChangesSame ==
  ASSUME NEW v, IsFiniteSet(DOMAIN v)
  PROVE  Cardinality({i \in DOMAIN v : v[i].changed})
           = Verifier!SumFunction([i \in DOMAIN v |-> IF v[i].changed THEN 1 ELSE 0])
<1> DEFINE S == DOMAIN v
           C == {i \in S : v[i].changed}
           f == [i \in S |-> IF v[i].changed THEN 1 ELSE 0]
           b == [i \in C |-> <<i, 1>>]
<1>1. f \in [S -> Nat]
  OBVIOUS
<1>2. Verifier!SumFunction(f) = Cardinality(Units(f, S))
  <2> HIDE DEF f, S
  <2> QED BY <1>1, SumCounts DEF S
<1>3. Units(f, S) = {<<i, 1>> : i \in C}
  <2>1. ASSUME NEW i \in S PROVE {i} \X (1..f[i]) = IF v[i].changed THEN {<<i, 1>>} ELSE {}
    <3>1. CASE v[i].changed
      <4>1. f[i] = 1 /\ 1..1 = {1}
        BY <3>1
      <4> QED BY <3>1, <4>1
    <3>2. CASE ~v[i].changed
      <4>1. f[i] = 0 /\ 1..0 = {}
        BY <3>2
      <4> QED BY <3>2, <4>1
    <3> QED BY <3>1, <3>2
  <2> HIDE DEF f
  <2> QED BY <2>1 DEF Units
<1>4. b \in Bijection(C, Units(f, S))
  BY <1>3 DEF Bijection, Injection, Surjection, IsInjective
<1>5. IsFiniteSet(C)
  BY FS_Subset
<1>6. Cardinality(C) = Cardinality(Units(f, S))
  <2> HIDE DEF b, C, f
  <2>1. ExistsBijection(C, Units(f, S))
    BY <1>4 DEF ExistsBijection
  <2> QED BY <1>5, <2>1, FS_Bijection
<1> QED BY <1>2, <1>6
-------------------------------------------------------------------------------
(* The verifier's conclusion.                                              *)

(* The verifier's conclusion, in named parts.                              *)
FirstExpected(E, L, w) ==
  Head(Verifier!Ordered(L, [k \in L |-> Verifier!WeightedPoints(PlanIn(E, k).criteria, w)]))
Variation(g, fifths, first, winner) ==
  [group |-> g, fifths |-> fifths, winner |-> first, changed |-> first # winner]
ExpectedVariation(E, L, raw, winner, g, fifths) ==
  Variation(g, fifths, FirstExpected(E, L, Raised(raw, g, fifths)), winner)
ExpectedVariations(E, L, raw, winner) ==
  [i \in 1..10 |-> ExpectedVariation(E, L, raw, winner, Groups[(i + 1) \div 2],
                                     IF i % 2 = 1 THEN 4 ELSE 6)]

Settled(E, L) == L # {} /\ ~\E e \in E : e.status = "INDETERMINATE"
EligibleIn(E) == {e.key : e \in {x \in E : x.status = "ELIGIBLE"}}

Concludes(r, E, L, q, winner, variations) ==
  /\ winner = IF Settled(E, L) THEN Head(q) ELSE "none"
  /\ r.recommended = winner
  /\ r.status = IF \E e \in E : e.status = "INDETERMINATE" THEN "INCOMPLETE"
                ELSE IF L # {} THEN "VERIFIED" ELSE "NO_FEASIBLE_OPTION"
  /\ r.variations = variations
  /\ r.changes = Verifier!SumFunction([i \in DOMAIN variations |->
                                         IF variations[i].changed THEN 1 ELSE 0])
  /\ r.gap = IF Settled(E, L) /\ Len(q) > 1 THEN PlanIn(E, q[1]).score - PlanIn(E, q[2]).score ELSE Unknown

LEMMA ConclusionIs ==
  ASSUME NEW o, NEW r, NEW E, NEW L, L = EligibleIn(E),
         NEW q, q = Verifier!Ordered(L, [k \in L |-> PlanIn(E, k).score]), NEW winner, NEW v,
         v = IF Settled(E, L) THEN ExpectedVariations(E, L, RawWeights(o), winner) ELSE <<>>,
         Concludes(r, E, L, q, winner, v)
  PROVE  Verifier!ConclusionHolds(o, r, E)
<1> DEFINE of(key) == CHOOSE e \in E : e.key = key
           eligible == {e.key : e \in {x \in E : x.status = "ELIGIBLE"}}
           ordered == Verifier!Ordered(eligible, [k \in eligible |-> of(k).score])
           incomplete == \E e \in E : e.status = "INDETERMINATE"
           decided == eligible # {} /\ ~incomplete
           champion == IF decided THEN Head(ordered) ELSE "none"
           raw == Verifier!RawWeights(o)
           variation(g, fifths) ==
             LET varied == [raw EXCEPT ![g] = @ * fifths]
                 w == [h \in Verifier!GroupSet |-> IF h = g THEN varied[h] ELSE 5 * varied[h]]
                 first == Head(Verifier!Ordered(eligible,
                            [k \in eligible |-> Verifier!WeightedPoints(of(k).criteria, w)]))
             IN  [group |-> g, fifths |-> fifths, winner |-> first, changed |-> first # champion]
           variations ==
             IF ~decided THEN <<>>
             ELSE [i \in 1..(2 * Len(Verifier!Groups)) |->
                     variation(Verifier!Groups[(i + 1) \div 2], IF i % 2 = 1 THEN 4 ELSE 6)]
<1>1. /\ eligible = L /\ (decided <=> Settled(E, L)) /\ ordered = q /\ champion = winner
      /\ \A k : of(k) = PlanIn(E, k)
  BY DEF EligibleIn, Settled, PlanIn, Concludes
<1>2. ASSUME NEW g, NEW fifths
      PROVE  variation(g, fifths) = ExpectedVariation(E, L, RawWeights(o), winner, g, fifths)
  <2> DEFINE w == Raised(RawWeights(o), g, fifths)
  <2> DEFINE varied == [raw EXCEPT ![g] = @ * fifths]
             z == [h \in Verifier!GroupSet |-> IF h = g THEN varied[h] ELSE 5 * varied[h]]
             Entry(x) ==
               [group |-> g, fifths |-> fifths,
                winner |-> Head(Verifier!Ordered(eligible,
                               [k \in eligible |-> Verifier!WeightedPoints(of(k).criteria, x)])),
                changed |-> Head(Verifier!Ordered(eligible,
                               [k \in eligible |-> Verifier!WeightedPoints(of(k).criteria, x)])) # champion]
  <2>a. z = w
    <3>1. raw = RawWeights(o) /\ Verifier!GroupSet = GroupSet
      BY VerifierNames
    <3> HIDE DEF raw
    <3> QED BY <3>1 DEF Raised
  <2>b. variation(g, fifths) = Entry(z)
    OBVIOUS
  <2>1. variation(g, fifths)
          = [group |-> g, fifths |-> fifths,
             winner |-> Head(Verifier!Ordered(eligible,
                            [k \in eligible |-> Verifier!WeightedPoints(of(k).criteria, w)])),
             changed |-> Head(Verifier!Ordered(eligible,
                            [k \in eligible |-> Verifier!WeightedPoints(of(k).criteria, w)])) # champion]
    <3> HIDE DEF z, w, variation, eligible, of, champion
    <3> QED BY <2>a, <2>b
  <2> HIDE DEF variation, eligible, of, champion, w
  <2>2. [k \in eligible |-> Verifier!WeightedPoints(of(k).criteria, w)]
        = [k \in L |-> Verifier!WeightedPoints(PlanIn(E, k).criteria, w)]
    BY <1>1
  <2>3. Head(Verifier!Ordered(eligible,
             [k \in eligible |-> Verifier!WeightedPoints(of(k).criteria, w)])) = FirstExpected(E, L, w)
    BY <1>1, <2>2 DEF FirstExpected
  <2> QED BY <1>1, <2>1, <2>3 DEF ExpectedVariation, Variation, w
<1>3. Len(Verifier!Groups) = 5 /\ Verifier!Groups = Groups
  BY VerifierNames DEF Groups
<1>4. variations = v
  <2> HIDE DEF variation, decided
  <2>1. [i \in 1..(2 * Len(Verifier!Groups)) |->
           variation(Verifier!Groups[(i + 1) \div 2], IF i % 2 = 1 THEN 4 ELSE 6)]
        = ExpectedVariations(E, L, RawWeights(o), winner)
    <3>1. 2 * Len(Verifier!Groups) = 10
      BY <1>3
    <3> QED BY <1>2, <1>3, <3>1 DEF ExpectedVariations
  <2> QED BY <1>1, <2>1
<1>5. Verifier!ConclusionHolds(o, r, E) <=>
        /\ r.recommended = champion
        /\ r.status = IF incomplete THEN "INCOMPLETE"
                      ELSE IF eligible # {} THEN "VERIFIED" ELSE "NO_FEASIBLE_OPTION"
        /\ r.variations = variations
        /\ r.changes = Verifier!SumFunction([i \in DOMAIN variations |->
                                               IF variations[i].changed THEN 1 ELSE 0])
        /\ r.gap = IF decided /\ Len(ordered) > 1
                   THEN of(ordered[1]).score - of(ordered[2]).score ELSE Verifier!Unknown
  BY DEF Verifier!ConclusionHolds
<1> HIDE DEF champion, eligible, variations, decided, ordered, of
<1>6. /\ r.recommended = champion
      /\ r.status = IF incomplete THEN "INCOMPLETE"
                    ELSE IF eligible # {} THEN "VERIFIED" ELSE "NO_FEASIBLE_OPTION"
      /\ r.variations = variations
  BY <1>1, <1>4 DEF Concludes
<1>7. r.changes = Verifier!SumFunction([i \in DOMAIN variations |->
                                          IF variations[i].changed THEN 1 ELSE 0])
  BY <1>4 DEF Concludes
<1>8. r.gap = IF decided /\ Len(ordered) > 1
              THEN of(ordered[1]).score - of(ordered[2]).score ELSE Verifier!Unknown
  BY <1>1, VerifierNames DEF Concludes
<1> QED BY <1>5, <1>6, <1>7, <1>8, SMTT(30)
-------------------------------------------------------------------------------
(* The engine's conclusion is the verifier's.                              *)

ChosenOf(cs, w) == Best(Eligible(cs), [k \in Eligible(cs) |-> Weighted(RowOf(cs, k).criteria, w)])

LEMMA FirstSame ==
  ASSUME NEW N, NEW cs, Table(cs, N), NEW E, Matched(cs, N, E), Eligible(cs) # {},
         NEW o \in OptionInputs, NEW g \in GroupSet, NEW fifths \in {4, 6}
  PROVE  ChosenOf(cs, Varied(RawWeights(o), g, fifths))
           = FirstExpected(E, Eligible(cs), Raised(RawWeights(o), g, fifths))
<1> DEFINE L == Eligible(cs)
           w == Varied(RawWeights(o), g, fifths)
           h == [k \in L |-> Weighted(RowOf(cs, k).criteria, w)]
           z == [k \in L |-> Verifier!WeightedPoints(PlanIn(E, k).criteria, w)]
<1>1. w \in [GroupSet -> Nat] /\ w = Raised(RawWeights(o), g, fifths)
  BY VariedIs
<1>2. PICK b \in GroupSet : w[b] > 0
  BY VariedIs
<1> HIDE DEF w
<1>3. ASSUME NEW k \in L
      PROVE  /\ Weighted(RowOf(cs, k).criteria, w) = Verifier!WeightedPoints(PlanIn(E, k).criteria, w)
             /\ Weighted(RowOf(cs, k).criteria, w) \in Nat
  <2> DEFINE q == RowOf(cs, k).criteria
  <2>1. q \in [GroupSet -> Known] /\ PlanIn(E, k).criteria = q
    BY TablesSame
  <2> HIDE DEF q
  <2>2. Weighted(q, w) = Verifier!WeightedPoints(q, w) /\ Verifier!WeightedPoints(q, w) \in Nat
    BY <1>1, <1>2, <2>1, WeightedSame, WeightedType
  <2> QED BY <2>1, <2>2 DEF q
<1>4. h = z /\ \A k \in L : h[k] \in Int
  BY <1>3
<1>5. Scored(L, h)
  <2>1. IsFiniteSet(L) /\ L \subseteq KeySet
    BY TablesSame DEF Scored
  <2> HIDE DEF h, L
  <2> QED BY <1>4, <2>1 DEF Scored
<1>6. Head(Verifier!Ordered(L, h)) = Best(L, h)
  <2> HIDE DEF h
  <2> QED BY <1>5, FirstInOrder
<1>7. ChosenOf(cs, w) = Best(L, h) /\ FirstExpected(E, L, w) = Head(Verifier!Ordered(L, z))
  BY DEF ChosenOf, FirstExpected
<1> HIDE DEF h, z, L
<1>8. ChosenOf(cs, w) = FirstExpected(E, L, Raised(RawWeights(o), g, fifths))
  BY <1>1, <1>4, <1>6, <1>7
<1> QED BY <1>8 DEF L, w

LEMMA VariationsSame ==
  ASSUME NEW N, NEW cs, Table(cs, N), NEW E, Matched(cs, N, E), Eligible(cs) # {},
         NEW o \in OptionInputs, NEW winner
  PROVE  Variations(cs, RawWeights(o), winner)
           = ExpectedVariations(E, Eligible(cs), RawWeights(o), winner)
<1> DEFINE raw == RawWeights(o)
           L == Eligible(cs)
           one(g, fifths) == Variation(g, fifths, ChosenOf(cs, Varied(raw, g, fifths)), winner)
           x == [i \in 1..5 |-> one(Groups[i], 4)]
           y == [i \in 1..5 |-> one(Groups[i], 6)]
           A == {one(Groups[i], n) : i \in 1..5, n \in {4, 6}}
<1>1. DOMAIN Groups = 1..5 /\ \A i \in 1..5 : Groups[i] \in GroupSet
  BY DEF Groups, GroupSet
<1>2. Variations(cs, raw, winner) = FlattenSeq([i \in DOMAIN Groups |-> <<one(Groups[i], 4), one(Groups[i], 6)>>])
  BY DEF Variations, Variation, ChosenOf, RowOf
<1>3. ASSUME NEW g \in GroupSet, NEW fifths \in {4, 6}
      PROVE  one(g, fifths) = ExpectedVariation(E, L, raw, winner, g, fifths)
  BY <1>3, FirstSame DEF ExpectedVariation
<1> HIDE DEF one
<1>4. x \in [1..5 -> A] /\ y \in [1..5 -> A]
  OBVIOUS
<1>5. [i \in DOMAIN Groups |-> <<one(Groups[i], 4), one(Groups[i], 6)>>] = [i \in 1..5 |-> <<x[i], y[i]>>]
  BY <1>1
<1>6. \A i \in 1..5 : x[i] = one(Groups[i], 4) /\ y[i] = one(Groups[i], 6)
  OBVIOUS
<1> HIDE DEF x, y, A
<1>7. Variations(cs, raw, winner)
        = [i \in 1..10 |-> IF i % 2 = 1 THEN x[(i + 1) \div 2] ELSE y[(i + 1) \div 2]]
  BY <1>2, <1>4, <1>5, PairsFlat
<1>8. ASSUME NEW i \in 1..10
      PROVE  (IF i % 2 = 1 THEN x[(i + 1) \div 2] ELSE y[(i + 1) \div 2])
               = ExpectedVariation(E, L, raw, winner, Groups[(i + 1) \div 2], IF i % 2 = 1 THEN 4 ELSE 6)
  <2>1. (i + 1) \div 2 \in 1..5
    OBVIOUS
  <2> DEFINE j == (i + 1) \div 2
  <2> HIDE DEF j
  <2>2. j \in 1..5 /\ Groups[j] \in GroupSet /\ 4 \in {4, 6} /\ 6 \in {4, 6}
    BY <1>1, <2>1 DEF j
  <2>3. /\ x[j] = ExpectedVariation(E, L, raw, winner, Groups[j], 4)
        /\ y[j] = ExpectedVariation(E, L, raw, winner, Groups[j], 6)
    BY <1>3, <1>6, <2>2
  <2> QED BY <2>3 DEF j
<1> QED BY <1>7, <1>8 DEF ExpectedVariations

(* The conclusion of the engine is the verifier's.                         *)
LEMMA ConclusionSame ==
  ASSUME NEW s, NEW o \in OptionInputs, NEW cs, NEW r, r = Concluded(s, o, cs),
         NEW N, Table(cs, N), NEW E, Matched(cs, N, E)
  PROVE  Verifier!ConclusionHolds(o, r, E)
<1> DEFINE L == Eligible(cs)
           f == ScoreOf(cs)
           q == Verifier!Ordered(L, f)
           decided == L # {} /\ ~Incomplete(cs)
           winner == IF decided THEN Best(L, f) ELSE "none"
           v == IF decided THEN Variations(cs, RawWeights(o), winner) ELSE <<>>
<1>1. /\ EligibleIn(E) = L /\ Scored(L, f)
      /\ (\E e \in E : e.status = "INDETERMINATE") <=> Incomplete(cs)
      /\ \A k \in L : PlanIn(E, k).score = f[k]
  BY TablesSame DEF EligibleIn
<1>2. f = [k \in L |-> PlanIn(E, k).score]
  <2>1. f = [k \in L |-> f[k]]
    BY DEF ScoreOf
  <2> HIDE DEF f
  <2> QED BY <1>1, <2>1
<1>3. decided <=> Settled(E, L)
  BY <1>1 DEF Settled
<1>4. /\ r.recommended = winner /\ r.variations = v
      /\ r.status = IF Incomplete(cs) THEN "INCOMPLETE"
                    ELSE IF L # {} THEN "VERIFIED" ELSE "NO_FEASIBLE_OPTION"
      /\ r.changes = Cardinality({i \in DOMAIN v : v[i].changed})
      /\ r.gap = IF decided /\ Cardinality(L) > 1 THEN Gap(cs) ELSE Unknown
  BY DEF Concluded
<1>5. Gap(cs) = f[Best(L, f)] - f[Best(L \ {Best(L, f)}, f)]
  BY DEF Gap
<1> HIDE DEF L, f, winner, v, q, decided
<1>6. v = IF Settled(E, L) THEN ExpectedVariations(E, L, RawWeights(o), winner) ELSE <<>>
  <2>1. ASSUME decided PROVE Variations(cs, RawWeights(o), winner)
                               = ExpectedVariations(E, L, RawWeights(o), winner)
    <3>1. Eligible(cs) # {}
      BY <2>1 DEF decided, L
    <3> QED BY <3>1, VariationsSame DEF L
  <2> QED BY <1>3, <2>1 DEF v
<1>7. winner = IF Settled(E, L) THEN Head(q) ELSE "none"
  <2>1. L # {} => Head(q) = Best(L, f)
    BY <1>1, FirstInOrder DEF q
  <2> QED BY <1>3, <2>1 DEF winner, decided
<1>8. IsFiniteSet(DOMAIN v)
  <2>1. CASE Settled(E, L)
    <3>1. DOMAIN v = 1..10
      BY <1>6, <2>1 DEF ExpectedVariations
    <3> QED BY <3>1, Interval
  <2>2. CASE ~Settled(E, L)
    <3>1. DOMAIN v = {}
      BY <1>6, <2>2
    <3> QED BY <3>1, FS_EmptySet
  <2> QED BY <2>1, <2>2
<1>9. r.changes = Verifier!SumFunction([i \in DOMAIN v |-> IF v[i].changed THEN 1 ELSE 0])
  BY <1>4, <1>8, ChangesSame
<1>10. Len(q) = Cardinality(L)
  <2>1. Cardinality(L) \in Nat
    BY <1>1, FS_CardinalityType DEF Scored
  <2>2. q = [i \in 1..Cardinality(L) |-> CHOOSE a \in L : Cardinality(Better(L, f, a)) = i - 1]
    BY OrderedIs DEF q
  <2> QED BY <2>1, <2>2
<1>11. ASSUME Cardinality(L) > 1
       PROVE  PlanIn(E, q[1]).score = f[Best(L, f)] /\ PlanIn(E, q[2]).score = f[Best(L \ {Best(L, f)}, f)]
  <2> DEFINE a == Best(L, f)
             T == L \ {a}
             b == Best(T, f)
  <2>1. L # {} /\ Cardinality(L) \in Nat
    BY <1>1, <1>11, FS_EmptySet, FS_CardinalityType DEF Scored
  <2>2. a \in L /\ q[1] = a
    BY <1>1, <2>1, BestIs, FirstInOrder DEF q
  <2>3. q[2] = b
    BY <1>1, <1>11, SecondInOrder DEF q
  <2>4. Scored(T, f) /\ T # {}
    <3> HIDE DEF a
    <3>1. IsFiniteSet(T)
      BY <1>1, FS_Subset DEF Scored
    <3>2. L = {a} => Cardinality(L) = 1
      BY FS_Singleton
    <3>3. T # {}
      BY <1>11, <2>1, <2>2, <3>2
    <3> QED BY <1>1, <3>1, <3>3 DEF Scored
  <2>5. b \in L
    <3> HIDE DEF T
    <3>1. b \in T
      BY <2>4, BestIs
    <3> QED BY <3>1 DEF T
  <2> HIDE DEF a, b
  <2>6. PlanIn(E, q[1]).score = f[a] /\ PlanIn(E, q[2]).score = f[b]
    BY <1>1, <2>2, <2>3, <2>5
  <2> QED BY <2>6 DEF a, b
<1>12. r.gap = IF Settled(E, L) /\ Len(q) > 1
               THEN PlanIn(E, q[1]).score - PlanIn(E, q[2]).score ELSE Unknown
  BY <1>3, <1>4, <1>5, <1>10, <1>11
<1>13. Concludes(r, E, L, q, winner, v)
  BY <1>1, <1>4, <1>7, <1>9, <1>12 DEF Concludes
<1>14. q = Verifier!Ordered(L, [k \in L |-> PlanIn(E, k).score])
  BY <1>2 DEF q
<1> QED BY <1>1, <1>6, <1>13, <1>14, ConclusionIs
-------------------------------------------------------------------------------
(* The verifier accepts every draft.                                       *)

LEMMA KeysExact ==
  ASSUME NEW N, N = DOMAIN Catalog.plans, NEW cs, Table(cs, N),
         \A i \in N : cs[i].key = Catalog.plans[i].key
  PROVE  /\ {c.key : c \in Verifier!ToSet(cs)} = Verifier!Keys
         /\ Len(cs) = Verifier!Cardinality(Verifier!Keys)
         /\ \A c \in Verifier!ToSet(cs) : \E i \in N : c = cs[i]
<1> DEFINE n == Len(Catalog.plans)
           u == [i \in 1..n |-> Catalog.plans[i].key]
<1>1. /\ n \in Nat /\ N = 1..n
      /\ \A i, j \in 1..n : Catalog.plans[i].key = Catalog.plans[j].key => i = j
  BY CatalogAssumption
<1>2. DOMAIN cs = N /\ Verifier!ToSet(cs) = {cs[i] : i \in N}
  BY DEF Table, Verifier!ToSet
<1>3. {c.key : c \in Verifier!ToSet(cs)} = Verifier!Keys
  <2>1. Verifier!Keys = {Catalog.plans[i].key : i \in N}
    BY DEF Verifier!Keys
  <2> QED BY <1>2, <2>1
<1>4. Len(cs) = n
  BY <1>1, <1>2
<1>5. Cardinality(Verifier!Keys) = n
  <2>1. ToSet(u) = Verifier!Keys
    BY <1>1 DEF ToSet, Verifier!Keys
  <2>2. u \in [1..n -> Verifier!Keys]
    BY <1>1 DEF Verifier!Keys
  <2>3. Distinct(u)
    BY <1>1 DEF Distinct
  <2> HIDE DEF u, n
  <2>4. u \in Seq(Verifier!Keys) /\ Len(u) = n
    BY <1>1, <2>2, AsSequence
  <2> QED BY <2>1, <2>3, <2>4, DistinctCounts
<1> QED BY <1>2, <1>3, <1>4, <1>5, VerifierCounts

FromCatalog(id) == [id |-> id, value |-> "catalog"]
PlanEvidence == [i \in DOMAIN Catalog.plans |-> FromCatalog(Catalog.plans[i].key)]
RuleEvidence == <<[id |-> "rules", value |-> "rules"], FromCatalog("storage"),
                  FromCatalog("memory"), FromCatalog("staff")>>

LEMMA EvidenceExact ==
  Verifier!Exactly(Evidence,
    {[id |-> "rules", value |-> "rules"]}
    \cup {[id |-> id, value |-> "catalog"] : id \in {"storage", "memory", "staff"} \cup Verifier!Keys})
<1> DEFINE n == Len(Catalog.plans)
           u == RuleEvidence
           v == PlanEvidence
           rules == [id |-> "rules", value |-> "rules"]
           V == {FromCatalog(k) : k \in Verifier!Keys}
           U == {rules, FromCatalog("storage"), FromCatalog("memory"), FromCatalog("staff")}
           A == U \cup V
<1>1. /\ n \in Nat /\ DOMAIN Catalog.plans = 1..n
      /\ \A i, j \in 1..n : Catalog.plans[i].key = Catalog.plans[j].key => i = j
      /\ \A i \in 1..n : Catalog.plans[i] \in CatalogPlans
  BY CatalogAssumption
<1>2. Evidence = u \o v
  BY DEF Evidence, RuleEvidence, PlanEvidence, FromCatalog
<1>3. \A i \in 1..n : Catalog.plans[i].key \in {"HYBRID", "IAAS", "PAAS", "SAAS"}
  <2>1. {PlanKeys[i] : i \in DOMAIN PlanKeys} = {"HYBRID", "IAAS", "PAAS", "SAAS"}
    <3>1. DOMAIN PlanKeys = 1..4 /\ PlanKeys[1] = "HYBRID" /\ PlanKeys[2] = "IAAS"
          /\ PlanKeys[3] = "PAAS" /\ PlanKeys[4] = "SAAS"
      BY DEF PlanKeys
    <3>2. 1..4 = {1, 2, 3, 4}
      OBVIOUS
    <3> HIDE DEF PlanKeys
    <3> QED BY <3>1, <3>2
  <2> QED BY <1>1, <2>1 DEF CatalogPlans
<1>4. u \in Seq(A) /\ Distinct(u) /\ ToSet(u) = U
  <2>1. DOMAIN u = 1..4 /\ Len(u) = 4 /\ u[1] = rules /\ u[2] = FromCatalog("storage")
        /\ u[3] = FromCatalog("memory") /\ u[4] = FromCatalog("staff")
    BY DEF RuleEvidence
  <2>2. /\ rules.id = "rules" /\ FromCatalog("storage").id = "storage"
        /\ FromCatalog("memory").id = "memory" /\ FromCatalog("staff").id = "staff"
    BY DEF FromCatalog
  <2>3. 1..4 = {1, 2, 3, 4}
    OBVIOUS
  <2>4. u \in Seq(A)
    BY DEF RuleEvidence
  <2> HIDE DEF u
  <2>5. Distinct(u)
    BY <2>1, <2>2, <2>3 DEF Distinct
  <2>6. ToSet(u) = U
    BY <2>1, <2>3 DEF ToSet
  <2> QED BY <2>4, <2>5, <2>6
<1>5. v \in Seq(A) /\ Distinct(v) /\ ToSet(v) = V
  <2>1. DOMAIN v = 1..n /\ v = [i \in 1..n |-> v[i]]
        /\ \A i \in 1..n : v[i] = FromCatalog(Catalog.plans[i].key)
    BY <1>1 DEF PlanEvidence
  <2>2. \A i \in 1..n : v[i].id = Catalog.plans[i].key /\ v[i] \in V
    <3>1. \A i \in 1..n : Catalog.plans[i].key \in Verifier!Keys
      BY <1>1 DEF Verifier!Keys
    <3>2. \A k : FromCatalog(k).id = k
      BY DEF FromCatalog
    <3> HIDE DEF v, n
    <3> QED BY <2>1, <3>1, <3>2
  <2> HIDE DEF v, n
  <2>3. v \in [1..n -> A]
    BY <2>1, <2>2
  <2>4. Distinct(v)
    BY <1>1, <2>1, <2>2 DEF Distinct
  <2>5. ToSet(v) = V
    BY <1>1, <2>1 DEF ToSet, Verifier!Keys
  <2>6. v \in Seq(A)
    <3> HIDE DEF A
    <3> QED BY <1>1, <2>3, AsSequence
  <2> QED BY <2>4, <2>5, <2>6
<1>6. ToSet(u) \cap ToSet(v) = {}
  <2>1. \A x \in U : x.id \in {"rules", "storage", "memory", "staff"}
    BY DEF FromCatalog
  <2>2. \A x \in V : x.id \in {"HYBRID", "IAAS", "PAAS", "SAAS"}
    BY <1>1, <1>3 DEF FromCatalog, Verifier!Keys
  <2>3. {"rules", "storage", "memory", "staff"} \cap {"HYBRID", "IAAS", "PAAS", "SAAS"} = {}
    OBVIOUS
  <2> HIDE DEF u, v, U, V
  <2> QED BY <1>4, <1>5, <2>1, <2>2, <2>3
<1> HIDE DEF u, v
<1>7. u \o v \in Seq(A) /\ Distinct(u \o v) /\ ToSet(u \o v) = U \cup V
  <2> HIDE DEF A, U, V
  <2>1. Distinct(u \o v)
    BY <1>4, <1>5, <1>6, ConcatDistinct
  <2>2. u \o v \in Seq(A) /\ ToSet(u \o v) = ToSet(u) \cup ToSet(v)
    BY <1>4, <1>5, ConcatIs
  <2> QED BY <1>4, <1>5, <2>1, <2>2
<1>8. U \cup V = {rules} \cup {[id |-> id, value |-> "catalog"]
                               : id \in {"storage", "memory", "staff"} \cup Verifier!Keys}
  BY DEF FromCatalog
<1>9. Verifier!Exactly(u \o v, U \cup V)
  <2> HIDE DEF A, U, V
  <2> QED BY <1>7, DistinctCounts
<1> QED BY <1>2, <1>8, <1>9

(* The verifier refuses no draft of the engine.                            *)
LEMMA DraftAccepted ==
  ASSUME NEW s \in ScenarioInputs, NEW o \in OptionInputs
  PROVE  Verifier!Valid(s, o, Draft(s, o))
<1> DEFINE r == Draft(s, o)
           cs == r.candidates
           N == DOMAIN Catalog.plans
           E == AllExpected(s, o)
           row == [i \in N |-> Candidate(s, o, Catalog.plans[i])]
<1>1. r = Concluded(s, o, Ranked(row))
  BY DEF Draft
<1>2. /\ cs = Ranked(row) /\ r.weights = RawWeights(o) /\ r.horizon = o.horizon
      /\ r.version = Catalog.version /\ r.inputs.scenario = s /\ r.inputs.options = o
      /\ r.evidence = Evidence
  <2> DEFINE t == Ranked(row)
  <2> HIDE DEF t, r
  <2>1. r = Concluded(s, o, t)
    BY <1>1 DEF t
  <2> QED BY <2>1 DEF Concluded, t
<1> HIDE DEF r, row
<1>3. /\ Table(cs, N)
      /\ \A i \in N : RowParts(cs[i], s, o, Catalog.plans[i]) /\ cs[i].rank = RankIn(cs, cs[i])
  BY CandidatesAre DEF r
<1>4. /\ Matched(cs, N, E)
      /\ \A i \in N : /\ cs[i].key = Catalog.plans[i].key
                      /\ Verifier!CandidateHolds(s, cs[i], PlanIn(E, cs[i].key))
  BY RowsMatch DEF r
<1>5. /\ {c.key : c \in Verifier!ToSet(cs)} = Verifier!Keys
      /\ Len(cs) = Verifier!Cardinality(Verifier!Keys)
      /\ \A c \in Verifier!ToSet(cs) : \E i \in N : c = cs[i]
  BY <1>3, <1>4, KeysExact
<1>6. r = Concluded(s, o, cs)
  BY <1>1, <1>2
<1> HIDE DEF cs, E, N
<1>7. Verifier!ConclusionHolds(o, r, E)
  BY <1>3, <1>4, <1>6, ConclusionSame
<1>8. \A i \in N : Verifier!RankHolds(cs[i], E)
  BY <1>3, <1>4, RankSame
<1>9. Verifier!BoundToRequest(o, r)
  BY <1>2, VerifierNames DEF Verifier!BoundToRequest
<1>10. Verifier!EvidenceHolds(s, o, r)
  BY <1>2, EvidenceExact DEF Verifier!EvidenceHolds
<1>11. \A c \in Verifier!ToSet(cs) :
         Verifier!CandidateHolds(s, c, CHOOSE e \in E : e.key = c.key) /\ Verifier!RankHolds(c, E)
  BY <1>4, <1>5, <1>8 DEF PlanIn
<1>12. Verifier!Valid(s, o, r)
  BY <1>5, <1>7, <1>9, <1>10, <1>11 DEF Verifier!Valid, cs, E, AllExpected
<1> QED BY <1>12 DEF r

(* Two independent computations agree: for every catalog, every scenario   *)
(* and all options the request's validation lets through, the verifier     *)
(* (decisions/verifier.py, verify) refuses no draft of the engine          *)
(* (decisions/engine.py, evaluate).                                        *)
THEOREM EngineIsAccepted == DecisionSpec => []EngineAccepted
<1>1. DecisionInv => EngineAccepted
  BY DraftAccepted DEF DecisionInv, EngineAccepted
<1> QED BY <1>1, DecisionInvariance, PTL
-------------------------------------------------------------------------------
(* What the verifier accepts is the answer of the engine.                  *)

LEMMA ExactlyOnce ==
  ASSUME NEW u, NEW v, NEW S, Verifier!Exactly(u, S), Verifier!Exactly(v, S)
  PROVE  SameRows(u, v)
BY DEF Verifier!Exactly, Verifier!ToSet, ToSet, SameRows

LEMMA AcceptedRow ==
  ASSUME NEW s, NEW e, DOMAIN e.sums = SumFields, NEW c, NEW d, c.key = d.key, c.rank = d.rank,
         Verifier!CandidateHolds(s, c, e), Verifier!CandidateHolds(s, d, e)
  PROVE  SameCandidate(c, d)
<1>1. /\ Verifier!CostsHold(c, e) /\ Verifier!ConstraintsHold(c, e) /\ Verifier!AssignmentsHold(s, c)
      /\ c.criteria = e.criteria /\ c.status = e.status /\ c.score = e.score /\ c.source = c.key
  BY DEF Verifier!CandidateHolds
<1>2. /\ Verifier!CostsHold(d, e) /\ Verifier!ConstraintsHold(d, e) /\ Verifier!AssignmentsHold(s, d)
      /\ d.criteria = e.criteria /\ d.status = e.status /\ d.score = e.score /\ d.source = d.key
  BY DEF Verifier!CandidateHolds
<1>3. SameRows(c.costs.lines, d.costs.lines)
  BY <1>1, <1>2, ExactlyOnce DEF Verifier!CostsHold
<1>4. \A f \in SumFields : c.costs[f] = d.costs[f]
  BY <1>1, <1>2 DEF Verifier!CostsHold
<1>5. SameRows(c.constraints, d.constraints)
  <2> DEFINE S == {[key |-> x[1], status |-> x[2], source |-> c.key] : x \in e.states}
  <2>1. Verifier!Exactly(c.constraints, S)
    BY <1>1 DEF Verifier!ConstraintsHold
  <2>2. Verifier!Exactly(d.constraints, S)
    BY <1>2 DEF Verifier!ConstraintsHold
  <2> HIDE DEF S
  <2> QED BY <2>1, <2>2, ExactlyOnce
<1>6. SameRows(c.assignments, d.assignments)
  <2> DEFINE parts == IF c.key = "HYBRID" THEN <<Verifier!PlanOf(c.key).model, "cloud backup">>
                      ELSE <<Verifier!PlanOf(c.key).model>>
             S == {[key |-> w.key, components |-> parts, source |-> c.key] : w \in Verifier!Workloads(s)}
  <2>1. Verifier!Exactly(c.assignments, S)
    BY <1>1 DEF Verifier!AssignmentsHold
  <2>2. Verifier!Exactly(d.assignments, S)
    BY <1>2 DEF Verifier!AssignmentsHold
  <2> HIDE DEF S
  <2> QED BY <2>1, <2>2, ExactlyOnce
<1>7. \A f \in {"key", "status", "score", "criteria", "rank", "source"} : c[f] = d[f]
  BY <1>1, <1>2
<1> QED BY <1>3, <1>4, <1>5, <1>6, <1>7 DEF SameCandidate, SumFields

(* The verifier accepts one answer only, up to the order of lists.         *)
LEMMA AcceptedAnswer ==
  ASSUME NEW s, NEW o, NEW r, NEW t, Verifier!Valid(s, o, r), Verifier!Valid(s, o, t)
  PROVE  SameAnswer(r, t)
<1> DEFINE E == AllExpected(s, o)
<1>1. \A u : Verifier!ToSet(u) = ToSet(u)
  BY DEF Verifier!ToSet, ToSet
<1>2. ASSUME NEW x, Verifier!Valid(s, o, x)
      PROVE  /\ Verifier!BoundToRequest(o, x) /\ Verifier!EvidenceHolds(s, o, x)
             /\ {c.key : c \in ToSet(x.candidates)} = Verifier!Keys
             /\ Len(x.candidates) = Verifier!Cardinality(Verifier!Keys)
             /\ \A c \in ToSet(x.candidates) :
                  Verifier!CandidateHolds(s, c, PlanIn(E, c.key)) /\ Verifier!RankHolds(c, E)
             /\ Verifier!ConclusionHolds(o, x, E)
  BY <1>1, <1>2, Zenon DEF Verifier!Valid, AllExpected, PlanIn
<1>3. \A k \in Verifier!Keys : DOMAIN PlanIn(E, k).sums = SumFields
  <2> TAKE k \in Verifier!Keys
  <2>1. DOMAIN Verifier!Expected(s, o, k).sums = SumFields
    <3> DEFINE lines == Verifier!ExpectedLines(s, Verifier!PlanOf(k), o.horizon)
    <3>1. Verifier!Expected(s, o, k).sums = Verifier!ExpectedSums(lines, o.horizon)
      BY DEF Verifier!Expected
    <3>2. DOMAIN Verifier!ExpectedSums(lines, o.horizon) = SumFields
      BY SMTT(30) DEF Verifier!ExpectedSums, SumFields
    <3> HIDE DEF lines
    <3> QED BY <3>1, <3>2
  <2> QED BY <2>1, OfIs
<1> HIDE DEF E
<1>4. /\ r.recommended = t.recommended /\ r.status = t.status
      /\ r.variations = t.variations /\ r.changes = t.changes /\ r.gap = t.gap
  <2>1. Verifier!ConclusionHolds(o, r, E) /\ Verifier!ConclusionHolds(o, t, E)
    BY <1>2
  <2> QED BY <2>1 DEF Verifier!ConclusionHolds
<1>5. r.weights = t.weights /\ r.horizon = t.horizon /\ r.version = t.version
  BY <1>2 DEF Verifier!BoundToRequest
<1>6. SameRows(r.evidence, t.evidence) /\ \A f \in {"scenario", "options"} : r.inputs[f] = t.inputs[f]
  BY <1>2, ExactlyOnce DEF Verifier!EvidenceHolds
<1>7. ASSUME NEW c \in ToSet(r.candidates), NEW d \in ToSet(t.candidates), c.key = d.key
      PROVE  SameCandidate(c, d)
  <2>1. c.key \in Verifier!Keys /\ Verifier!RankHolds(c, E) /\ Verifier!RankHolds(d, E)
    BY <1>2
  <2>2. c.rank = d.rank
    BY <1>7, <2>1, RankHoldsIs
  <2> QED BY <1>2, <1>3, <1>7, <2>1, <2>2, AcceptedRow
<1>8. /\ {c.key : c \in ToSet(r.candidates)} = {d.key : d \in ToSet(t.candidates)}
      /\ Len(r.candidates) = Len(t.candidates)
  BY <1>2
<1> QED BY <1>4, <1>5, <1>6, <1>7, <1>8 DEF SameAnswer

(* Whatever the verifier is given, and however often it was changed on its *)
(* way: what verify (decisions/verifier.py) accepts is the engine's answer *)
(* to the same request, up to the order in which its rows are listed, and  *)
(* everything else is stored without a recommendation.                     *)
THEOREM DamageIsRejected == DecisionSpec => []DamageRejected
<1>1. DecisionInv => DamageRejected
  <2> SUFFICES ASSUME DecisionInv, ~SameAnswer(presented, draft)
               PROVE  ~valid /\ Result.recommended = "none" /\ Result.status = "VERIFICATION_FAILED"
    BY DEF DamageRejected
  <2>1. ~Verifier!Valid(scenario, options, presented)
    BY DraftAccepted, AcceptedAnswer DEF DecisionInv
  <2>2. valid = FALSE /\ {"status", "recommended"} \subseteq DOMAIN presented
    BY <2>1 DEF DecisionInv
  <2>3. Result = [presented EXCEPT !.status = "VERIFICATION_FAILED", !.recommended = "none"]
    BY <2>2 DEF Result, Released
  <2> QED BY <2>2, <2>3
<1> QED BY <1>1, DecisionInvariance, PTL
-------------------------------------------------------------------------------
(* The budget. Every stored request counts for one day and is never taken  *)
(* off it, so the reservations of a day are its number of requests times   *)
(* the amount; a call belongs to a stored request and is sent once, so     *)
(* what is sent for a day is bounded by what is reserved for it.           *)

(* The part of the invariant about one request.                            *)
Consistent(n) ==
  /\ day[n] \in Days <=> status[n] # "NONE"
  /\ status[n] = "NONE" => pc[n] = "idle" /\ calls[n] = 0
  /\ pc[n] = "reserved" => calls[n] = 0
  /\ calls[n] <= 1
  /\ pc[n] \in {"calling", "answered"} => calls[n] = 1
  /\ pc[n] = "answered" => output[n] # "none"
  /\ n.kind = "EXPLANATION" /\ pc[n] # "idle" => status[n] = "RESERVED"

LEMMA Regrouped == IInv <=> TypeOK /\ Reservations /\ \A n \in Names : Consistent(n)
BY DEF IInv, Stored, Consistent, TypeOK

LEMMA RegroupedNext == IInv' <=> TypeOK' /\ Reservations' /\ \A n \in Names : Consistent(n)'
BY DEF IInv, Stored, Consistent, TypeOK

(* The requests of a day are finitely many.                                *)
LEMMA DayFinite ==
  ASSUME NEW d
  PROVE  IsFiniteSet(Of(d)) /\ Cardinality(Of(d)) \in Nat
<1>1. Of(d) \in SUBSET Names
  BY DEF Of
<1>2. IsFiniteSet(Of(d))
  BY <1>1, FS_Subset, BudgetAssumption
<1> QED BY <1>2, FS_CardinalityType

(* Steps that neither store a request nor release a reservation.           *)
LEMMA ReservationsKept ==
  ASSUME Reservations, UNCHANGED <<day, reserved>>
  PROVE  Reservations'
BY DEF Reservations, Of

(* The numbers of the constants.                                           *)
LEMMA Numbers ==
  /\ Amount \in Nat /\ Amount > 0 /\ Budget \in Nat /\ LastDay \in Nat /\ LastDay > 0
  /\ PendingLimit \in Nat /\ LeaseTime \in Nat
  /\ MaxAge \in Nat /\ PendingLimit < MaxAge
BY BudgetAssumption DEF MaxAge

LEMMA InitInv == Init => IInv
<1> SUFFICES ASSUME Init PROVE IInv
  OBVIOUS
<1>1. TypeOK
  BY Numbers DEF Init, TypeOK, Statuses, Phases, Outputs, Days
<1>2. Reservations
  <2> SUFFICES ASSUME NEW d \in Days PROVE reserved[d] = Amount * Cardinality(Of(d))
    BY DEF Reservations
  <2>1. Of(d) = {}
    BY DEF Init, Of, Days
  <2>2. Cardinality(Of(d)) = 0
    BY <2>1, FS_EmptySet
  <2> QED BY <2>2, Numbers DEF Init
<1>3. \A n \in Names : Consistent(n)
  BY DEF Init, Consistent, Days
<1> QED BY <1>1, <1>2, <1>3, Regrouped

-------------------------------------------------------------------------------
(* create and plan store a request and reserve its amount for today.       *)
LEMMA ReserveInv ==
  ASSUME IInv, NEW n \in Names, Reserve(n)
  PROVE  IInv'
<1>1. /\ status[n] = "NONE" /\ reserved[today] + Amount <= Budget /\ pc[n] = "idle"
      /\ reserved' = [reserved EXCEPT ![today] = reserved[today] + Amount]
      /\ status' = [status EXCEPT ![n] = "RESERVED"]
      /\ day' = [day EXCEPT ![n] = today]
      /\ age' = [age EXCEPT ![n] = 0]
      /\ pc' = [pc EXCEPT ![n] = "reserved"]
      /\ UNCHANGED <<writers, today, output, calls>>
  BY DEF Reserve, Fresh, Fits
<1>2. today \in Days /\ day[n] \notin Days /\ calls[n] = 0
  BY <1>1, Regrouped DEF Consistent, TypeOK
<1>3. TypeOK'
  <2>1. reserved[today] \in Nat
    BY <1>2, Numbers DEF IInv, TypeOK
  <2>2. reserved[today] + Amount \in 0..Budget
    BY <1>1, <2>1, Numbers
  <2>3. reserved' \in [Days -> 0..Budget]
    BY <1>1, <2>2 DEF IInv, TypeOK
  <2>4. day' \in [Names -> 0..LastDay]
    BY <1>1, <1>2, Numbers DEF IInv, TypeOK, Days
  <2>5. age' \in [Names -> 0..MaxAge]
    BY <1>1, Numbers DEF IInv, TypeOK
  <2> QED BY <1>1, <2>3, <2>4, <2>5 DEF IInv, TypeOK, Statuses, Phases
<1>4. Reservations'
  <2> SUFFICES ASSUME NEW d \in Days PROVE reserved'[d] = Amount * Cardinality(Of(d)')
    BY DEF Reservations
  <2>1. reserved[d] = Amount * Cardinality(Of(d))
    BY DEF IInv, Reservations
  <2>2. CASE d = today
    <3>1. Of(d)' = Of(d) \cup {n} /\ n \notin Of(d)
      BY <1>1, <1>2, <2>2 DEF Of, IInv, TypeOK
    <3>2. Cardinality(Of(d)') = Cardinality(Of(d)) + 1
      BY <3>1, DayFinite, FS_AddElement
    <3>3. Amount * (Cardinality(Of(d)) + 1) = Amount * Cardinality(Of(d)) + Amount
      BY DayFinite, Numbers
    <3> QED BY <1>1, <2>1, <2>2, <3>2, <3>3 DEF IInv, TypeOK
  <2>3. CASE d # today
    <3>1. Of(d)' = Of(d)
      BY <1>1, <1>2, <2>3 DEF Of, IInv, TypeOK
    <3> QED BY <1>1, <2>1, <2>3, <3>1 DEF IInv, TypeOK
  <2> QED BY <2>2, <2>3
<1>5. ASSUME NEW m \in Names PROVE Consistent(m)'
  <2>1. Consistent(m)
    BY Regrouped
  <2>2. CASE m = n
    <3>1. status'[n] = "RESERVED" /\ day'[n] = today /\ age'[n] = 0 /\ pc'[n] = "reserved"
      BY <1>1 DEF IInv, TypeOK
    <3> QED BY <1>1, <1>2, <2>2, <3>1, Numbers DEF Consistent
  <2>3. CASE m # n
    <3>1. status'[m] = status[m] /\ day'[m] = day[m] /\ age'[m] = age[m] /\ pc'[m] = pc[m]
      BY <1>1, <2>3 DEF IInv, TypeOK
    <3> QED BY <1>1, <2>1, <3>1 DEF Consistent
  <2> QED BY <2>2, <2>3
<1> QED BY <1>3, <1>4, <1>5, RegroupedNext

(* The request calls the provider once.                                    *)
LEMMA CallInv ==
  ASSUME IInv, NEW n \in Names, Call(n)
  PROVE  IInv'
<1>1. /\ pc[n] = "reserved" /\ calls' = [calls EXCEPT ![n] = calls[n] + 1]
      /\ pc' = [pc EXCEPT ![n] = "calling"]
      /\ UNCHANGED <<status, day, reserved, writers, age, today, output>>
  BY DEF Call, database
<1>2. calls[n] = 0 /\ status[n] # "NONE"
  BY <1>1, Regrouped DEF Consistent
<1>3. TypeOK'
  BY <1>1 DEF IInv, TypeOK, Phases
<1>4. Reservations'
  BY <1>1, ReservationsKept DEF IInv
<1>5. ASSUME NEW m \in Names PROVE Consistent(m)'
  <2>1. Consistent(m)
    BY Regrouped
  <2>2. CASE m = n
    BY <1>1, <1>2, <2>1, <2>2 DEF Consistent, IInv, TypeOK
  <2>3. CASE m # n
    BY <1>1, <2>1, <2>3 DEF Consistent, IInv, TypeOK
  <2> QED BY <2>2, <2>3
<1> QED BY <1>3, <1>4, <1>5, RegroupedNext

(* The provider answers, refuses, or its time is over.                     *)
LEMMA AnswerInv ==
  ASSUME IInv, NEW n \in Names, Answer(n)
  PROVE  IInv'
<1>1. PICK o \in {"SUCCEEDED", "FAILED"} : output' = [output EXCEPT ![n] = o]
  BY DEF Answer
<1>2. /\ pc[n] = "calling" /\ pc' = [pc EXCEPT ![n] = "answered"]
      /\ UNCHANGED <<status, day, reserved, writers, age, today, calls>>
  BY DEF Answer, database
<1>3. TypeOK'
  BY <1>1, <1>2 DEF IInv, TypeOK, Phases, Outputs
<1>4. Reservations'
  BY <1>2, ReservationsKept DEF IInv
<1>5. ASSUME NEW m \in Names PROVE Consistent(m)'
  <2>1. Consistent(m)
    BY Regrouped
  <2>2. CASE m = n
    BY <1>1, <1>2, <2>1, <2>2 DEF Consistent, IInv, TypeOK
  <2>3. CASE m # n
    BY <1>1, <1>2, <2>1, <2>3 DEF Consistent, IInv, TypeOK
  <2> QED BY <2>2, <2>3
<1> QED BY <1>3, <1>4, <1>5, RegroupedNext

(* An outcome is recorded once, whenever that is.                          *)
LEMMA RecordInv ==
  ASSUME IInv, NEW n \in Names, Record(n)
  PROVE  IInv'
<1>1. /\ pc[n] = "answered" /\ status' = [status EXCEPT ![n] = output[n]]
      /\ pc' = [pc EXCEPT ![n] = "idle"]
      /\ UNCHANGED <<day, reserved, writers, age, today, output, calls>>
  BY DEF Record, Kept
<1>2. output[n] \in {"SUCCEEDED", "FAILED"}
  BY <1>1, Regrouped DEF Consistent, TypeOK, Outputs
<1>3. status[n] # "NONE"
  BY <1>1, Regrouped DEF Consistent
<1>5. TypeOK'
  BY <1>1, <1>2 DEF IInv, TypeOK, Phases, Statuses
<1>6. Reservations'
  BY <1>1, ReservationsKept DEF IInv
<1>7. ASSUME NEW m \in Names PROVE Consistent(m)'
  <2>1. Consistent(m)
    BY Regrouped
  <2>2. CASE m = n
    <3>1. status'[n] \in {"SUCCEEDED", "FAILED"} /\ pc'[n] = "idle"
      BY <1>1, <1>2 DEF IInv, TypeOK
    <3> QED BY <1>1, <1>3, <2>1, <2>2, <3>1 DEF Consistent
  <2>3. CASE m # n
    BY <1>1, <2>1, <2>3 DEF Consistent, IInv, TypeOK
  <2> QED BY <2>2, <2>3
<1> QED BY <1>5, <1>6, <1>7, RegroupedNext

LEMMA LoseInv ==
  ASSUME IInv, NEW n \in Names, Lose(n)
  PROVE  IInv'
<1>1. pc' = [pc EXCEPT ![n] = "idle"]
      /\ UNCHANGED <<status, day, reserved, writers, age, today, output, calls>>
  BY DEF Lose, database
<1>2. TypeOK'
  BY <1>1 DEF IInv, TypeOK, Phases
<1>3. Reservations'
  BY <1>1, ReservationsKept DEF IInv
<1>4. ASSUME NEW m \in Names PROVE Consistent(m)'
  <2>1. Consistent(m)
    BY Regrouped
  <2>2. pc'[m] = pc[m] \/ pc'[m] = "idle"
    BY <1>1 DEF IInv, TypeOK
  <2> QED BY <1>1, <2>1, <2>2 DEF Consistent
<1> QED BY <1>2, <1>3, <1>4, RegroupedNext

(* A worker fails a plan.                                                  *)
LEMMA GiveUpInv ==
  ASSUME IInv, NEW n \in Names, GiveUp(n)
  PROVE  IInv'
<1>1. /\ n.kind = "PLAN" /\ status[n] = "RESERVED"
      /\ status' = [status EXCEPT ![n] = "FAILED"]
      /\ UNCHANGED <<day, reserved, writers, age, today, pc, output, calls>>
  BY DEF GiveUp
<1>2. TypeOK'
  BY <1>1 DEF IInv, TypeOK, Statuses
<1>3. Reservations'
  BY <1>1, ReservationsKept DEF IInv
<1>4. ASSUME NEW m \in Names PROVE Consistent(m)'
  <2>1. Consistent(m)
    BY Regrouped
  <2>2. CASE m = n
    <3>1. status'[n] = "FAILED" /\ n.kind # "EXPLANATION"
      BY <1>1 DEF IInv, TypeOK
    <3> QED BY <1>1, <2>1, <2>2, <3>1 DEF Consistent
  <2>3. CASE m # n
    BY <1>1, <2>1, <2>3 DEF Consistent, IInv, TypeOK
  <2> QED BY <2>2, <2>3
<1> QED BY <1>2, <1>3, <1>4, RegroupedNext

(* Time passes, whatever the processes do.                                 *)
LEMMA TickInv ==
  ASSUME IInv, Tick
  PROVE  IInv'
<1>1. /\ \A n \in Names :
           age'[n] = IF status[n] = "NONE" \/ age[n] = MaxAge THEN age[n] ELSE age[n] + 1
      /\ UNCHANGED <<status, day, reserved, writers, today, pc, output, calls>>
  BY DEF Tick, database
<1>2. \A n \in Names : age[n] \in 0..MaxAge /\ age'[n] \in 0..MaxAge
  BY <1>1, Numbers DEF IInv, TypeOK
<1>3. age' \in [Names -> 0..MaxAge]
  BY <1>1, <1>2 DEF Tick
<1>4. TypeOK'
  BY <1>1, <1>3 DEF IInv, TypeOK
<1>5. Reservations'
  BY <1>1, ReservationsKept DEF IInv
<1>6. ASSUME NEW m \in Names PROVE Consistent(m)'
  <2>1. Consistent(m)
    BY Regrouped
  <2> QED BY <1>1, <2>1 DEF Consistent
<1> QED BY <1>4, <1>5, <1>6, RegroupedNext

(* A change of rights or of the day.                                       *)
LEMMA AroundInv ==
  ASSUME IInv, writers' \subseteq Users, today' \in Days,
         UNCHANGED <<status, day, reserved, age, pc, output, calls>>
  PROVE  IInv'
<1>1. TypeOK'
  BY DEF IInv, TypeOK
<1>2. Reservations'
  BY ReservationsKept DEF IInv
<1>3. ASSUME NEW m \in Names PROVE Consistent(m)'
  BY Regrouped DEF Consistent
<1> QED BY <1>1, <1>2, <1>3, RegroupedNext

(* Every step preserves the invariant.                                     *)
LEMMA NextInv == IInv /\ [Next]_vars => IInv'
<1> SUFFICES ASSUME IInv, [Next]_vars PROVE IInv'
  OBVIOUS
<1>1. CASE ChangeRights
  BY <1>1, AroundInv DEF ChangeRights, IInv, TypeOK
<1>2. CASE Midnight
  <2>1. today' \in Days
    BY <1>2, Numbers DEF Midnight, IInv, TypeOK, Days
  <2> QED BY <1>2, <2>1, AroundInv DEF Midnight, database, IInv, TypeOK
<1>3. CASE UNCHANGED vars
  BY <1>3, AroundInv DEF vars, database, IInv, TypeOK
<1> QED
  BY <1>1, <1>2, <1>3, ReserveInv, CallInv, AnswerInv, RecordInv, LoseInv, GiveUpInv, TickInv
     DEF Next

(* The inductive invariant holds in every reachable state.                 *)
THEOREM Invariance == Spec => []IInv
<1> QED BY InitInv, NextInv, PTL DEF Spec

(* Every reachable state has the types; no day is reserved past its budget.*)
THEOREM TypeCorrect == Spec => []TypeOK
<1>1. IInv => TypeOK
  BY DEF IInv
<1> QED BY <1>1, Invariance, PTL

(* What is sent to the provider for a day costs no more than the budget of *)
(* the day, for any number of requests, failures and lost processes.       *)
THEOREM WithinBudget == Spec => []CallsWithinBudget
<1>1. ASSUME IInv PROVE CallsWithinBudget
  <2> SUFFICES ASSUME NEW d \in Days
               PROVE  Amount * Cardinality({n \in Of(d) : calls[n] > 0}) <= Budget
    BY DEF CallsWithinBudget
  <2> DEFINE sent == {n \in Of(d) : calls[n] > 0}
  <2>1. sent \in SUBSET Of(d)
    OBVIOUS
  <2>2. IsFiniteSet(sent) /\ Cardinality(sent) <= Cardinality(Of(d))
    BY <2>1, DayFinite, FS_Subset
  <2>3. Cardinality(sent) \in Nat
    BY <2>2, FS_CardinalityType
  <2>4. Amount * Cardinality(Of(d)) <= Budget
    BY <1>1, Numbers DEF IInv, Reservations, TypeOK
  <2> HIDE DEF sent
  <2>5. Amount * Cardinality(sent) <= Amount * Cardinality(Of(d))
    BY <2>2, <2>3, DayFinite, Numbers
  <2>6. /\ Amount * Cardinality(sent) \in Int /\ Amount * Cardinality(Of(d)) \in Int
    BY <2>3, DayFinite, Numbers
  <2>7. Amount * Cardinality(sent) <= Budget
    BY <2>4, <2>5, <2>6, Numbers
  <2> QED BY <2>7 DEF sent
<1> QED BY <1>1, Invariance, PTL

(* A request never calls the provider twice, however often it is repeated. *)
THEOREM CalledOnce == Spec => []OneCall
<1>1. IInv => OneCall
  BY DEF IInv, Stored, OneCall
<1> QED BY <1>1, Invariance, PTL

(* A step that stores another status of one request leaves the others.     *)
LEMMA StatusStep ==
  ASSUME IInv, NEW n \in Names, NEW x, status' = [status EXCEPT ![n] = x],
         NEW m \in Names, m # n
  PROVE  status'[m] = status[m]
BY DEF IInv, TypeOK

(* What is shown of a request with the same status changes with its age    *)
(* only.                                                                   *)
LEMMA AgeStep ==
  ASSUME IInv, NEW m \in Names, status'[m] = status[m], age'[m] \in Nat,
         age[m] <= age'[m] \/ status[m] # "RESERVED"
  PROVE  View(m)' = View(m) \/ (View(m) = "RESERVED" /\ View(m)' = "INDETERMINATE")
BY Numbers DEF IInv, TypeOK, View

(* One step, for one request.                                              *)
Onward(n) ==
  View(n)' # View(n) =>
    /\ Forward(View(n), View(n)')
    /\ View(n)' = "SUCCEEDED" => calls[n] = 1 /\ output[n] = "SUCCEEDED"

(* A step that changes no status.                                          *)
LEMMA SameStatus ==
  ASSUME IInv, IInv', NEW m \in Names, status'[m] = status[m],
         age[m] <= age'[m] \/ status[m] # "RESERVED"
  PROVE  Onward(m)
<1>1. age'[m] \in Nat
  BY DEF IInv, TypeOK
<1>2. View(m)' = View(m) \/ (View(m) = "RESERVED" /\ View(m)' = "INDETERMINATE")
  BY <1>1, AgeStep
<1> QED BY <1>2 DEF Onward, Forward

(* What members are shown of a request (view, task_view) only goes         *)
(* forward: a final outcome is never replaced, and a success is the answer *)
(* of the only call, however late it is recorded.                          *)
THEOREM ShownOutcomesStay == Spec => ShownForward
<1>1. ASSUME IInv, IInv', NEW m \in Names, [Next]_vars PROVE Onward(m)
  <2>1. status[m] \in Statuses /\ age[m] \in Nat /\ (status[m] = "RESERVED" => age[m] \in 0..MaxAge)
    BY <1>1, Numbers DEF IInv, TypeOK
  <2>2. ASSUME NEW n \in Names, Reserve(n) PROVE Onward(m)
    <3>1. status[n] = "NONE" /\ status' = [status EXCEPT ![n] = "RESERVED"]
          /\ age' = [age EXCEPT ![n] = 0]
      BY <2>2 DEF Reserve, Fresh
    <3>2. CASE m = n
      <4>1. status'[m] = "RESERVED" /\ age'[m] = 0
        BY <1>1, <3>1, <3>2 DEF IInv, TypeOK
      <4>2. View(m) = "NONE" /\ View(m)' = "RESERVED"
        BY <3>1, <3>2, <4>1, Numbers DEF View
      <4> QED BY <4>2 DEF Onward, Forward
    <3>3. CASE m # n
      <4>1. status'[m] = status[m] /\ age'[m] = age[m]
        BY <1>1, <3>1, <3>3 DEF IInv, TypeOK
      <4> QED BY <1>1, <2>1, <4>1, SameStatus
    <3> QED BY <3>2, <3>3
  <2>3. ASSUME NEW n \in Names, Record(n) PROVE Onward(m)
    <3>1. /\ pc[n] = "answered" /\ MayRecord(n) /\ status' = [status EXCEPT ![n] = output[n]]
          /\ age' = age
      BY <2>3 DEF Record
    <3>2. CASE m = n
      <4>1. calls[m] = 1 /\ output[m] \in {"SUCCEEDED", "FAILED"}
        BY <1>1, <3>1, <3>2, Regrouped DEF Consistent, TypeOK, Outputs
      <4>2. status[m] = "RESERVED"
        BY <1>1, <3>1, <3>2, Regrouped, BudgetAssumption DEF Consistent, MayRecord, Kinds
      <4>3. status'[m] = output[m]
        BY <1>1, <3>1, <3>2 DEF IInv, TypeOK
      <4>4. View(m) \in {"RESERVED", "INDETERMINATE"} /\ View(m)' = output[m]
        BY <4>1, <4>2, <4>3 DEF View
      <4> QED BY <4>1, <4>4 DEF Onward, Forward
    <3>3. CASE m # n
      <4>1. status'[m] = status[m]
        BY <1>1, <3>1, <3>3, StatusStep
      <4> QED BY <1>1, <2>1, <3>1, <4>1, SameStatus
    <3> QED BY <3>2, <3>3
  <2>4. ASSUME NEW n \in Names, GiveUp(n) PROVE Onward(m)
    <3>1. /\ n.kind = "PLAN" /\ status[n] = "RESERVED"
          /\ status' = [status EXCEPT ![n] = "FAILED"] /\ age' = age
      BY <2>4 DEF GiveUp
    <3>2. CASE m = n
      <4>1. status'[m] = "FAILED"
        BY <1>1, <3>1, <3>2 DEF IInv, TypeOK
      <4>2. View(m) = "RESERVED" /\ View(m)' = "FAILED"
        BY <3>1, <3>2, <4>1 DEF View
      <4> QED BY <4>2 DEF Onward, Forward
    <3>3. CASE m # n
      <4>1. status'[m] = status[m]
        BY <1>1, <3>1, <3>3, StatusStep
      <4> QED BY <1>1, <2>1, <3>1, <4>1, SameStatus
    <3> QED BY <3>2, <3>3
  <2>5. CASE Tick
    <3>1. status' = status
          /\ age'[m] = IF status[m] = "NONE" \/ age[m] = MaxAge THEN age[m] ELSE age[m] + 1
      BY <2>5 DEF Tick, database
    <3>2. age[m] <= age'[m]
      BY <2>1, <3>1
    <3> QED BY <1>1, <3>1, <3>2, SameStatus
  <2>6. ASSUME UNCHANGED <<status, age>> PROVE Onward(m)
    BY <1>1, <2>1, <2>6, SameStatus
  <2>7. ASSUME NEW n \in Names, Call(n) \/ Answer(n) \/ Lose(n) PROVE Onward(m)
    BY <2>6, <2>7 DEF Call, Answer, Lose, database
  <2>8. CASE ChangeRights \/ Midnight \/ UNCHANGED vars
    BY <2>6, <2>8 DEF ChangeRights, Midnight, vars, database
  <2> QED BY <1>1, <2>2, <2>3, <2>4, <2>5, <2>7, <2>8 DEF Next
<1>2. IInv /\ IInv' /\ [Next]_vars => \A m \in Names : Onward(m)
  BY <1>1
<1>3. IInv /\ IInv' /\ [Next]_vars =>
        [\A n \in Names :
           View(n)' # View(n) =>
             /\ Forward(View(n), View(n)')
             /\ View(n)' = "SUCCEEDED" => calls[n] = 1 /\ output[n] = "SUCCEEDED"]_vars
  BY <1>2 DEF Onward
<1> QED BY <1>3, Invariance, PTL DEF Spec, ShownForward
===============================================================================
