------------------------- MODULE ReportScores_proofs -------------------------
(***************************************************************************)
(* Every property of the report's figures, for every set of kinds and any  *)
(* number of findings of each.  A figure is a sum over kinds, and a sum is *)
(* a fold: a recursive function on the subsets of a finite set.  What is   *)
(* needed of sums is proved first, by induction on subsets: a predicate is *)
(* given as the set of the subsets that satisfy it, and inclusion of       *)
(* finite sets is well-founded.                                            *)
(***************************************************************************)
EXTENDS ReportScores, FiniteSetTheorems, WellFoundedInduction, TLAPS

---------------------------------------------------------------------------
(* Induction. *)

\* What holds of a subset whenever it holds of the smaller ones holds of all.
LEMMA SubsetInduction ==
  ASSUME NEW S, IsFiniteSet(S), NEW Good,
         \A T \in SUBSET S : (\A U \in SUBSET T : U # T => U \in Good) => T \in Good
  PROVE  SUBSET S \subseteq Good
<1> DEFINE Bad == (SUBSET S) \ Good
<1> SUFFICES ASSUME Bad # {} PROVE FALSE
  OBVIOUS
<1>1. Bad \subseteq FiniteSubsetsOf(S)
  BY FS_Subset DEF FiniteSubsetsOf
<1>2. IsWellFoundedOn(StrictSubsetOrdering(S), FiniteSubsetsOf(S))
  BY FS_StrictSubsetOrderingWellFounded
<1>3. PICK T \in Bad : \A U \in Bad : ~(<<U, T>> \in StrictSubsetOrdering(S))
  <2> HIDE DEF Bad
  <2> QED
    BY <1>1, <1>2, WFMin
<1>4. \A U \in SUBSET T : U # T => U \in Good
  BY <1>3 DEF StrictSubsetOrdering
<1> QED
  BY <1>4

---------------------------------------------------------------------------
(* The sum is well defined.  The fold is a choice of a function that       *)
(* satisfies its recursive equation; it has to be shown that one does.     *)

First(S) == CHOOSE y \in S : TRUE

Equation(f, S, g) ==
  g = [s \in SUBSET S |-> IF s = {} THEN 0 ELSE f[First(s)] + g[s \ {First(s)}]]

Fold(f, S) == CHOOSE g : Equation(f, S, g)

LEMMA TotalIsFold == ASSUME NEW f, NEW S PROVE Total(f, S) = Fold(f, S)[S]
BY DEF Total, MapThenSumSet, MapThenFoldSet, Fold, Equation, First

LEMMA FirstIn == ASSUME NEW S, S # {} PROVE First(S) \in S
BY DEF First

\* What the equation says of one set.
LEMMA Unfold ==
  ASSUME NEW f, NEW S, NEW g, Equation(f, S, g), NEW s \in SUBSET S
  PROVE  g[s] = IF s = {} THEN 0 ELSE f[First(s)] + g[s \ {First(s)}]
BY DEF Equation

\* Two functions that satisfy it, on a set and on a part of it, agree.
LEMMA FoldsAgree ==
  ASSUME NEW f, NEW S, NEW T \in SUBSET S, IsFiniteSet(T),
         NEW g, Equation(f, S, g), NEW h, Equation(f, T, h)
  PROVE  g[T] = h[T]
<1> DEFINE Good == {s \in SUBSET T : g[s] = h[s]}
<1>1. ASSUME NEW s \in SUBSET T, \A u \in SUBSET s : u # s => u \in Good
      PROVE  s \in Good
  <2> DEFINE r == s \ {First(s)}
  <2>1. g[s] = IF s = {} THEN 0 ELSE f[First(s)] + g[r]
    BY Unfold
  <2>2. h[s] = IF s = {} THEN 0 ELSE f[First(s)] + h[r]
    BY Unfold
  <2>3. s # {} => g[r] = h[r]
    BY <1>1, FirstIn
  <2> QED
    BY <2>1, <2>2, <2>3
<1>2. SUBSET T \subseteq Good
  <2> HIDE DEF Good
  <2> QED
    BY <1>1, SubsetInduction
<1> QED
  BY <1>2

\* On every finite set some function satisfies it.
LEMMA FoldExists ==
  ASSUME NEW f, NEW S, IsFiniteSet(S)
  PROVE  Equation(f, S, Fold(f, S))
<1> DEFINE Good == {T \in SUBSET S : Equation(f, T, Fold(f, T))}
<1>1. ASSUME NEW T \in SUBSET S, \A U \in SUBSET T : U # T => U \in Good
      PROVE  T \in Good
  <2> DEFINE Rest(s) == s \ {First(s)}
             g == [s \in SUBSET T |-> IF s = {} THEN 0
                                      ELSE f[First(s)] + Fold(f, Rest(s))[Rest(s)]]
  <2>1. ASSUME NEW s \in SUBSET T, s # {}
        PROVE  g[Rest(s)] = Fold(f, Rest(s))[Rest(s)]
    <3> DEFINE r == Rest(s)
               q == Rest(r)
    <3>1. First(s) \in s
      BY <2>1, FirstIn
    <3>2. r \in SUBSET T /\ Equation(f, r, Fold(f, r))
      BY <1>1, <3>1
    <3>3. q \in SUBSET r /\ IsFiniteSet(q) /\ Equation(f, q, Fold(f, q))
      BY <1>1, <3>1, FS_Subset
    <3>4. r \in SUBSET r
      OBVIOUS
    <3>5. g[r] = IF r = {} THEN 0 ELSE f[First(r)] + Fold(f, q)[q]
      BY <3>2
    <3> HIDE DEF g, r
    <3>6. Fold(f, r)[r] = IF r = {} THEN 0 ELSE f[First(r)] + Fold(f, r)[q]
      BY <3>2, <3>4, Unfold
    <3> HIDE DEF q
    <3>7. Fold(f, r)[q] = Fold(f, q)[q]
      BY <3>2, <3>3, FoldsAgree
    <3>8. g[r] = Fold(f, r)[r]
      BY <3>5, <3>6, <3>7
    <3> QED
      BY <3>8 DEF r
  <2>2. g = [s \in SUBSET T |-> IF s = {} THEN 0 ELSE f[First(s)] + g[Rest(s)]]
    BY <2>1
  <2> HIDE DEF g
  <2>3. Equation(f, T, g)
    BY <2>2 DEF Equation
  <2> QED
    BY <2>3 DEF Fold
<1>2. SUBSET S \subseteq Good
  <2> HIDE DEF Good
  <2> QED
    BY <1>1, SubsetInduction
<1> QED
  BY <1>2

LEMMA TotalStep ==
  ASSUME NEW f, NEW S, IsFiniteSet(S)
  PROVE  Total(f, S) = IF S = {} THEN 0 ELSE f[First(S)] + Total(f, S \ {First(S)})
<1> DEFINE r == S \ {First(S)}
<1>1. Equation(f, S, Fold(f, S)) /\ Equation(f, r, Fold(f, r))
  BY FoldExists, FS_Subset
<1>2. Fold(f, S)[S] = IF S = {} THEN 0 ELSE f[First(S)] + Fold(f, S)[r]
  <2>1. S \in SUBSET S
    OBVIOUS
  <2> QED
    BY <1>1, <2>1, Unfold
<1>3. r \in SUBSET S /\ IsFiniteSet(r)
  BY FS_Subset
<1>4. Fold(f, S)[r] = Fold(f, r)[r]
  <2> HIDE DEF r
  <2> QED
    BY <1>1, <1>3, FoldsAgree
<1> QED
  BY <1>2, <1>4, TotalIsFold

---------------------------------------------------------------------------
(* What is needed of sums of naturals. *)

Counts(f, S) == \A x \in S : f[x] \in Nat

\* A sum of naturals is a natural, and any term may be taken out.
LEMMA TotalOut ==
  ASSUME NEW f, NEW S, IsFiniteSet(S), Counts(f, S)
  PROVE  /\ Total(f, S) \in Nat
         /\ \A x \in S : /\ Total(f, S) = f[x] + Total(f, S \ {x})
                        /\ Total(f, S \ {x}) \in Nat
<1> DEFINE Good == {T \in SUBSET S : /\ Total(f, T) \in Nat
                                     /\ \A x \in T : Total(f, T) = f[x] + Total(f, T \ {x})}
<1>1. ASSUME NEW T \in SUBSET S, \A U \in SUBSET T : U # T => U \in Good
      PROVE  T \in Good
  <2> DEFINE c == First(T)
  <2>1. Total(f, T) = IF T = {} THEN 0 ELSE f[c] + Total(f, T \ {c})
    BY TotalStep, FS_Subset
  <2>2. CASE T = {}
    BY <2>1, <2>2
  <2>3. CASE T # {}
    <3>1. c \in T /\ f[c] \in Nat
      BY <2>3, FirstIn DEF Counts
    <3>2. T \ {c} \in Good
      BY <1>1, <3>1
    <3>3. Total(f, T) \in Nat
      BY <2>1, <2>3, <3>1, <3>2
    <3>4. ASSUME NEW x \in T, x # c
          PROVE  Total(f, T) = f[x] + Total(f, T \ {x})
      <4> DEFINE r == (T \ {c}) \ {x}
      <4>1. r = (T \ {x}) \ {c}
        OBVIOUS
      <4>2. r \in Good /\ T \ {x} \in Good
        BY <1>1, <3>1, <3>4
      <4>3. Total(f, T \ {c}) = f[x] + Total(f, r)
        BY <3>2, <3>4
      <4>4. Total(f, T \ {x}) = f[c] + Total(f, r)
        BY <3>1, <3>4, <4>1, <4>2
      <4>5. f[x] \in Nat /\ Total(f, r) \in Nat
        BY <4>2 DEF Counts
      <4> QED
        BY <2>1, <2>3, <3>1, <4>3, <4>4, <4>5
    <3> QED
      BY <2>1, <2>3, <3>3, <3>4
  <2> QED
    BY <2>2, <2>3
<1>2. SUBSET S \subseteq Good
  <2> HIDE DEF Good
  <2> QED
    BY <1>1, SubsetInduction
<1> QED
  BY <1>2

\* Larger terms make a larger sum.
LEMMA TotalLeq ==
  ASSUME NEW f, NEW g, NEW S, IsFiniteSet(S), Counts(f, S), Counts(g, S),
         \A x \in S : f[x] <= g[x]
  PROVE  Total(f, S) <= Total(g, S)
<1> DEFINE Good == {T \in SUBSET S : Total(f, T) <= Total(g, T)}
<1>1. ASSUME NEW T \in SUBSET S, \A U \in SUBSET T : U # T => U \in Good
      PROVE  T \in Good
  <2>1. IsFiniteSet(T) /\ Counts(f, T) /\ Counts(g, T)
    BY FS_Subset DEF Counts
  <2>2. CASE T = {}
    <3>1. Total(f, T) = 0 /\ Total(g, T) = 0
      BY <2>1, <2>2, TotalStep
    <3> QED
      BY <3>1
  <2>3. CASE T # {}
    <3>1. PICK x \in T : TRUE
      BY <2>3
    <3>2. Total(f, T) = f[x] + Total(f, T \ {x}) /\ Total(f, T \ {x}) \in Nat
      BY <2>1, TotalOut
    <3>3. Total(g, T) = g[x] + Total(g, T \ {x}) /\ Total(g, T \ {x}) \in Nat
      BY <2>1, TotalOut
    <3>4. Total(f, T \ {x}) <= Total(g, T \ {x})
      BY <1>1
    <3> QED
      BY <3>2, <3>3, <3>4 DEF Counts
  <2> QED
    BY <2>2, <2>3
<1>2. SUBSET S \subseteq Good
  <2> HIDE DEF Good
  <2> QED
    BY <1>1, SubsetInduction
<1> QED
  BY <1>2

\* A sum is that of a part of the set and of the rest.
LEMMA TotalSplit ==
  ASSUME NEW f, NEW S, IsFiniteSet(S), Counts(f, S), NEW P \in SUBSET S
  PROVE  Total(f, S) = Total(f, P) + Total(f, S \ P)
<1> DEFINE Good == {T \in SUBSET P : Total(f, S) = Total(f, T) + Total(f, S \ T)}
<1>1. ASSUME NEW T \in SUBSET P, \A U \in SUBSET T : U # T => U \in Good
      PROVE  T \in Good
  <2>1. \A U \in SUBSET S : IsFiniteSet(U) /\ Counts(f, U) /\ Total(f, U) \in Nat
    BY TotalOut, FS_Subset DEF Counts
  <2>2. CASE T = {}
    <3>1. Total(f, T) = 0 /\ Total(f, S) \in Nat
      BY <2>1, <2>2, TotalStep
    <3>2. S \ T = S
      BY <2>2
    <3>3. Total(f, S \ T) = Total(f, S)
      BY <3>2
    <3> QED
      BY <3>1, <3>3
  <2>3. CASE T # {}
    <3>1. PICK x \in T : TRUE
      BY <2>3
    <3> DEFINE r == T \ {x}
               k == S \ r
    <3>2. Total(f, S) = Total(f, r) + Total(f, k)
      BY <1>1
    <3>3. Total(f, T) = f[x] + Total(f, r)
      BY <2>1, TotalOut
    <3>4. k \in SUBSET S /\ x \in k /\ S \ T = k \ {x} /\ f[x] \in Nat
      BY DEF Counts
    <3>5. Total(f, k) = f[x] + Total(f, S \ T)
      <4> HIDE DEF k
      <4>1. Total(f, k) = f[x] + Total(f, k \ {x})
        BY <2>1, <3>4, TotalOut
      <4> QED
        BY <3>4, <4>1
    <3>6. Total(f, r) \in Nat /\ Total(f, S \ T) \in Nat
      BY <2>1
    <3> QED
      BY <3>2, <3>3, <3>4, <3>5, <3>6
  <2> QED
    BY <2>2, <2>3
<1>2. SUBSET P \subseteq Good
  <2>1. IsFiniteSet(P)
    BY FS_Subset
  <2> HIDE DEF Good
  <2> QED
    BY <1>1, <2>1, SubsetInduction
<1> QED
  BY <1>2

\* A sum is zero when its terms are.
LEMMA TotalZero ==
  ASSUME NEW f, NEW S, IsFiniteSet(S), \A x \in S : f[x] = 0
  PROVE  Total(f, S) = 0
<1> DEFINE Good == {T \in SUBSET S : Total(f, T) = 0}
<1>1. ASSUME NEW T \in SUBSET S, \A U \in SUBSET T : U # T => U \in Good
      PROVE  T \in Good
  <2>1. Total(f, T) = IF T = {} THEN 0 ELSE f[First(T)] + Total(f, T \ {First(T)})
    BY TotalStep, FS_Subset
  <2>2. ASSUME T # {}
        PROVE  f[First(T)] = 0 /\ Total(f, T \ {First(T)}) = 0
    BY <1>1, <2>2, FirstIn
  <2> QED
    BY <2>1, <2>2
<1>2. SUBSET S \subseteq Good
  <2> HIDE DEF Good
  <2> QED
    BY <1>1, SubsetInduction
<1> QED
  BY <1>2

\* A sum of naturals is at least each of its terms, and is the only one that
\* is not zero when there is no other.
LEMMA TotalTerm ==
  ASSUME NEW f, NEW S, IsFiniteSet(S), Counts(f, S), NEW x \in S
  PROVE  /\ f[x] <= Total(f, S)
         /\ (\A y \in S : y # x => f[y] = 0) => Total(f, S) = f[x]
<1>1. /\ Total(f, S) = f[x] + Total(f, S \ {x})
      /\ Total(f, S \ {x}) \in Nat
  BY TotalOut
<1>2. f[x] \in Nat
  BY DEF Counts
<1>3. ASSUME \A y \in S : y # x => f[y] = 0
      PROVE  Total(f, S \ {x}) = 0
  <2>1. IsFiniteSet(S \ {x})
    BY FS_Subset
  <2> QED
    BY <1>3, <2>1, TotalZero
<1> QED
  BY <1>1, <1>2, <1>3

LEMMA TotalSame ==
  ASSUME NEW f, NEW g, NEW S, IsFiniteSet(S), Counts(f, S), \A x \in S : f[x] = g[x]
  PROVE  Total(f, S) = Total(g, S)
<1>1. Counts(g, S)
  BY DEF Counts
<1>2. \A x \in S : f[x] <= g[x] /\ g[x] <= f[x]
  BY DEF Counts
<1>3. Total(f, S) <= Total(g, S)
  BY <1>1, <1>2, TotalLeq
<1>4. Total(g, S) <= Total(f, S)
  BY <1>1, <1>2, TotalLeq
<1> QED
  BY <1>1, <1>3, <1>4, TotalOut

\* When one term changes, the sum changes by as much.
LEMMA TotalUpdate ==
  ASSUME NEW f, NEW g, NEW S, IsFiniteSet(S), Counts(f, S), Counts(g, S),
         NEW x \in S, \A y \in S : y # x => f[y] = g[y]
  PROVE  Total(f, S) + g[x] = Total(g, S) + f[x]
<1> DEFINE r == S \ {x}
<1>1. Total(f, S) = f[x] + Total(f, r) /\ Total(f, r) \in Nat
  BY TotalOut
<1>2. Total(g, S) = g[x] + Total(g, r)
  BY TotalOut
<1>3. IsFiniteSet(r) /\ Counts(f, r)
  BY FS_Subset DEF Counts
<1>4. Total(f, r) = Total(g, r)
  <2>1. \A y \in r : f[y] = g[y]
    OBVIOUS
  <2> HIDE DEF r
  <2> QED
    BY <1>3, <2>1, TotalSame
<1>5. f[x] \in Nat /\ g[x] \in Nat
  BY DEF Counts
<1> QED
  BY <1>1, <1>2, <1>4, <1>5

---------------------------------------------------------------------------
(* Kinds, weights and dimensions. *)

LEMMA Min2 == ASSUME NEW a \in Int, NEW b \in Int
              PROVE  Min({a, b}) = IF a <= b THEN a ELSE b
BY DEF Min

LEMMA WeightType == ASSUME NEW k PROVE Weight(k) \in {0, 1, 3, 6}
BY DEF Weight

LEMMA FiveFinite ==
  ASSUME NEW a, NEW b, NEW c, NEW d, NEW e
  PROVE  IsFiniteSet({a, b, c, d, e})
<1>1. IsFiniteSet({a} \cup {b})
  BY FS_Singleton, FS_AddElement
<1>2. IsFiniteSet(({a} \cup {b}) \cup {c})
  BY <1>1, FS_AddElement
<1>3. IsFiniteSet((({a} \cup {b}) \cup {c}) \cup {d})
  BY <1>2, FS_AddElement
<1>4. IsFiniteSet(((({a} \cup {b}) \cup {c}) \cup {d}) \cup {e})
  BY <1>3, FS_AddElement
<1>5. {a, b, c, d, e} = ((({a} \cup {b}) \cup {c}) \cup {d}) \cup {e}
  OBVIOUS
<1> QED
  BY <1>4, <1>5, Zenon

LEMMA DimensionsFinite == IsFiniteSet(Dimensions \cup {"null"})
<1> DEFINE A == {"correctness", "scale-requirements", "extensibility-requirements",
                 "scalability", "extensibility"}
           B == {"maintainability", "performance-cost", "data-architecture",
                 "observability", "reliability-resilience"}
           C == {"change-safety", "security-boundaries", "vision-alignment", "null", "null"}
<1>1. Dimensions \cup {"null"} = (A \cup B) \cup C
  BY DEF Dimensions
<1>2. IsFiniteSet(A) /\ IsFiniteSet(B) /\ IsFiniteSet(C)
  BY FiveFinite
<1> HIDE DEF A, B, C
<1>3. IsFiniteSet((A \cup B) \cup C)
  BY <1>2, FS_Union
<1> QED
  BY <1>1, <1>3

\* There are finitely many kinds: a record is one of finitely many tuples.
LEMMA KindFinite == IsFiniteSet(Kind)
<1> DEFINE A == {"confirmed", "misaligned", "gap", "risk", "strength"}
           B == Dimensions \cup {"null"}
           C == {"high", "medium", "low", "info", "null"}
           D == {"high", "medium", "null"}
           T == ((A \X B) \X (C \X D)) \X BOOLEAN
           Row(t) == [classification |-> t[1][1][1], dimension |-> t[1][1][2],
                      severity |-> t[1][2][1], tagged |-> t[2],
                      confidence |-> t[1][2][2]]
           f == [t \in T |-> Row(t)]
<1>1. IsFiniteSet(A) /\ IsFiniteSet(C)
  BY FiveFinite
<1>2. IsFiniteSet(B)
  BY DimensionsFinite
<1>3. IsFiniteSet(D)
  <2>1. D = {"high", "medium", "null", "null", "null"}
    OBVIOUS
  <2> QED
    BY FiveFinite, <2>1
<1>4. IsFiniteSet(BOOLEAN)
  <2>1. BOOLEAN = {TRUE, FALSE, FALSE, FALSE, FALSE}
    OBVIOUS
  <2> QED
    BY FiveFinite, <2>1
<1>5. IsFiniteSet(T)
  <2> HIDE DEF A, B, C, D
  <2>1. IsFiniteSet(A \X B) /\ IsFiniteSet(C \X D)
    BY <1>1, <1>2, <1>3, FS_Product
  <2>2. IsFiniteSet((A \X B) \X (C \X D))
    BY <2>1, FS_Product
  <2> QED
    BY <1>4, <2>2, FS_Product
<1>6. f \in Surjection(T, Finding)
  <2>1. \A t \in T : Row(t) \in Finding
    BY DEF Finding
  <2>2. ASSUME NEW k \in Finding
        PROVE  \E t \in T : Row(t) = k
    <3> DEFINE t == <<<<<<k.classification, k.dimension>>, <<k.severity, k.confidence>>>>, k.tagged>>
    <3>1. t \in T
      BY DEF Finding
    <3>2. Row(t) = k
      BY DEF Finding
    <3> QED
      BY <3>1, <3>2
  <2> HIDE DEF T, Row
  <2>3. f \in [T -> Finding]
    BY <2>1
  <2>4. \A k \in Finding : \E t \in T : f[t] = k
    BY <2>2
  <2> QED
    BY <2>3, <2>4 DEF Surjection
<1>7. IsFiniteSet(Finding)
  <2> HIDE DEF T, f
  <2> QED
    BY <1>5, <1>6, FS_Surjection
<1> QED
  BY <1>7, KindAssumption, FS_Subset

LEMMA DimsFinite == ASSUME NEW kinds, kinds \subseteq Kind
                    PROVE  IsFiniteSet({Dim(k) : k \in kinds})
<1> DEFINE f == [k \in kinds |-> Dim(k)]
<1>1. IsFiniteSet(kinds)
  BY KindFinite, FS_Subset
<1>2. f \in Surjection(kinds, {Dim(k) : k \in kinds})
  BY DEF Surjection
<1> QED
  BY <1>1, <1>2, FS_Surjection

LEMMA ManyType ==
  ASSUME NEW fs \in [Kind -> Nat], NEW kinds \in SUBSET Kind
  PROVE  IsFiniteSet(kinds) /\ Counts(fs, kinds) /\ Many(fs, kinds) \in Nat
<1>1. IsFiniteSet(kinds) /\ Counts(fs, kinds)
  BY KindFinite, FS_Subset DEF Counts
<1> QED
  BY <1>1, TotalOut DEF Many

---------------------------------------------------------------------------
(* The penalty. *)

Charges(fs, kinds) == [k \in kinds |-> fs[k] * Weight(k)]

LEMMA ChargesCount ==
  ASSUME NEW fs \in [Kind -> Nat], NEW kinds \in SUBSET Kind
  PROVE  Counts(Charges(fs, kinds), kinds)
<1>1. \A n \in Nat, w \in {0, 1, 3, 6} : n * w \in Nat
  OBVIOUS
<1> QED
  BY <1>1, WeightType DEF Counts, Charges

LEMMA ChargeFacts ==
  ASSUME NEW fs \in [Kind -> Nat], NEW kinds \in SUBSET Kind
  PROVE  /\ Charge(fs, kinds) \in Nat
         /\ \A k \in kinds : fs[k] * Weight(k) <= Charge(fs, kinds)
         /\ (\A k \in kinds : fs[k] = 0 \/ Weight(k) = 0) => Charge(fs, kinds) = 0
<1> DEFINE f == Charges(fs, kinds)
<1>1. IsFiniteSet(kinds) /\ Counts(f, kinds)
  BY ManyType, ChargesCount
<1>2. Charge(fs, kinds) = Total(f, kinds)
  BY DEF Charge, Charges
<1>3. \A k \in kinds : f[k] = fs[k] * Weight(k)
  BY DEF Charges
<1>4. (\A k \in kinds : fs[k] = 0 \/ Weight(k) = 0) => \A k \in kinds : f[k] = 0
  <2>1. \A k \in kinds : fs[k] \in Nat /\ Weight(k) \in Nat
    BY WeightType
  <2>2. \A n, w \in Nat : n = 0 \/ w = 0 => n * w = 0
    OBVIOUS
  <2> HIDE DEF f
  <2> QED
    BY <1>3, <2>1, <2>2
<1> HIDE DEF f
<1>5. Total(f, kinds) \in Nat /\ \A k \in kinds : f[k] <= Total(f, kinds)
  BY <1>1, TotalOut, TotalTerm
<1>6. (\A k \in kinds : f[k] = 0) => Total(f, kinds) = 0
  BY <1>1, TotalZero
<1> QED
  BY <1>2, <1>3, <1>4, <1>5, <1>6

\* One finding fewer, or one more, takes or adds its weight.
LEMMA ChargeWithout ==
  ASSUME NEW fs \in [Kind -> Nat], NEW kinds \in SUBSET Kind, NEW k \in Kind, fs[k] > 0
  PROVE  /\ Without(fs, k) \in [Kind -> Nat]
         /\ Many(Without(fs, k), kinds) = Many(fs, kinds) - IF k \in kinds THEN 1 ELSE 0
         /\ Charge(Without(fs, k), kinds)
              = Charge(fs, kinds) - IF k \in kinds THEN Weight(k) ELSE 0
<1> DEFINE gs == Without(fs, k)
<1>1. /\ gs \in [Kind -> Nat]
      /\ gs[k] = fs[k] - 1 /\ fs[k] \in Nat
      /\ \A j \in Kind : j # k => gs[j] = fs[j]
  BY DEF Without
<1> HIDE DEF gs
<1>2. Many(gs, kinds) = Many(fs, kinds) - IF k \in kinds THEN 1 ELSE 0
  <2>1. IsFiniteSet(kinds) /\ Counts(fs, kinds) /\ Counts(gs, kinds)
    BY <1>1, ManyType
  <2>2. Many(fs, kinds) \in Nat /\ Many(gs, kinds) \in Nat
    BY <1>1, ManyType
  <2>3. CASE k \in kinds
    <3>1. \A j \in kinds : j # k => gs[j] = fs[j]
      BY <1>1
    <3>2. Total(fs, kinds) + gs[k] = Total(gs, kinds) + fs[k]
      BY <2>1, <2>3, <3>1, TotalUpdate
    <3> QED
      BY <1>1, <2>2, <2>3, <3>2 DEF Many
  <2>4. CASE k \notin kinds
    <3>1. \A j \in kinds : fs[j] = gs[j]
      BY <1>1, <2>4
    <3>2. Total(fs, kinds) = Total(gs, kinds)
      BY <2>1, <3>1, TotalSame
    <3> QED
      BY <2>2, <2>4, <3>2 DEF Many
  <2> QED
    BY <2>3, <2>4
<1>3. Charge(gs, kinds) = Charge(fs, kinds) - IF k \in kinds THEN Weight(k) ELSE 0
  <2> DEFINE f == Charges(fs, kinds)
             g == Charges(gs, kinds)
  <2>1. IsFiniteSet(kinds) /\ Counts(f, kinds) /\ Counts(g, kinds)
    BY <1>1, ManyType, ChargesCount
  <2>2. Charge(fs, kinds) = Total(f, kinds) /\ Charge(gs, kinds) = Total(g, kinds)
    BY DEF Charge, Charges
  <2>3. Charge(fs, kinds) \in Nat /\ Charge(gs, kinds) \in Nat
    BY <1>1, ChargeFacts
  <2>4. \A j \in kinds : j # k => g[j] = f[j]
    BY <1>1 DEF Charges
  <2>5. CASE k \in kinds
    <3>1. f[k] - g[k] = Weight(k) /\ f[k] \in Nat /\ g[k] \in Nat
      <4>1. f[k] = fs[k] * Weight(k) /\ g[k] = (fs[k] - 1) * Weight(k)
        BY <1>1, <2>5 DEF Charges
      <4>2. \A n \in Nat, w \in {0, 1, 3, 6} :
              n > 0 => n * w - (n - 1) * w = w /\ n * w \in Nat /\ (n - 1) * w \in Nat
        OBVIOUS
      <4> QED
        BY <1>1, <4>1, <4>2, WeightType
    <3> HIDE DEF f, g
    <3>2. Total(f, kinds) + g[k] = Total(g, kinds) + f[k]
      BY <2>1, <2>4, <2>5, TotalUpdate
    <3> QED
      BY <2>2, <2>3, <2>5, <3>1, <3>2, WeightType
  <2>6. CASE k \notin kinds
    <3> HIDE DEF f, g
    <3>1. \A j \in kinds : f[j] = g[j]
      BY <2>4, <2>6
    <3>2. Total(f, kinds) = Total(g, kinds)
      BY <2>1, <3>1, TotalSame
    <3> QED
      BY <2>2, <2>3, <2>6, <3>2
  <2> QED
    BY <2>5, <2>6
<1> QED
  BY <1>1, <1>2, <1>3 DEF gs

LEMMA ChargeWith ==
  ASSUME NEW fs \in [Kind -> Nat], NEW kinds \in SUBSET Kind, NEW k \in Kind
  PROVE  /\ With(fs, k) \in [Kind -> Nat]
         /\ Many(With(fs, k), kinds) = Many(fs, kinds) + IF k \in kinds THEN 1 ELSE 0
         /\ Charge(With(fs, k), kinds)
              = Charge(fs, kinds) + IF k \in kinds THEN Weight(k) ELSE 0
<1> DEFINE gs == With(fs, k)
<1>1. gs \in [Kind -> Nat] /\ gs[k] > 0
  BY DEF With
<1>2. Without(gs, k) = fs
  <2> DEFINE hs == Without(gs, k)
  <2>1. hs = [j \in Kind |-> hs[j]] /\ fs = [j \in Kind |-> fs[j]]
    BY DEF With, Without
  <2>2. \A j \in Kind : hs[j] = fs[j]
    BY DEF With, Without
  <2>3. hs = fs
    <3> HIDE DEF hs
    <3> QED
      BY <2>1, <2>2
  <2> QED
    BY <2>3
<1> HIDE DEF gs
<1>3. /\ Many(fs, kinds) = Many(gs, kinds) - IF k \in kinds THEN 1 ELSE 0
      /\ Charge(fs, kinds) = Charge(gs, kinds) - IF k \in kinds THEN Weight(k) ELSE 0
  BY <1>1, <1>2, ChargeWithout
<1>4. /\ Many(fs, kinds) \in Nat /\ Many(gs, kinds) \in Nat
      /\ Charge(fs, kinds) \in Nat /\ Charge(gs, kinds) \in Nat
  BY <1>1, ManyType, ChargeFacts
<1>5. Weight(k) \in Nat
  BY WeightType
<1> QED
  BY <1>1, <1>3, <1>4, <1>5 DEF gs

\* The findings of one dimension, and what they cost.
Slice(kinds, d) == {k \in kinds : Dim(k) = d}
DimsOf(kinds) == {Dim(k) : k \in kinds}
Capped(fs, kinds) == [d \in DimsOf(kinds) |-> Min({15, Charge(fs, Slice(kinds, d))})]

LEMMA PenaltyIs ==
  ASSUME NEW fs, NEW kinds
  PROVE  CappedPenalty(fs, kinds) = Total(Capped(fs, kinds), DimsOf(kinds))
<1>1. DOMAIN Capped(fs, kinds) = DimsOf(kinds)
  BY DEF Capped
<1> QED
  BY <1>1 DEF CappedPenalty, Capped, DimsOf, Slice

LEMMA CappedType ==
  ASSUME NEW fs \in [Kind -> Nat], NEW kinds \in SUBSET Kind
  PROVE  /\ IsFiniteSet(DimsOf(kinds)) /\ Counts(Capped(fs, kinds), DimsOf(kinds))
         /\ \A d : Charge(fs, Slice(kinds, d)) \in Nat
         /\ \A d \in DimsOf(kinds) :
              /\ Capped(fs, kinds)[d] \in 0 .. 15
              /\ Capped(fs, kinds)[d] = IF 15 <= Charge(fs, Slice(kinds, d))
                                        THEN 15 ELSE Charge(fs, Slice(kinds, d))
<1>1. IsFiniteSet(DimsOf(kinds))
  BY DimsFinite DEF DimsOf
<1>2. ASSUME NEW d
      PROVE  Charge(fs, Slice(kinds, d)) \in Nat
  <2>1. Slice(kinds, d) \in SUBSET Kind
    BY DEF Slice
  <2> QED
    BY <2>1, ChargeFacts
<1>3. ASSUME NEW d \in DimsOf(kinds)
      PROVE  /\ Capped(fs, kinds)[d] \in 0 .. 15
             /\ Capped(fs, kinds)[d] = IF 15 <= Charge(fs, Slice(kinds, d))
                                       THEN 15 ELSE Charge(fs, Slice(kinds, d))
  BY <1>2, Min2 DEF Capped
<1>4. Counts(Capped(fs, kinds), DimsOf(kinds))
  BY <1>3 DEF Counts
<1> QED
  BY <1>1, <1>2, <1>3, <1>4

\* No cap hides a high concern, and one dimension costs 15 points at most.
LEMMA PenaltyFacts ==
  ASSUME NEW fs \in [Kind -> Nat], NEW kinds \in SUBSET Kind
  PROVE  /\ CappedPenalty(fs, kinds) \in Nat
         /\ \A k \in kinds :
              fs[k] > 0 /\ k.severity = "high" => CappedPenalty(fs, kinds) >= 6
         /\ (\A j, k \in {i \in kinds : fs[i] > 0 /\ Weight(i) > 0} : Dim(j) = Dim(k))
              => CappedPenalty(fs, kinds) <= 15
<1> DEFINE f == Capped(fs, kinds)
           D == DimsOf(kinds)
<1>1. IsFiniteSet(D) /\ Counts(f, D) /\ CappedPenalty(fs, kinds) = Total(f, D)
  BY CappedType, PenaltyIs
<1>2. \A d : /\ Slice(kinds, d) \in SUBSET Kind
             /\ Charge(fs, Slice(kinds, d)) \in Nat
  BY CappedType DEF Slice
<1>3. \A d \in D : /\ f[d] \in 0 .. 15
                   /\ f[d] = IF 15 <= Charge(fs, Slice(kinds, d))
                             THEN 15 ELSE Charge(fs, Slice(kinds, d))
  BY CappedType
<1> HIDE DEF f
<1>4. ASSUME NEW k \in kinds, fs[k] > 0, k.severity = "high"
      PROVE  CappedPenalty(fs, kinds) >= 6
  <2>1. Dim(k) \in D /\ k \in Slice(kinds, Dim(k))
    BY DEF DimsOf, Slice
  <2>2. fs[k] * Weight(k) <= Charge(fs, Slice(kinds, Dim(k)))
    BY <1>2, <2>1, ChargeFacts
  <2>3. fs[k] * Weight(k) >= 6
    <3>1. Weight(k) = 6 /\ fs[k] \in Nat
      BY <1>4 DEF Weight
    <3> QED
      BY <1>4, <3>1
  <2>4. f[Dim(k)] >= 6
    <3>1. fs[k] * Weight(k) \in Nat
      <4>1. fs[k] \in Nat /\ Weight(k) \in Nat
        BY WeightType
      <4> QED
        BY <4>1
    <3>2. Charge(fs, Slice(kinds, Dim(k))) >= 6
      BY <1>2, <2>2, <2>3, <3>1
    <3> QED
      BY <1>2, <1>3, <2>1, <3>2
  <2>5. f[Dim(k)] <= Total(f, D)
    BY <1>1, <2>1, TotalTerm
  <2>6. Total(f, D) \in Nat
    BY <1>1, TotalOut
  <2> HIDE DEF D
  <2> QED
    BY <1>1, <1>3, <2>1, <2>4, <2>5, <2>6
<1>5. ASSUME \A j, k \in {i \in kinds : fs[i] > 0 /\ Weight(i) > 0} : Dim(j) = Dim(k)
      PROVE  CappedPenalty(fs, kinds) <= 15
  <2>1. ASSUME NEW d \in D,
               \A k \in Slice(kinds, d) : fs[k] = 0 \/ Weight(k) = 0
        PROVE  f[d] = 0
    <3>1. Charge(fs, Slice(kinds, d)) = 0
      BY <1>2, <2>1, ChargeFacts
    <3> QED
      BY <1>3, <3>1
  <2>2. \A k \in kinds : fs[k] \in Nat /\ Weight(k) \in Nat
    BY WeightType
  <2>3. CASE \E k \in kinds : fs[k] > 0 /\ Weight(k) > 0
    <3>1. PICK k \in kinds : fs[k] > 0 /\ Weight(k) > 0
      BY <2>3
    <3>2. Dim(k) \in D
      BY DEF DimsOf
    <3>3. \A d \in D : d # Dim(k) => f[d] = 0
      BY <1>5, <2>1, <2>2, <3>1 DEF Slice
    <3> HIDE DEF D
    <3>4. Total(f, D) = f[Dim(k)]
      BY <1>1, <3>2, <3>3, TotalTerm
    <3> QED
      BY <1>1, <1>3, <3>2, <3>4
  <2>4. CASE ~ \E k \in kinds : fs[k] > 0 /\ Weight(k) > 0
    <3>1. \A d \in D : f[d] = 0
      BY <2>1, <2>2, <2>4 DEF Slice
    <3> HIDE DEF D
    <3>2. Total(f, D) = 0
      BY <1>1, <3>1, TotalZero
    <3> QED
      BY <1>1, <3>2
  <2> QED
    BY <2>3, <2>4
<1>6. CappedPenalty(fs, kinds) \in Nat
  BY <1>1, TotalOut
<1> QED
  BY <1>4, <1>5, <1>6

\* A penalty is no larger where no dimension is charged more.
LEMMA PenaltyLeq ==
  ASSUME NEW fs \in [Kind -> Nat], NEW gs \in [Kind -> Nat], NEW kinds \in SUBSET Kind,
         \A d : Charge(gs, Slice(kinds, d)) <= Charge(fs, Slice(kinds, d))
  PROVE  CappedPenalty(gs, kinds) <= CappedPenalty(fs, kinds)
<1> DEFINE f == Capped(fs, kinds)
           g == Capped(gs, kinds)
           D == DimsOf(kinds)
<1>1. /\ IsFiniteSet(D) /\ Counts(f, D) /\ Counts(g, D)
      /\ \A d : Charge(fs, Slice(kinds, d)) \in Nat /\ Charge(gs, Slice(kinds, d)) \in Nat
  BY CappedType
<1>2. \A d \in D : f[d] = IF 15 <= Charge(fs, Slice(kinds, d))
                         THEN 15 ELSE Charge(fs, Slice(kinds, d))
  BY CappedType
<1>3. \A d \in D : g[d] = IF 15 <= Charge(gs, Slice(kinds, d))
                         THEN 15 ELSE Charge(gs, Slice(kinds, d))
  BY CappedType
<1>4. CappedPenalty(fs, kinds) = Total(f, D) /\ CappedPenalty(gs, kinds) = Total(g, D)
  BY PenaltyIs
<1> HIDE DEF f, g, D
<1>5. \A d \in D : g[d] <= f[d]
  BY <1>1, <1>2, <1>3
<1> QED
  BY <1>1, <1>4, <1>5, TotalLeq

---------------------------------------------------------------------------
(* The bonus, the index and the percentages. *)

LEMMA BonusFacts ==
  ASSUME NEW fs \in [Kind -> Nat], NEW kinds \in SUBSET Kind
  PROVE  /\ Bonus(fs, kinds) \in 0 .. 5
         /\ Many(fs, {k \in kinds : IsStrength(k)}) \in Nat
         /\ Bonus(fs, kinds) = IF 5 <= Many(fs, {k \in kinds : IsStrength(k)})
                               THEN 5 ELSE Many(fs, {k \in kinds : IsStrength(k)})
<1> DEFINE n == Many(fs, {k \in kinds : IsStrength(k)})
<1>1. n \in Nat
  <2>1. {k \in kinds : IsStrength(k)} \in SUBSET Kind
    OBVIOUS
  <2> QED
    BY <2>1, ManyType
<1>2. Bonus(fs, kinds) = Min({5, n})
  BY DEF Bonus
<1> HIDE DEF n
<1>3. Bonus(fs, kinds) = IF 5 <= n THEN 5 ELSE n
  BY <1>1, <1>2, Min2
<1>4. Bonus(fs, kinds) \in 0 .. 5
  BY <1>1, <1>3
<1> QED
  BY <1>1, <1>3, <1>4 DEF n

LEMMA IndexIs ==
  ASSUME NEW p \in Nat, NEW b \in 0 .. 5
  PROVE  Index(p, b) = IF p > 100 + b THEN 0
                       ELSE IF p <= b THEN 100 ELSE (100 + b) - p
<1>1. Min({100, (100 + b) - p}) = IF 100 <= (100 + b) - p THEN 100 ELSE (100 + b) - p
  BY Min2
<1> QED
  BY <1>1 DEF Index

\* The division behind a percentage.
LEMMA PercentIs ==
  ASSUME NEW part \in Nat, NEW whole \in Nat \ {0}
  PROVE  \E q \in Nat, r \in Nat :
           /\ r < whole /\ 100 * part = whole * q + r
           /\ Percent(part, whole)
                = IF 2 * r < whole \/ (2 * r = whole /\ q % 2 = 0) THEN q ELSE q + 1
<1> DEFINE q == (100 * part) \div whole
           r == (100 * part) % whole
<1>1. q \in Int /\ r \in Nat /\ r < whole /\ 100 * part = whole * q + r
  OBVIOUS
<1>2. Percent(part, whole) = IF 2 * r < whole \/ (2 * r = whole /\ q % 2 = 0) THEN q ELSE q + 1
  BY DEF Percent
<1> HIDE DEF q, r
<1>3. q >= 0
  <2>1. q <= -1 => whole * q <= whole * (-1)
    BY <1>1
  <2> QED
    BY <1>1, <2>1
<1> q \in Nat /\ r \in Nat
  BY <1>1, <1>3
<1> WITNESS q \in Nat, r \in Nat
<1> QED
  BY <1>1, <1>2

\* A percentage reads 100 when one part in two hundred is missing, or less.
LEMMA PercentFull ==
  ASSUME NEW part \in Nat, NEW whole \in Nat \ {0}, part <= whole
  PROVE  /\ Percent(part, whole) \in 0 .. 100
         /\ Percent(part, whole) = 100 <=> 200 * (whole - part) <= whole
<1>1. PICK q \in Nat, r \in Nat :
        /\ r < whole /\ 100 * part = whole * q + r
        /\ Percent(part, whole)
             = IF 2 * r < whole \/ (2 * r = whole /\ q % 2 = 0) THEN q ELSE q + 1
  BY PercentIs
<1>2. CASE q >= 100
  <2>1. whole * q >= whole * 100
    BY <1>1, <1>2
  <2>2. part = whole /\ r = 0 /\ whole * q = whole * 100
    BY <1>1, <2>1
  <2>3. q = 100
    <3>1. q >= 101 => whole * q >= whole * 101
      BY <1>1
    <3> QED
      BY <1>1, <1>2, <2>2, <3>1
  <2> QED
    BY <1>1, <2>2, <2>3
<1>3. CASE q = 99
  <2>1. 100 * part = whole * 99 + r
    BY <1>1, <1>3
  <2>2. Percent(part, whole) = IF 2 * r < whole THEN 99 ELSE 100
    BY <1>1, <1>3
  <2> QED
    BY <1>1, <2>1, <2>2
<1>4. CASE q < 99
  <2>1. whole * q <= whole * 98
    BY <1>1, <1>4
  <2>2. Percent(part, whole) \in 0 .. 99
    BY <1>1, <1>4
  <2>3. 100 * part < whole * 99
    BY <1>1, <2>1
  <2> QED
    BY <2>2, <2>3
<1> QED
  BY <1>1, <1>2, <1>3, <1>4

LEMMA TimesLeq ==
  ASSUME NEW n \in Nat, NEW x \in Int, NEW y \in Int, x <= y
  PROVE  n * x <= n * y
OBVIOUS

\* Rounding keeps the order of two shares.
LEMMA PercentLeq ==
  ASSUME NEW a \in Nat, NEW v \in Nat \ {0}, NEW b \in Nat, NEW w \in Nat \ {0},
         a * w <= b * v
  PROVE  Percent(a, v) <= Percent(b, w)
<1>1. PICK q \in Nat, r \in Nat :
        /\ r < v /\ 100 * a = v * q + r
        /\ Percent(a, v) = IF 2 * r < v \/ (2 * r = v /\ q % 2 = 0) THEN q ELSE q + 1
  BY PercentIs
<1>2. PICK p \in Nat, s \in Nat :
        /\ s < w /\ 100 * b = w * p + s
        /\ Percent(b, w) = IF 2 * s < w \/ (2 * s = w /\ p % 2 = 0) THEN p ELSE p + 1
  BY PercentIs
<1> DEFINE n == v * w
<1>3. n * q + r * w <= n * p + s * v
  <2>1. (100 * a) * w <= (100 * b) * v
    OBVIOUS
  <2>2. (100 * a) * w = n * q + r * w
    BY <1>1
  <2>3. (100 * b) * v = n * p + s * v
    BY <1>2
  <2> QED
    BY <2>1, <2>2, <2>3
<1>4. n \in Nat /\ r * w \in Nat /\ s * v \in Nat /\ n * p \in Nat /\ n * q \in Nat
  OBVIOUS
<1>5. s * v < n
  <2>1. (w - s) * v > 0
    BY <1>2
  <2> QED
    BY <2>1
<1>6. q <= p
  <2>1. CASE q >= p + 1
    <3>1. n * q >= n * (p + 1)
      BY <1>4, <2>1, TimesLeq
    <3>2. n * (p + 1) = n * p + n
      OBVIOUS
    <3> HIDE DEF n
    <3> QED
      BY <1>3, <1>4, <1>5, <3>1, <3>2
  <2> QED
    BY <2>1
<1>7. CASE q < p
  BY <1>1, <1>2, <1>7
<1>8. CASE q = p
  <2>1. r * w <= s * v
    <3> HIDE DEF n
    <3> QED
      BY <1>3, <1>4, <1>8
  <2>2. ASSUME 2 * r >= v
        PROVE  2 * s >= w
    <3>1. w * (2 * r) >= w * v
      BY <2>2, TimesLeq
    <3>2. v * (2 * s) >= v * w
      BY <2>1, <3>1
    <3>3. 2 * s <= w - 1 => v * (2 * s) <= v * (w - 1)
      BY TimesLeq
    <3>4. v * (w - 1) = v * w - v
      OBVIOUS
    <3> QED
      BY <3>2, <3>3, <3>4
  <2>3. ASSUME 2 * r > v
        PROVE  2 * s > w
    <3>1. w * (2 * r) >= w * (v + 1)
      BY <2>3, TimesLeq
    <3>2. v * (2 * s) > v * w
      BY <2>1, <3>1
    <3>3. 2 * s <= w => v * (2 * s) <= v * w
      BY TimesLeq
    <3> QED
      BY <3>2, <3>3
  <2> QED
    BY <1>1, <1>2, <1>8, <2>2, <2>3
<1> QED
  BY <1>6, <1>7, <1>8

---------------------------------------------------------------------------
(* The invariant: the report on disk is that of the findings.              *)

Current == findings \in [Kind -> Nat] /\ report = ReportOf(findings)

LEMMA InitCurrent == Init => Current
BY OpeningAssumption DEF Init, Current

LEMMA StepCurrent ==
  ASSUME Current, [Next]_vars
  PROVE  Current'
<1>1. CASE Review
  <2>1. findings' \in Edited(findings) /\ report' = ReportOf(findings')
    BY <1>1 DEF Review
  <2>2. \A k \in Kind : findings[k] > 0 => Without(findings, k) \in [Kind -> Nat]
    BY ChargeWithout DEF Current
  <2>3. \A fs \in [Kind -> Nat], k \in Kind : With(fs, k) \in [Kind -> Nat]
    BY DEF With
  <2>4. Edited(findings) \subseteq [Kind -> Nat]
    BY <2>2, <2>3 DEF Edited, Current
  <2> QED
    BY <2>1, <2>4 DEF Current
<1>2. CASE UNCHANGED vars
  BY <1>2 DEF vars, Current
<1> QED
  BY <1>1, <1>2 DEF Next

THEOREM CurrentAlways == Spec => []Current
BY InitCurrent, StepCurrent, PTL DEF Spec

LEMMA KindSets ==
  /\ Concerns \in SUBSET Kind /\ Risks \in SUBSET Kind /\ Evaluated \in SUBSET Kind
  /\ Reconciled \in SUBSET Kind /\ Rated \in SUBSET Kind
BY DEF Concerns, Risks, Evaluated, Reconciled, Rated

\* A part of the findings has no more of them than the whole.
LEMMA ManyPart ==
  ASSUME NEW fs \in [Kind -> Nat], NEW kinds \in SUBSET Kind, NEW part \in SUBSET kinds
  PROVE  /\ Many(fs, part) \in Nat /\ Many(fs, kinds) \in Nat
         /\ Many(fs, kinds \ part) \in Nat
         /\ Many(fs, kinds) = Many(fs, part) + Many(fs, kinds \ part)
<1>1. IsFiniteSet(kinds) /\ Counts(fs, kinds)
  BY ManyType
<1>2. Many(fs, part) \in Nat /\ Many(fs, kinds) \in Nat
  BY ManyType
<1>3. kinds \ part \in SUBSET Kind
  OBVIOUS
<1>4. Many(fs, kinds \ part) \in Nat
  BY <1>3, ManyType
<1>5. Many(fs, kinds) = Many(fs, part) + Many(fs, kinds \ part)
  BY <1>1, TotalSplit DEF Many
<1> QED
  BY <1>2, <1>4, <1>5

LEMMA ShareType ==
  ASSUME NEW fs \in [Kind -> Nat], NEW kinds \in SUBSET Kind, NEW good \in SUBSET kinds
  PROVE  /\ ShareOf(fs, kinds, good) \in Share \cup {Absent}
         /\ Many(fs, kinds) # 0 =>
              (ShareOf(fs, kinds, good).percent = 100
                 <=> 200 * Many(fs, kinds \ good) <= Many(fs, kinds))
<1> DEFINE part == Many(fs, good)
           whole == Many(fs, kinds)
           rest == Many(fs, kinds \ good)
<1>1. part \in Nat /\ whole \in Nat /\ rest \in Nat /\ whole = part + rest
  BY ManyPart
<1>2. ShareOf(fs, kinds, good) =
        IF whole = 0 THEN Absent ELSE [percent |-> Percent(part, whole), of |-> whole]
  BY DEF ShareOf
<1> HIDE DEF part, whole, rest
<1>3. ASSUME whole # 0
      PROVE  /\ Percent(part, whole) \in 0 .. 100
             /\ Percent(part, whole) = 100 <=> 200 * (whole - part) <= whole
  <2>1. whole \in Nat \ {0} /\ part <= whole
    BY <1>1, <1>3
  <2> QED
    BY <1>1, <2>1, PercentFull
<1>4. ShareOf(fs, kinds, good) \in Share \cup {Absent}
  BY <1>1, <1>2, <1>3 DEF Share
<1>5. ASSUME whole # 0
      PROVE  ShareOf(fs, kinds, good).percent = 100 <=> 200 * rest <= whole
  <2>1. whole - part = rest
    BY <1>1
  <2> QED
    BY <1>2, <1>3, <1>5, <2>1
<1> QED
  BY <1>4, <1>5 DEF whole, rest

LEMMA IndexType ==
  ASSUME NEW fs \in [Kind -> Nat], NEW kinds \in SUBSET Kind, NEW credited \in SUBSET Kind
  PROVE  LET p == CappedPenalty(fs, kinds)
             b == Bonus(fs, credited)
         IN  p \in Nat /\ b \in 0 .. 5 /\ Index(p, b) \in 0 .. 100
<1> DEFINE p == CappedPenalty(fs, kinds)
           b == Bonus(fs, credited)
<1>1. p \in Nat /\ b \in 0 .. 5
  BY PenaltyFacts, BonusFacts
<1> HIDE DEF p, b
<1>2. Index(p, b) \in 0 .. 100
  BY <1>1, IndexIs
<1> QED
  BY <1>1, <1>2 DEF p, b

LEMMA CurrentTypeOK == Current => TypeOK
<1> SUFFICES ASSUME Current PROVE TypeOK
  OBVIOUS
<1>1. report = ReportOf(findings) /\ findings \in [Kind -> Nat]
  BY DEF Current
<1>2. report.debt.score \in 0 .. 100
  BY <1>1, KindSets, IndexType DEF ReportOf, Score
<1>3. report.risk = Absent \/ report.risk.score \in 0 .. 100
  BY <1>1, KindSets, IndexType DEF ReportOf, ArchitectureRisk
<1>4. report.fidelity \in Share \cup {Absent}
  <2>1. {k \in Reconciled : k.classification = "confirmed"} \in SUBSET Reconciled
    OBVIOUS
  <2> QED
    BY <1>1, <2>1, KindSets, ShareType DEF ReportOf, DocFidelity
<1>5. report.confidence \in Share \cup {Absent}
  <2>1. {k \in Rated : k.confidence = "high"} \in SUBSET Rated
    OBVIOUS
  <2> QED
    BY <1>1, <2>1, KindSets, ShareType DEF ReportOf, EvidenceConfidence
<1> QED
  BY <1>1, <1>2, <1>3, <1>4, <1>5 DEF TypeOK

\* Every figure is of its type: no index leaves 0 .. 100, no share either.
THEOREM FiguresTypes == Spec => []TypeOK
BY CurrentAlways, CurrentTypeOK, PTL

LEMMA CurrentHigh == Current => HighConcernShows
<1> SUFFICES ASSUME Current, NEW k \in Concerns, findings[k] > 0, k.severity = "high"
             PROVE  /\ report.debt.score < 100
                    /\ k \in Risks => report.risk.score < 100
  BY DEF HighConcernShows
<1>1. report = ReportOf(findings) /\ findings \in [Kind -> Nat]
  BY DEF Current
<1>2. ASSUME NEW kinds \in SUBSET Kind, k \in kinds, NEW credited \in SUBSET Kind
      PROVE  Index(CappedPenalty(findings, kinds), Bonus(findings, credited)) < 100
  <2> DEFINE p == CappedPenalty(findings, kinds)
             b == Bonus(findings, credited)
  <2>1. p \in Nat /\ b \in 0 .. 5 /\ p >= 6
    BY <1>1, <1>2, IndexType, PenaltyFacts
  <2> HIDE DEF p, b
  <2>2. Index(p, b) < 100
    BY <2>1, IndexIs
  <2> QED
    BY <2>2 DEF p, b
<1>3. report.debt.score < 100
  BY <1>1, <1>2, KindSets DEF ReportOf, Score
<1>4. ASSUME k \in Risks
      PROVE  report.risk.score < 100
  <2>1. k \in Evaluated
    BY <1>4 DEF Risks
  <2>2. Many(findings, Evaluated) # 0
    <3>1. findings[k] <= Total(findings, Evaluated)
      BY <1>1, <2>1, KindSets, ManyType, TotalTerm
    <3>2. findings[k] \in Nat
      BY <1>1, KindSets
    <3> QED
      BY <3>1, <3>2 DEF Many
  <2>3. Index(CappedPenalty(findings, Risks), Bonus(findings, Evaluated)) < 100
    BY <1>2, <1>4, KindSets
  <2> QED
    BY <1>1, <2>2, <2>3 DEF ReportOf, ArchitectureRisk
<1> QED
  BY <1>3, <1>4

\* Whatever strengths are credited, an index that charges a high concern stays
\* below 100.
THEOREM HighNeverHidden == Spec => []HighConcernShows
BY CurrentAlways, CurrentHigh, PTL

\* Findings of one dimension at most leave an index in the best band.
LEMMA OneDimension ==
  ASSUME NEW fs \in [Kind -> Nat], NEW kinds \in SUBSET Kind, NEW credited \in SUBSET Kind,
         Index(CappedPenalty(fs, kinds), Bonus(fs, credited)) < 80
  PROVE  Cardinality({Dim(k) : k \in {j \in kinds : fs[j] > 0 /\ Weight(j) > 0}}) >= 2
<1> DEFINE charged == {j \in kinds : fs[j] > 0 /\ Weight(j) > 0}
           C == {Dim(k) : k \in charged}
           p == CappedPenalty(fs, kinds)
           b == Bonus(fs, credited)
<1>1. IsFiniteSet(C) /\ Cardinality(C) \in Nat
  <2>1. charged \subseteq Kind
    OBVIOUS
  <2> HIDE DEF charged
  <2>2. IsFiniteSet(C)
    BY <2>1, DimsFinite
  <2> QED
    BY <2>2, FS_CardinalityType
<1>2. p > 15
  <2>1. p \in Nat /\ b \in 0 .. 5 /\ Index(p, b) < 80
    BY IndexType
  <2> HIDE DEF p, b
  <2> QED
    BY <2>1, IndexIs
<1>3. PICK j \in charged, k \in charged : Dim(j) # Dim(k)
  BY <1>2, PenaltyFacts
<1>4. Dim(j) \in C /\ Dim(k) \in C
  OBVIOUS
<1> HIDE DEF C, charged
<1>5. Cardinality(C) # 0 /\ Cardinality(C) # 1
  <2>1. C # {} /\ ~ \E x : C = {x}
    BY <1>3, <1>4
  <2> QED
    BY <1>1, <2>1, FS_EmptySet, FS_Singleton
<1>6. Cardinality(C) >= 2
  BY <1>1, <1>5
<1> QED
  BY <1>6 DEF C, charged

LEMMA CurrentTwo == Current => TwoDimensionsDecide
<1> SUFFICES ASSUME Current PROVE TwoDimensionsDecide
  OBVIOUS
<1> DEFINE Charged(kinds) == {Dim(k) : k \in {j \in kinds : findings[j] > 0 /\ Weight(j) > 0}}
<1>1. report = ReportOf(findings) /\ findings \in [Kind -> Nat]
  BY DEF Current
<1>2. ASSUME report.debt.label # "Strong"
      PROVE  Cardinality(Charged(Concerns)) >= 2
  <2> DEFINE index == Index(CappedPenalty(findings, Concerns), Bonus(findings, Kind))
  <2>1. index \in 0 .. 100
    BY <1>1, KindSets, IndexType
  <2>2. report.debt.label = CASE index >= 80          -> "Strong"
                             [] index \in 60 .. 79 -> "Solid"
                             [] index \in 40 .. 59 -> "Notable debt"
                             [] index \in 20 .. 39 -> "Significant debt"
                             [] OTHER              -> "Critical"
    BY <1>1 DEF ReportOf, Score
  <2>3. report.debt.label = "Strong" \/ index < 80
    <3> HIDE DEF index
    <3>1. CASE index >= 80
      <4>1. index \notin 60 .. 79 /\ index \notin 40 .. 59 /\ index \notin 20 .. 39
        BY <2>1, <3>1
      <4> QED
        BY <2>2, <3>1, <4>1, Zenon
    <3> QED
      BY <2>1, <3>1
  <2> QED
    BY <1>1, <1>2, <2>3, KindSets, OneDimension
<1>3. ASSUME report.risk # Absent, report.risk.label # "Low"
      PROVE  Cardinality(Charged(Risks)) >= 2
  <2> DEFINE index == Index(CappedPenalty(findings, Risks), Bonus(findings, Evaluated))
  <2>1. index \in 0 .. 100
    BY <1>1, KindSets, IndexType
  <2>2. report.risk.label = "Low" \/ index < 80
    BY <1>1, <1>3, <2>1 DEF ReportOf, ArchitectureRisk
  <2> QED
    BY <1>1, <1>3, <2>2, KindSets, OneDimension
<1> QED
  BY <1>2, <1>3 DEF TwoDimensionsDecide

\* The best band is left only when two dimensions or more have concerns.
THEOREM NoDimensionDecides == Spec => []TwoDimensionsDecide
BY CurrentAlways, CurrentTwo, PTL

LEMMA CurrentFaithful == Current => FaithfulMeansFaithful
<1> SUFFICES ASSUME Current, report.fidelity # Absent
             PROVE  report.fidelity.percent = 100 <=>
                      200 * Many(findings, {k \in Reconciled : k.classification # "confirmed"})
                        <= report.fidelity.of
  BY DEF FaithfulMeansFaithful
<1> DEFINE good == {k \in Reconciled : k.classification = "confirmed"}
           bad == {k \in Reconciled : k.classification # "confirmed"}
<1>1. findings \in [Kind -> Nat] /\ report.fidelity = ShareOf(findings, Reconciled, good)
  BY DEF Current, ReportOf, DocFidelity
<1>2. bad = Reconciled \ good /\ good \in SUBSET Reconciled
  OBVIOUS
<1>3. Many(findings, Reconciled) # 0 /\ report.fidelity.of = Many(findings, Reconciled)
  BY <1>1 DEF ShareOf
<1> HIDE DEF good, bad
<1>4. report.fidelity.percent = 100
        <=> 200 * Many(findings, Reconciled \ good) <= Many(findings, Reconciled)
  BY <1>1, <1>2, <1>3, KindSets, ShareType
<1>5. report.fidelity.percent = 100 <=> 200 * Many(findings, bad) <= report.fidelity.of
  BY <1>2, <1>3, <1>4
<1> QED
  BY <1>5 DEF bad

\* The fidelity reads 100% when one claim in two hundred is wrong, or fewer.
THEOREM FidelityFull == Spec => []FaithfulMeansFaithful
BY CurrentAlways, CurrentFaithful, PTL

---------------------------------------------------------------------------
(* Fixing a concern.                                                       *)

\* The concern k is gone from gs, or has become the finding j.
Cleared(fs, gs, k) == gs = Without(fs, k)
Judged(fs, gs, k, j) ==
  /\ gs = With(Without(fs, k), j)
  /\ Dim(j) = Dim(k)
  /\ \/ j.classification = "confirmed"
     \/ j.classification = k.classification /\ Weight(j) <= Weight(k)

LEMMA FixIs ==
  ASSUME NEW fs \in [Kind -> Nat], NEW gs, Fixes(fs, gs)
  PROVE  /\ gs \in [Kind -> Nat]
         /\ \E k \in Concerns : /\ ~k.tagged /\ fs[k] > 0
                                /\ Cleared(fs, gs, k) \/ \E j \in Kind : Judged(fs, gs, k, j)
<1>1. PICK k \in Concerns : /\ ~k.tagged /\ fs[k] > 0
                            /\ Cleared(fs, gs, k) \/ \E j \in Kind : Judged(fs, gs, k, j)
  BY DEF Fixes, Cleared, Judged
<1>2. k \in Kind /\ Without(fs, k) \in [Kind -> Nat]
  BY <1>1, ChargeWithout, KindSets
<1>3. \A j \in Kind : With(Without(fs, k), j) \in [Kind -> Nat]
  BY <1>2, ChargeWith
<1> QED
  BY <1>1, <1>2, <1>3 DEF Cleared, Judged

\* What a fix does to a count and to a charge.
LEMMA FixCounts ==
  ASSUME NEW fs \in [Kind -> Nat], NEW gs, NEW k \in Kind, fs[k] > 0,
         NEW kinds \in SUBSET Kind
  PROVE  /\ Many(fs, kinds) \in Nat /\ Charge(fs, kinds) \in Nat
         /\ Cleared(fs, gs, k) =>
              /\ Many(gs, kinds) = Many(fs, kinds) - IF k \in kinds THEN 1 ELSE 0
              /\ Charge(gs, kinds) = Charge(fs, kinds) - IF k \in kinds THEN Weight(k) ELSE 0
         /\ \A j \in Kind : Judged(fs, gs, k, j) =>
              /\ Many(gs, kinds) = (Many(fs, kinds) - IF k \in kinds THEN 1 ELSE 0)
                                  + IF j \in kinds THEN 1 ELSE 0
              /\ Charge(gs, kinds) = (Charge(fs, kinds) - IF k \in kinds THEN Weight(k) ELSE 0)
                                    + IF j \in kinds THEN Weight(j) ELSE 0
<1> DEFINE hs == Without(fs, k)
<1>1. /\ hs \in [Kind -> Nat]
      /\ Many(hs, kinds) = Many(fs, kinds) - IF k \in kinds THEN 1 ELSE 0
      /\ Charge(hs, kinds) = Charge(fs, kinds) - IF k \in kinds THEN Weight(k) ELSE 0
  BY ChargeWithout
<1>2. Many(fs, kinds) \in Nat /\ Charge(fs, kinds) \in Nat
  BY ManyType, ChargeFacts
<1>3. Cleared(fs, gs, k) => gs = hs
  BY DEF Cleared
<1>4. \A j \in Kind : Judged(fs, gs, k, j) => gs = With(hs, j)
  BY DEF Judged
<1> HIDE DEF hs
<1>5. ASSUME NEW j \in Kind, Judged(fs, gs, k, j)
      PROVE  /\ Many(gs, kinds) = Many(hs, kinds) + IF j \in kinds THEN 1 ELSE 0
             /\ Charge(gs, kinds) = Charge(hs, kinds) + IF j \in kinds THEN Weight(j) ELSE 0
  <2>1. gs = With(hs, j)
    BY <1>4, <1>5
  <2> QED
    BY <1>1, <2>1, ChargeWith
<1> QED
  BY <1>1, <1>2, <1>3, <1>5

\* An index over concerns does not fall when one of them is fixed.
LEMMA IndexKept ==
  ASSUME NEW fs \in [Kind -> Nat], NEW gs, Fixes(fs, gs), NEW credited \in SUBSET Kind,
         NEW kinds \in {Concerns, Risks}
  PROVE  Index(CappedPenalty(gs, kinds), Bonus(gs, credited))
           >= Index(CappedPenalty(fs, kinds), Bonus(fs, credited))
<1>1. PICK k \in Concerns : /\ ~k.tagged /\ fs[k] > 0
                            /\ Cleared(fs, gs, k) \/ \E j \in Kind : Judged(fs, gs, k, j)
  BY DEF Fixes, Cleared, Judged
<1>2. gs \in [Kind -> Nat] /\ k \in Kind /\ kinds \in SUBSET Kind
  BY FixIs, KindSets
<1>3. ASSUME NEW d
      PROVE  Charge(gs, Slice(kinds, d)) <= Charge(fs, Slice(kinds, d))
  <2> DEFINE S == Slice(kinds, d)
  <2>1. S \in SUBSET Kind
    BY <1>2 DEF Slice
  <2>2. ASSUME NEW j \in Kind, Judged(fs, gs, k, j), j \in S
        PROVE  k \in S /\ Weight(j) <= Weight(k)
    BY <1>1, <2>2 DEF Judged, Slice, Concerns, Risks, Evaluated
  <2> HIDE DEF S
  <2>3. Weight(k) \in Nat /\ \A j \in Kind : Weight(j) \in Nat
    BY WeightType
  <2>4. CASE Cleared(fs, gs, k)
    <3>1. /\ Charge(gs, S) = Charge(fs, S) - IF k \in S THEN Weight(k) ELSE 0
          /\ Charge(fs, S) \in Nat
      BY <1>1, <1>2, <2>1, <2>4, FixCounts
    <3>2. Charge(gs, S) <= Charge(fs, S)
      BY <2>3, <3>1
    <3> QED
      BY <3>2 DEF S
  <2>5. ASSUME NEW j \in Kind, Judged(fs, gs, k, j)
        PROVE  Charge(gs, S) <= Charge(fs, S)
    <3>1. /\ Charge(gs, S) = (Charge(fs, S) - IF k \in S THEN Weight(k) ELSE 0)
                             + IF j \in S THEN Weight(j) ELSE 0
          /\ Charge(fs, S) \in Nat
      BY <1>1, <1>2, <2>1, <2>5, FixCounts
    <3>2. j \in S => k \in S /\ Weight(j) <= Weight(k)
      BY <2>2, <2>5
    <3> QED
      BY <2>3, <3>1, <3>2
  <2> QED
    BY <1>1, <2>4, <2>5 DEF S
<1> DEFINE p == CappedPenalty(fs, kinds)
           q == CappedPenalty(gs, kinds)
           b == Bonus(fs, credited)
           c == Bonus(gs, credited)
<1>4. q <= p
  BY <1>2, <1>3, PenaltyLeq
<1>5. b <= c
  <2> DEFINE strong == {i \in credited : IsStrength(i)}
  <2>1. strong \in SUBSET Kind /\ k \notin strong
    BY <1>1 DEF IsStrength, Concerns
  <2>2. /\ Many(fs, strong) \in Nat /\ Many(gs, strong) \in Nat
        /\ b = IF 5 <= Many(fs, strong) THEN 5 ELSE Many(fs, strong)
        /\ c = IF 5 <= Many(gs, strong) THEN 5 ELSE Many(gs, strong)
    BY <1>2, BonusFacts
  <2> HIDE DEF strong, b, c
  <2>3. Many(fs, strong) <= Many(gs, strong)
    <3>1. CASE Cleared(fs, gs, k)
      <4>1. Many(gs, strong) = Many(fs, strong) - IF k \in strong THEN 1 ELSE 0
        BY <1>1, <1>2, <2>1, <3>1, FixCounts
      <4> QED
        BY <2>1, <2>2, <4>1
    <3>2. ASSUME NEW j \in Kind, Judged(fs, gs, k, j)
          PROVE  Many(fs, strong) <= Many(gs, strong)
      <4>1. \A i \in Kind : Judged(fs, gs, k, i) =>
              Many(gs, strong) = (Many(fs, strong) - IF k \in strong THEN 1 ELSE 0)
                                 + IF i \in strong THEN 1 ELSE 0
        BY <1>1, <1>2, <2>1, FixCounts
      <4>2. Many(gs, strong) = (Many(fs, strong) - IF k \in strong THEN 1 ELSE 0)
                               + IF j \in strong THEN 1 ELSE 0
        BY <3>2, <4>1
      <4> QED
        BY <2>1, <2>2, <4>2
    <3> QED
      BY <1>1, <3>1, <3>2
  <2> QED
    BY <2>2, <2>3
<1>6. p \in Nat /\ q \in Nat /\ b \in 0 .. 5 /\ c \in 0 .. 5
  BY <1>2, IndexType
<1> HIDE DEF p, q, b, c
<1>7. Index(q, c) >= Index(p, b)
  BY <1>4, <1>5, <1>6, IndexIs
<1> QED
  BY <1>7 DEF p, q, b, c

\* Nor does the documentation fidelity: of n reconciled claims, g confirmed, a
\* fix takes an unconfirmed one away, confirms it, or leaves both numbers.
LEMMA FidelityKept ==
  ASSUME NEW fs \in [Kind -> Nat], NEW gs, Fixes(fs, gs),
         DocFidelity(fs) # Absent, DocFidelity(gs) # Absent
  PROVE  DocFidelity(gs).percent >= DocFidelity(fs).percent
<1> DEFINE good == {i \in Reconciled : i.classification = "confirmed"}
           n == Many(fs, Reconciled)
           m == Many(gs, Reconciled)
           g == Many(fs, good)
           h == Many(gs, good)
<1>1. PICK k \in Concerns : /\ ~k.tagged /\ fs[k] > 0
                            /\ Cleared(fs, gs, k) \/ \E j \in Kind : Judged(fs, gs, k, j)
  BY DEF Fixes, Cleared, Judged
<1>2. gs \in [Kind -> Nat] /\ k \in Kind
  BY FixIs, KindSets
<1>3. k \notin good /\ good \in SUBSET Reconciled /\ good \in SUBSET Kind
  BY KindSets DEF Concerns
<1>4. /\ n # 0 /\ m # 0
      /\ DocFidelity(fs).percent = Percent(g, n)
      /\ DocFidelity(gs).percent = Percent(h, m)
  BY DEF DocFidelity, ShareOf
<1>5. /\ n \in Nat /\ g \in Nat /\ g <= n
      /\ m \in Nat /\ h \in Nat
  <2>1. Many(fs, Reconciled \ good) \in Nat /\ n = g + Many(fs, Reconciled \ good)
    BY <1>3, KindSets, ManyPart
  <2>2. n \in Nat /\ g \in Nat /\ m \in Nat /\ h \in Nat
    BY <1>2, <1>3, KindSets, ManyType
  <2> HIDE DEF n, g, m, h, good
  <2> QED
    BY <2>1, <2>2
<1>6. ASSUME NEW j \in Kind, Judged(fs, gs, k, j)
      PROVE  \/ j \in good /\ j \in Reconciled
             \/ j \notin good /\ (j \in Reconciled <=> k \in Reconciled)
  BY <1>1, <1>6 DEF Judged, Concerns, Reconciled
<1> HIDE DEF good
<1>7. (m = n /\ h = g) \/ (m = n - 1 /\ h = g) \/ (m \in {n, n + 1} /\ h = g + 1)
  <2>1. CASE Cleared(fs, gs, k)
    <3>1. m = n - IF k \in Reconciled THEN 1 ELSE 0
      BY <1>1, <1>2, <2>1, KindSets, FixCounts
    <3>2. h = g - IF k \in good THEN 1 ELSE 0
      BY <1>1, <1>2, <1>3, <2>1, FixCounts
    <3> HIDE DEF n, m, g, h
    <3> QED
      BY <1>3, <1>5, <3>1, <3>2
  <2>2. ASSUME NEW j \in Kind, Judged(fs, gs, k, j)
        PROVE  (m = n /\ h = g) \/ (m \in {n, n + 1} /\ h = g + 1)
    <3>1. m = (n - IF k \in Reconciled THEN 1 ELSE 0) + IF j \in Reconciled THEN 1 ELSE 0
      <4>1. \A i \in Kind : Judged(fs, gs, k, i) =>
              m = (n - IF k \in Reconciled THEN 1 ELSE 0) + IF i \in Reconciled THEN 1 ELSE 0
        BY <1>1, <1>2, KindSets, FixCounts
      <4> QED
        BY <2>2, <4>1
    <3>2. h = (g - IF k \in good THEN 1 ELSE 0) + IF j \in good THEN 1 ELSE 0
      <4>1. \A i \in Kind : Judged(fs, gs, k, i) =>
              h = (g - IF k \in good THEN 1 ELSE 0) + IF i \in good THEN 1 ELSE 0
        BY <1>1, <1>2, <1>3, FixCounts
      <4> QED
        BY <2>2, <4>1
    <3>3. \/ j \in good /\ j \in Reconciled
          \/ j \notin good /\ (j \in Reconciled <=> k \in Reconciled)
      BY <1>6, <2>2
    <3> HIDE DEF n, m, g, h
    <3> QED
      BY <1>3, <1>5, <3>1, <3>2, <3>3
  <2> QED
    BY <1>1, <2>1, <2>2
<1> HIDE DEF n, m, g, h
<1>8. g * m <= h * n
  <2>1. CASE m = n /\ h = g
    <3>1. g * n \in Nat
      BY <1>5
    <3> QED
      BY <2>1, <3>1
  <2>2. CASE m = n - 1 /\ h = g
    <3>1. g * (n - 1) = g * n - g
      BY <1>5
    <3>2. g * n \in Nat
      BY <1>5
    <3> QED
      BY <1>5, <2>2, <3>1, <3>2
  <2>3. CASE m \in {n, n + 1} /\ h = g + 1
    <3>1. (g + 1) * n = g * n + n /\ g * (n + 1) = g * n + g /\ g * n \in Nat
      BY <1>5
    <3> QED
      BY <1>5, <2>3, <3>1
  <2> QED
    BY <1>7, <2>1, <2>2, <2>3
<1>9. Percent(g, n) <= Percent(h, m)
  <2>1. n \in Nat \ {0} /\ m \in Nat \ {0}
    BY <1>4, <1>5
  <2> QED
    BY <1>5, <1>8, <2>1, PercentLeq
<1>10. Percent(g, n) \in Int /\ Percent(h, m) \in Int
  <2>1. \A a \in Nat, w \in Nat \ {0} : Percent(a, w) \in Int
    BY PercentIs
  <2> QED
    BY <1>4, <1>5, <2>1
<1> QED
  BY <1>4, <1>9, <1>10

LEMMA FixKeepsFigures ==
  ASSUME Current, Current', Fixes(findings, findings')
  PROVE  /\ report'.debt.score >= report.debt.score
         /\ NotWorse(FieldOf(report.risk, "score"), FieldOf(report'.risk, "score"))
         /\ NotWorse(FieldOf(report.fidelity, "percent"),
                     FieldOf(report'.fidelity, "percent"))
<1>1. /\ findings \in [Kind -> Nat] /\ findings' \in [Kind -> Nat]
      /\ report = ReportOf(findings) /\ report' = ReportOf(findings')
  BY DEF Current
<1>2. report'.debt.score >= report.debt.score
  BY <1>1, KindSets, IndexKept DEF ReportOf, Score
<1>3. NotWorse(FieldOf(report.risk, "score"), FieldOf(report'.risk, "score"))
  <2>1. CASE report.risk = Absent \/ report'.risk = Absent
    BY <2>1 DEF NotWorse, FieldOf
  <2>2. CASE report.risk # Absent /\ report'.risk # Absent
    <3>1. report'.risk.score >= report.risk.score
      BY <1>1, <2>2, KindSets, IndexKept DEF ReportOf, ArchitectureRisk
    <3> QED
      BY <2>2, <3>1 DEF NotWorse, FieldOf
  <2> QED
    BY <2>1, <2>2
<1>4. NotWorse(FieldOf(report.fidelity, "percent"), FieldOf(report'.fidelity, "percent"))
  <2>1. CASE report.fidelity = Absent \/ report'.fidelity = Absent
    BY <2>1 DEF NotWorse, FieldOf
  <2>2. CASE report.fidelity # Absent /\ report'.fidelity # Absent
    <3>1. report.fidelity = DocFidelity(findings) /\ report'.fidelity = DocFidelity(findings')
      BY <1>1 DEF ReportOf
    <3>2. report'.fidelity.percent >= report.fidelity.percent
      BY <1>1, <2>2, <3>1, FidelityKept
    <3> QED
      BY <2>2, <3>2 DEF NotWorse, FieldOf
  <2> QED
    BY <2>1, <2>2
<1> QED
  BY <1>2, <1>3, <1>4

\* Fixing one concern lowers neither index nor the documentation fidelity.
THEOREM FixingHelps == Spec => FixesNeverHurt
<1>1. Current /\ Current' /\ [Next]_vars =>
        [Fixes(findings, findings') =>
           /\ report'.debt.score >= report.debt.score
           /\ NotWorse(FieldOf(report.risk, "score"), FieldOf(report'.risk, "score"))
           /\ NotWorse(FieldOf(report.fidelity, "percent"),
                       FieldOf(report'.fidelity, "percent"))]_vars
  BY FixKeepsFigures
<1> QED
  BY <1>1, CurrentAlways, PTL DEF Spec, FixesNeverHurt
===========================================================================
