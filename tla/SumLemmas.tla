------------------------------ MODULE SumLemmas ------------------------------
(***************************************************************************)
(* Sums of finitely many numbers, and induction without an operator for    *)
(* what is to be proved: a claim about every number fails, if it fails,    *)
(* for a least one (LeastNat), and one about every finite set for one of   *)
(* least cardinality (LeastSet).                                           *)
(*                                                                         *)
(* SumFunctionOnSet(f, S), of the community module Functions, folds + over *)
(* S: it is the value at S of a function on the subsets of S that is       *)
(* defined by recursion.  That there is such a function is SumDefined, and *)
(* what the proofs use of a sum follows from it by induction.              *)
(***************************************************************************)
EXTENDS Integers, FiniteSets, Functions, FiniteSetTheorems, WellFoundedInduction, TLAPS

LessThan == {p \in Nat \X Nat : p[1] < p[2]}

(* The library states it of the relation as an operator. *)
LEMMA LessThanWellFounded == IsWellFoundedOn(LessThan, Nat)
<1>1. OpToRel(<, Nat) = LessThan
  BY DEF OpToRel, LessThan
<1> QED
  BY <1>1, NatLessThanWellFounded

(* A set of numbers that is not empty has a least element. *)
LEMMA LeastNat ==
  ASSUME NEW T \in SUBSET Nat, T # {}
  PROVE  \E n \in T : \A m \in T : n <= m
<1>1. PICK n \in T : \A m \in T : ~ (<<m, n>> \in LessThan)
  BY LessThanWellFounded, WFMin
<1>2. ASSUME NEW m \in T PROVE n <= m
  <2>1. m \in Nat /\ n \in Nat /\ <<m, n>> \notin LessThan
    BY <1>1
  <2>2. ~ (m < n)
    BY <2>1 DEF LessThan
  <2> QED
    BY <2>1, <2>2
<1> QED
  BY <1>2

(* A collection of finite sets that is not empty has one of least cardinality. *)
LEMMA LeastSet ==
  ASSUME NEW B, B # {}, \A s \in B : IsFiniteSet(s)
  PROVE  \E s \in B : \A t \in B : Cardinality(s) <= Cardinality(t)
<1> DEFINE T == {Cardinality(s) : s \in B}
<1>1. T \in SUBSET Nat /\ T # {}
  BY FS_CardinalityType
<1>2. PICK n \in T : \A m \in T : n <= m
  BY <1>1, LeastNat
<1>3. PICK s \in B : n = Cardinality(s)
  BY <1>2
<1> QED
  BY <1>2, <1>3

-----------------------------------------------------------------------------
(* The recursion, for f summed over the subsets of S. *)
Pick(s) == CHOOSE x \in s : TRUE
Plus(x, y) == x + y
Smaller(r, s) == Cardinality(r) < Cardinality(s)
Step(f, g, s) == IF s = {} THEN 0 ELSE Plus(f[Pick(s)], g[s \ {Pick(s)}])
Sums(f, S, g) == g = [s \in SUBSET S |-> Step(f, g, s)]
Table(f, S) == CHOOSE g : Sums(f, S, g)

(* A sum is the last value of that function. *)
LEMMA SumUnfolds ==
  ASSUME NEW S, NEW f
  PROVE  SumFunctionOnSet(f, S) = Table(f, S)[S]
 BY DEF SumFunctionOnSet, FoldFunctionOnSet, MapThenFoldSet, Sums, Step, Pick, Plus, Table

(* g follows the recursion on the sets of at most n elements. *)
UpTo(f, S, g, n) == \A s \in SUBSET S : Cardinality(s) <= n => g[s] = Step(f, g, s)

(* One more round of the recursion keeps that and adds the next cardinality. *)
LEMMA UpToStep ==
  ASSUME NEW S, IsFiniteSet(S), NEW f, NEW n \in Nat, NEW g, UpTo(f, S, g, n)
  PROVE  UpTo(f, S, [s \in SUBSET S |-> Step(f, g, s)], n + 1)
<1> DEFINE h == [s \in SUBSET S |-> Step(f, g, s)]
<1>1. \A s \in SUBSET S : Cardinality(s) <= n => h[s] = g[s]
  BY DEF UpTo
<1>2. ASSUME NEW s \in SUBSET S, Cardinality(s) <= n + 1
      PROVE  h[s] = Step(f, h, s)
  <2>1. CASE s = {}
    BY <2>1 DEF Step, Pick
  <2>2. CASE s # {}
    <3> DEFINE x == Pick(s)
    <3>1. x \in s
      BY <2>2 DEF Pick
    <3>2. IsFiniteSet(s)
      BY FS_Subset
    <3>3. Cardinality(s \ {x}) = Cardinality(s) - 1 /\ Cardinality(s) \in Nat
      BY <3>1, <3>2, FS_RemoveElement, FS_CardinalityType
    <3>4. h[s \ {x}] = g[s \ {x}]
      <4> HIDE DEF h, x
      <4>1. s \ {x} \in SUBSET S
        OBVIOUS
      <4>2. Cardinality(s \ {x}) <= n
        BY <1>2, <3>3
      <4> QED
        BY <1>1, <4>1, <4>2
    <3> QED
      BY <2>2, <3>4 DEF Step, Pick
  <2> QED
    BY <2>1, <2>2
<1> QED
  BY <1>2 DEF UpTo

(* The recursion defines a function. *)
LEMMA SumDefined ==
  ASSUME NEW S, IsFiniteSet(S), NEW f
  PROVE  Sums(f, S, Table(f, S))
<1> DEFINE Bad == {n \in Nat : ~ \E g : UpTo(f, S, g, n)}
<1>1. Bad = {}
  <2> SUFFICES ASSUME Bad # {} PROVE FALSE
    OBVIOUS
  <2>1. PICK n \in Bad : \A m \in Bad : n <= m
    BY LeastNat
  <2>2. CASE n = 0
    <3> DEFINE z == [s \in SUBSET S |-> 0]
    <3>1. UpTo(f, S, z, 0)
      <4> SUFFICES ASSUME NEW s \in SUBSET S, Cardinality(s) <= 0
                   PROVE z[s] = Step(f, z, s)
        BY DEF UpTo
      <4>1. s = {}
        BY FS_Subset, FS_EmptySet, FS_CardinalityType
      <4> QED
        BY <4>1 DEF Step, Pick
    <3> QED
      BY <2>2, <3>1
  <2>3. CASE n # 0
    <3>1. n - 1 \in Nat /\ n - 1 \notin Bad /\ n = (n - 1) + 1
      BY <2>1, <2>3
    <3>2. PICK g : UpTo(f, S, g, n - 1)
      BY <3>1
    <3>3. UpTo(f, S, [s \in SUBSET S |-> Step(f, g, s)], n)
      BY <3>1, <3>2, UpToStep
    <3> QED
      BY <3>3
  <2> QED
    BY <2>2, <2>3
<1>2. Cardinality(S) \in Nat
  BY FS_CardinalityType
<1>3. PICK g : UpTo(f, S, g, Cardinality(S))
  BY <1>1, <1>2
<1>4. UpTo(f, S, [s \in SUBSET S |-> Step(f, g, s)], Cardinality(S) + 1)
  BY <1>2, <1>3, UpToStep
<1> DEFINE h == [s \in SUBSET S |-> Step(f, g, s)]
<1>5. ASSUME NEW s \in SUBSET S PROVE Cardinality(s) <= Cardinality(S) + 1
  <2>1. Cardinality(s) \in Nat /\ Cardinality(s) <= Cardinality(S)
    BY FS_Subset, FS_CardinalityType
  <2> QED
    BY <1>2, <2>1
<1>6. \A s \in SUBSET S : h[s] = Step(f, h, s)
  BY <1>4, <1>5 DEF UpTo
<1> HIDE DEF h
<1>7. h = [s \in SUBSET S |-> h[s]]
  BY DEF h
<1>8. h = [s \in SUBSET S |-> Step(f, h, s)]
  BY <1>6, <1>7
<1> QED
  BY <1>8 DEF Sums, Table

(* What the recursion says of one set. *)
LEMMA TableStep ==
  ASSUME NEW S, IsFiniteSet(S), NEW f, NEW s \in SUBSET S
  PROVE  Table(f, S)[s] = Step(f, Table(f, S), s)
<1>1. \A g : Sums(f, S, g) => g[s] = Step(f, g, s)
  BY DEF Sums
<1> QED
  BY <1>1, SumDefined

(* The empty set is where it ends. *)
LEMMA TableAtEmpty ==
  ASSUME NEW S, IsFiniteSet(S), NEW f
  PROVE  Table(f, S)[{}] = 0
<1>1. Table(f, S)[{}] = Step(f, Table(f, S), {})
  BY TableStep
<1> QED
  BY <1>1 DEF Step

(* Any other set has one of its elements added to what is left without it. *)
LEMMA TableAt ==
  ASSUME NEW S, IsFiniteSet(S), NEW f, NEW s \in SUBSET S, s # {}
  PROVE  /\ Pick(s) \in s
         /\ s \ {Pick(s)} \in SUBSET S
         /\ Smaller(s \ {Pick(s)}, s)
         /\ Table(f, S)[s] = Plus(f[Pick(s)], Table(f, S)[s \ {Pick(s)}])
<1>1. Pick(s) \in s
  BY DEF Pick
<1>2. IsFiniteSet(s)
  BY FS_Subset
<1>3. Cardinality(s \ {Pick(s)}) = Cardinality(s) - 1 /\ Cardinality(s) \in Nat
  BY <1>1, <1>2, FS_RemoveElement, FS_CardinalityType
<1>4. Smaller(s \ {Pick(s)}, s)
  BY <1>3 DEF Smaller
<1>5. Table(f, S)[s] = Step(f, Table(f, S), s)
  BY TableStep
<1>6. Table(f, S)[s] = Plus(f[Pick(s)], Table(f, S)[s \ {Pick(s)}])
  BY <1>5 DEF Step
<1> QED
  BY <1>1, <1>4, <1>6

(* The same of two functions at once, for all sets. *)
LEMMA TwoTables ==
  ASSUME NEW S, IsFiniteSet(S), NEW f, NEW h
  PROVE  \A s \in SUBSET S : s # {} =>
           /\ Pick(s) \in s
           /\ s \ {Pick(s)} \in SUBSET S
           /\ Smaller(s \ {Pick(s)}, s)
           /\ Table(f, S)[s] = Plus(f[Pick(s)], Table(f, S)[s \ {Pick(s)}])
           /\ Table(h, S)[s] = Plus(h[Pick(s)], Table(h, S)[s \ {Pick(s)}])
BY TableAt

(* A sum of natural numbers is one. *)
LEMMA SumIsNat ==
  ASSUME NEW S, IsFiniteSet(S), NEW f, \A x \in S : f[x] \in Nat
  PROVE  SumFunctionOnSet(f, S) \in Nat
<1> DEFINE Bad == {s \in SUBSET S : Table(f, S)[s] \notin Nat}
<1>1. Bad = {}
  <2> SUFFICES ASSUME Bad # {} PROVE FALSE
    OBVIOUS
  <2>1. \A s \in Bad : IsFiniteSet(s)
    BY FS_Subset
  <2>2. PICK s \in Bad : \A t \in Bad : Cardinality(s) <= Cardinality(t)
    BY <2>1, LeastSet
  <2>3. s \in SUBSET S /\ Table(f, S)[s] \notin Nat
    BY <2>2
  <2>4. s # {}
    BY <2>3, TableAtEmpty
  <2> DEFINE r == s \ {Pick(s)}
  <2>5. /\ Pick(s) \in S /\ r \in SUBSET S /\ Smaller(r, s)
        /\ Table(f, S)[s] = Plus(f[Pick(s)], Table(f, S)[r])
    BY <2>3, <2>4, TableAt
  <2>6. Cardinality(r) \in Nat /\ Cardinality(s) \in Nat
    BY <2>3, <2>5, FS_Subset, FS_CardinalityType
  <2>7. r \notin Bad
    BY <2>2, <2>5, <2>6 DEF Smaller
  <2>8. Table(f, S)[r] \in Nat
    BY <2>5, <2>7
  <2> QED
    BY <2>3, <2>5, <2>8 DEF Plus
<1> QED
  BY <1>1, SumUnfolds

(* Two functions that differ at one point at most have sums that differ by as
   much. *)
LEMMA SumAtPoint ==
  ASSUME NEW S, IsFiniteSet(S), NEW f, NEW h, NEW a \in S,
         \A x \in S : f[x] \in Nat /\ h[x] \in Nat,
         \A x \in S \ {a} : f[x] = h[x]
  PROVE  SumFunctionOnSet(h, S) = SumFunctionOnSet(f, S) + (h[a] - f[a])
<1> DEFINE F == Table(f, S)
           H == Table(h, S)
<1>0. \A s \in SUBSET S : s # {} =>
        /\ Pick(s) \in s
        /\ s \ {Pick(s)} \in SUBSET S
        /\ Smaller(s \ {Pick(s)}, s)
        /\ F[s] = Plus(f[Pick(s)], F[s \ {Pick(s)}])
        /\ H[s] = Plus(h[Pick(s)], H[s \ {Pick(s)}])
  BY TwoTables
<1> DEFINE Good(s) == /\ F[s] \in Nat /\ H[s] \in Nat
                      /\ H[s] = F[s] + (IF a \in s THEN h[a] - f[a] ELSE 0)
           Bad == {s \in SUBSET S : ~ Good(s)}
<1>1. Bad = {}
  <2> SUFFICES ASSUME Bad # {} PROVE FALSE
    OBVIOUS
  <2>1. \A s \in Bad : IsFiniteSet(s)
    BY FS_Subset
  <2>2. PICK s \in Bad : \A t \in Bad : Cardinality(s) <= Cardinality(t)
    BY <2>1, LeastSet
  <2>3. s \in SUBSET S
    BY <2>2
  <2>6. ~ Good(s)
    BY <2>2
  <2>4. CASE s = {}
    <3>1. F[s] = 0 /\ H[s] = 0
      BY <2>4, TableAtEmpty
    <3> QED
      BY <2>6, <2>4, <3>1
  <2>5. CASE s # {}
    <3> DEFINE y == Pick(s)
               r == s \ {y}
    <3>1. /\ y \in s /\ y \in S /\ r \in SUBSET S /\ Smaller(r, s)
          /\ F[s] = Plus(f[y], F[r]) /\ H[s] = Plus(h[y], H[r])
      <4> HIDE DEF F, H, Good, Bad
      <4> QED
        BY <2>3, <2>5, <1>0
    <3>2. Cardinality(r) \in Nat /\ Cardinality(s) \in Nat
      BY <2>3, <3>1, FS_Subset, FS_CardinalityType
    <3>3. r \notin Bad
      BY <2>2, <3>1, <3>2 DEF Smaller
    <3>4. Good(r)
      BY <3>1, <3>3
    <3> HIDE DEF F, H, y
    <3>5. f[y] \in Nat /\ h[y] \in Nat /\ f[a] \in Nat /\ h[a] \in Nat
      BY <3>1
    <3>6. CASE y = a
      <4>1. a \in s /\ a \notin r
        BY <3>1, <3>6
      <4>2. H[r] = F[r] /\ F[r] \in Nat
        BY <3>4, <4>1
      <4> QED
        BY <2>6, <3>1, <3>5, <3>6, <4>1, <4>2 DEF Plus
    <3>7. CASE y # a
      <4>1. f[y] = h[y] /\ (a \in s <=> a \in r)
        BY <3>1, <3>7
      <4> QED
        BY <2>6, <3>1, <3>4, <3>5, <4>1 DEF Plus
    <3> QED
      BY <3>6, <3>7
  <2> QED
    BY <2>4, <2>5
<1>2. Good(S)
  BY <1>1
<1> HIDE DEF F, H
<1>3. H[S] = F[S] + (h[a] - f[a])
  BY <1>2
<1> QED
  BY <1>3, SumUnfolds DEF F, H

(* Equal functions have equal sums. *)
LEMMA SumOfSame ==
  ASSUME NEW S, IsFiniteSet(S), NEW f, NEW h,
         \A x \in S : f[x] \in Nat, \A x \in S : h[x] = f[x]
  PROVE  SumFunctionOnSet(h, S) = SumFunctionOnSet(f, S)
<1>1. CASE S = {}
  <2>1. Table(f, S)[S] = 0 /\ Table(h, S)[S] = 0
    BY <1>1, TableAtEmpty
  <2> QED
    BY <2>1, SumUnfolds
<1>2. CASE S # {}
  <2>1. PICK a \in S : TRUE
    BY <1>2
  <2>2. SumFunctionOnSet(h, S) = SumFunctionOnSet(f, S) + (h[a] - f[a])
    BY <2>1, SumAtPoint
  <2>3. SumFunctionOnSet(f, S) \in Nat /\ f[a] \in Nat /\ h[a] = f[a]
    BY <2>1, SumIsNat
  <2> QED
    BY <2>2, <2>3
<1> QED
  BY <1>1, <1>2

(* A sum of zeros is 0. *)
LEMMA SumOfZeros ==
  ASSUME NEW S, IsFiniteSet(S), NEW f, \A x \in S : f[x] = 0
  PROVE  SumFunctionOnSet(f, S) = 0
<1> DEFINE Bad == {s \in SUBSET S : Table(f, S)[s] # 0}
<1>1. Bad = {}
  <2> SUFFICES ASSUME Bad # {} PROVE FALSE
    OBVIOUS
  <2>1. \A s \in Bad : IsFiniteSet(s)
    BY FS_Subset
  <2>2. PICK s \in Bad : \A t \in Bad : Cardinality(s) <= Cardinality(t)
    BY <2>1, LeastSet
  <2>3. s \in SUBSET S /\ s # {}
    BY <2>2, TableAtEmpty
  <2> DEFINE r == s \ {Pick(s)}
  <2>4. /\ Pick(s) \in S /\ r \in SUBSET S /\ Smaller(r, s)
        /\ Table(f, S)[s] = Plus(f[Pick(s)], Table(f, S)[r])
    BY <2>3, TableAt
  <2>5. Cardinality(r) \in Nat /\ Cardinality(s) \in Nat
    BY <2>3, <2>4, FS_Subset, FS_CardinalityType
  <2>6. Table(f, S)[r] = 0
    BY <2>2, <2>4, <2>5 DEF Smaller
  <2> QED
    BY <2>2, <2>4, <2>6 DEF Plus
<1> QED
  BY <1>1, SumUnfolds

(* No term is more than the sum. *)
LEMMA SumCovers ==
  ASSUME NEW S, IsFiniteSet(S), NEW f, \A x \in S : f[x] \in Nat, NEW a \in S
  PROVE  f[a] <= SumFunctionOnSet(f, S)
<1> DEFINE h == [x \in S |-> IF x = a THEN 0 ELSE f[x]]
<1>1. SumFunctionOnSet(h, S) = SumFunctionOnSet(f, S) + (h[a] - f[a])
  <2>1. \A x \in S : h[x] \in Nat
    OBVIOUS
  <2>2. \A x \in S \ {a} : f[x] = h[x]
    OBVIOUS
  <2> HIDE DEF h
  <2> QED
    BY <2>1, <2>2, SumAtPoint
<1>2. SumFunctionOnSet(h, S) \in Nat /\ SumFunctionOnSet(f, S) \in Nat
  <2>1. \A x \in S : h[x] \in Nat
    OBVIOUS
  <2> HIDE DEF h
  <2> QED
    BY <2>1, SumIsNat
<1>3. h[a] = 0 /\ f[a] \in Nat
  OBVIOUS
<1> HIDE DEF h
<1> QED
  BY <1>1, <1>2, <1>3

(* A sum of sums is the sum of both. *)
LEMMA SumOfPlus ==
  ASSUME NEW S, IsFiniteSet(S), NEW f, NEW g, NEW h,
         \A x \in S : f[x] \in Nat /\ g[x] \in Nat /\ h[x] = f[x] + g[x]
  PROVE  SumFunctionOnSet(h, S) = SumFunctionOnSet(f, S) + SumFunctionOnSet(g, S)
<1> DEFINE F == Table(f, S)
           G == Table(g, S)
           H == Table(h, S)
<1>0. \A s \in SUBSET S : s # {} =>
        /\ Pick(s) \in s
        /\ s \ {Pick(s)} \in SUBSET S
        /\ Smaller(s \ {Pick(s)}, s)
        /\ F[s] = Plus(f[Pick(s)], F[s \ {Pick(s)}])
        /\ G[s] = Plus(g[Pick(s)], G[s \ {Pick(s)}])
        /\ H[s] = Plus(h[Pick(s)], H[s \ {Pick(s)}])
  BY TableAt
<1> DEFINE Good(s) == F[s] \in Nat /\ G[s] \in Nat /\ H[s] = F[s] + G[s]
           Bad == {s \in SUBSET S : ~ Good(s)}
<1>1. Bad = {}
  <2> SUFFICES ASSUME Bad # {} PROVE FALSE
    OBVIOUS
  <2>1. \A s \in Bad : IsFiniteSet(s)
    BY FS_Subset
  <2>2. PICK s \in Bad : \A t \in Bad : Cardinality(s) <= Cardinality(t)
    BY <2>1, LeastSet
  <2>3. s \in SUBSET S /\ ~ Good(s)
    BY <2>2
  <2>4. CASE s = {}
    <3>1. F[s] = 0 /\ G[s] = 0 /\ H[s] = 0
      BY <2>4, TableAtEmpty
    <3> QED
      BY <2>3, <3>1
  <2>5. CASE s # {}
    <3> DEFINE y == Pick(s)
               r == s \ {y}
    <3>1. /\ y \in S /\ r \in SUBSET S /\ Smaller(r, s)
          /\ F[s] = Plus(f[y], F[r]) /\ G[s] = Plus(g[y], G[r]) /\ H[s] = Plus(h[y], H[r])
      <4> HIDE DEF F, G, H, Good, Bad
      <4> QED
        BY <2>3, <2>5, <1>0
    <3>2. Cardinality(r) \in Nat /\ Cardinality(s) \in Nat
      BY <2>3, <3>1, FS_Subset, FS_CardinalityType
    <3>3. Good(r)
      BY <2>2, <3>1, <3>2 DEF Smaller
    <3> HIDE DEF F, G, H, y
    <3> QED
      BY <2>3, <3>1, <3>3 DEF Plus
  <2> QED
    BY <2>4, <2>5
<1>2. Good(S)
  BY <1>1
<1> HIDE DEF F, G, H
<1>3. H[S] = F[S] + G[S]
  BY <1>2
<1> QED
  BY <1>3, SumUnfolds DEF F, G, H

(* A sum of terms that are c on W and 0 elsewhere is c for each element of W. *)
LEMMA SumOfShares ==
  ASSUME NEW S, IsFiniteSet(S), NEW f, NEW c \in Nat, NEW W \in SUBSET S,
         \A x \in S : f[x] = IF x \in W THEN c ELSE 0
  PROVE  SumFunctionOnSet(f, S) = c * Cardinality(W)
<1> DEFINE F == Table(f, S)
           Good(s) == F[s] = c * Cardinality(s \cap W)
           Bad == {s \in SUBSET S : ~ Good(s)}
<1>1. Bad = {}
  <2> SUFFICES ASSUME Bad # {} PROVE FALSE
    OBVIOUS
  <2>1. \A s \in Bad : IsFiniteSet(s)
    BY FS_Subset
  <2>2. PICK s \in Bad : \A t \in Bad : Cardinality(s) <= Cardinality(t)
    BY <2>1, LeastSet
  <2>3. s \in SUBSET S /\ ~ Good(s)
    BY <2>2
  <2>4. CASE s = {}
    <3>1. F[s] = 0
      BY <2>4, TableAtEmpty
    <3>2. Cardinality(s \cap W) = 0
      <4>1. s \cap W = {}
        BY <2>4
      <4> QED
        BY <4>1, FS_EmptySet
    <3> QED
      BY <2>3, <3>1, <3>2
  <2>5. CASE s # {}
    <3> DEFINE y == Pick(s)
               r == s \ {y}
    <3>1. /\ y \in s /\ y \in S /\ r \in SUBSET S /\ Smaller(r, s)
          /\ F[s] = Plus(f[y], F[r])
      BY <2>3, <2>5, TableAt
    <3>2. Cardinality(r) \in Nat /\ Cardinality(s) \in Nat
      BY <2>3, <3>1, FS_Subset, FS_CardinalityType
    <3>3. F[r] = c * Cardinality(r \cap W)
      BY <2>2, <3>1, <3>2 DEF Smaller
    <3> HIDE DEF F, y
    <3>4. IsFiniteSet(s \cap W) /\ IsFiniteSet(r \cap W)
      BY <2>3, <3>1, FS_Subset
    <3> DEFINE m == Cardinality(r \cap W)
               n == Cardinality(s \cap W)
    <3>5. m \in Nat /\ n \in Nat
      BY <3>4, FS_CardinalityType
    <3>6. CASE y \in W
      <4>1. s \cap W = (r \cap W) \cup {y} /\ y \notin r \cap W
        BY <3>1, <3>6
      <4>2. n = m + 1
        BY <3>4, <4>1, FS_AddElement
      <4>3. c * (m + 1) = c + c * m /\ c * m \in Nat
        BY <3>5
      <4>4. f[y] = c
        BY <3>1, <3>6
      <4> HIDE DEF m, n
      <4>5. F[s] = c * n
        BY <3>1, <3>3, <4>2, <4>3, <4>4 DEF Plus, m
      <4> QED
        BY <2>3, <4>5 DEF n
    <3>7. CASE y \notin W
      <4>1. s \cap W = r \cap W
        BY <3>1, <3>7
      <4>2. m = n
        BY <4>1
      <4>3. f[y] = 0
        BY <3>1, <3>7
      <4> HIDE DEF m, n
      <4>4. c * m \in Nat
        BY <3>5
      <4>5. F[s] = c * n
        BY <3>1, <3>3, <4>2, <4>3, <4>4 DEF Plus, m
      <4> QED
        BY <2>3, <4>5 DEF n
    <3> QED
      BY <3>6, <3>7
  <2> QED
    BY <2>4, <2>5
<1>2. Good(S) /\ S \cap W = W
  BY <1>1
<1> HIDE DEF F
<1> QED
  BY <1>2, SumUnfolds DEF F

(* A sum of terms that are c at most is c for each at most. *)
LEMMA SumIsBounded ==
  ASSUME NEW S, IsFiniteSet(S), NEW f, NEW c \in Nat, \A x \in S : f[x] \in 0 .. c
  PROVE  SumFunctionOnSet(f, S) \in 0 .. c * Cardinality(S)
<1> DEFINE rest == [x \in S |-> c - f[x]]
           all == [x \in S |-> c]
<1>1. \A x \in S : f[x] \in Nat /\ rest[x] \in Nat /\ all[x] = f[x] + rest[x]
  OBVIOUS
<1>2. \A x \in S : all[x] = IF x \in S THEN c ELSE 0
  OBVIOUS
<1>3. S \in SUBSET S
  OBVIOUS
<1> HIDE DEF rest, all
<1>4. SumFunctionOnSet(all, S) = c * Cardinality(S)
  <2>1. ASSUME NEW W \in SUBSET S, \A x \in S : all[x] = IF x \in W THEN c ELSE 0
        PROVE  SumFunctionOnSet(all, S) = c * Cardinality(W)
    BY <2>1, SumOfShares
  <2> QED
    BY <1>2, <1>3, <2>1
<1>5. SumFunctionOnSet(all, S) = SumFunctionOnSet(f, S) + SumFunctionOnSet(rest, S)
  BY <1>1, SumOfPlus
<1>6. SumFunctionOnSet(f, S) \in Nat /\ SumFunctionOnSet(rest, S) \in Nat
  BY <1>1, SumIsNat
<1> QED
  BY <1>4, <1>5, <1>6

(* And their mean is c at most. *)
LEMMA MeanIsBounded ==
  ASSUME NEW S, IsFiniteSet(S), S # {}, NEW f, NEW c \in Nat, \A x \in S : f[x] \in 0 .. c
  PROVE  SumFunctionOnSet(f, S) \div Cardinality(S) \in 0 .. c
<1>1. Cardinality(S) \in Nat \ {0}
  BY FS_EmptySet, FS_CardinalityType
<1>2. SumFunctionOnSet(f, S) \in 0 .. c * Cardinality(S)
  BY SumIsBounded
<1>3. \A n \in Nat \ {0} : \A s : s \in 0 .. c * n => s \div n \in 0 .. c
  OBVIOUS
<1> QED
  BY <1>1, <1>2, <1>3
=============================================================================
