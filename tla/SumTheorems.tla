---------------------------- MODULE SumTheorems -----------------------------
(***************************************************************************)
(* Sums over finite sets, as SumFunctionOnSet defines them: by a recursive *)
(* function that takes the elements out one by one.  What follows shows    *)
(* that there is such a function and that the order does not matter, and   *)
(* how a sum changes with its set and its summands.                        *)
(***************************************************************************)
EXTENDS Integers, FiniteSets, Functions, FiniteSetTheorems, TLAPS
-----------------------------------------------------------------------------
(* Induction over a set given as such.                                     *)

LEMMA NatInduct ==
  ASSUME NEW A, 0 \in A, \A n \in Nat : n \in A => n + 1 \in A
  PROVE  Nat \subseteq A
<1> DEFINE R == {p \in Nat \X Nat : p[1] < p[2]}
<1>1. IsWellFoundedOn(R, Nat)
  BY NatLessThanWellFounded DEF OpToRel
<1>2. ASSUME Nat \ A # {} PROVE FALSE
  <2>1. PICK x \in Nat \ A : \A y \in Nat \ A : ~ (<<y, x>> \in R)
    BY <1>1, <1>2, WFMin
  <2>2. x # 0 /\ x - 1 \in Nat /\ <<x - 1, x>> \in R
    OBVIOUS
  <2> QED BY <2>1, <2>2
<1> QED BY <1>2

LEMMA SetInduct ==
  ASSUME NEW D, IsFiniteSet(D), NEW A,
         \A s \in SUBSET D : (\A t \in SUBSET s : t # s => t \in A) => s \in A
  PROVE  \A s \in SUBSET D : s \in A
<1>1. IsWellFoundedOn(StrictSubsetOrdering(D), SUBSET D)
  BY FS_StrictSubsetOrderingWellFounded, FS_FiniteSubsetsOfFinite
<1>2. ASSUME (SUBSET D) \ A # {} PROVE FALSE
  <2> DEFINE B == (SUBSET D) \ A
  <2>0. B \subseteq SUBSET D /\ B # {}
    BY <1>2
  <2>1. PICK s \in B : \A t \in B : ~ (<<t, s>> \in StrictSubsetOrdering(D))
    <3> HIDE DEF B
    <3> QED BY <1>1, <2>0, WFMin
  <2>2. \A t \in SUBSET s : t # s => t \in A
    BY <2>1 DEF StrictSubsetOrdering
  <2> QED BY <2>1, <2>2
<1> QED BY <1>2
-----------------------------------------------------------------------------
(* The recursive function.                                                 *)

Pick(s)       == CHOOSE x \in s : TRUE
Step(f, h, s) == IF s = {} THEN 0 ELSE f[Pick(s)] + h[s \ {Pick(s)}]
Sums(h, f, S) == h = [s \in SUBSET S |-> Step(f, h, s)]

LEMMA PickIn == \A s : s # {} => Pick(s) \in s
BY DEF Pick

LEMMA SumDef ==
  ASSUME NEW f, NEW S
  PROVE  SumFunctionOnSet(f, S) = (CHOOSE h : Sums(h, f, S))[S]
BY DEF Sums, SumFunctionOnSet, FoldFunctionOnSet, MapThenFoldSet, Step, Pick

LEMMA SumExists ==
  ASSUME NEW f, NEW S, IsFiniteSet(S)
  PROVE  \E h : Sums(h, f, S)
<1> DEFINE A == {n \in Nat : \E h : \A s \in SUBSET S : Cardinality(s) <= n => h[s] = Step(f, h, s)}
<1>1. \A s \in SUBSET S : IsFiniteSet(s) /\ Cardinality(s) \in Nat
  BY FS_Subset, FS_CardinalityType
<1>2. \A s \in SUBSET S : s # {} =>
        s \ {Pick(s)} \in SUBSET S /\ Cardinality(s \ {Pick(s)}) = Cardinality(s) - 1
  BY <1>1, PickIn, FS_RemoveElement
<1>3. 0 \in A
  <2> DEFINE h == [s \in SUBSET S |-> 0]
  <2>1. \A s \in SUBSET S : Cardinality(s) <= 0 => h[s] = Step(f, h, s)
    BY <1>1, FS_EmptySet DEF Step
  <2> QED BY <2>1
<1>4. ASSUME NEW n \in Nat, n \in A PROVE n + 1 \in A
  <2>1. PICK h : \A s \in SUBSET S : Cardinality(s) <= n => h[s] = Step(f, h, s)
    BY <1>4
  <2> DEFINE g == [s \in SUBSET S |-> IF Cardinality(s) <= n THEN h[s] ELSE Step(f, h, s)]
  <2>2. ASSUME NEW s \in SUBSET S, Cardinality(s) <= n + 1 PROVE g[s] = Step(f, g, s)
    <3>1. CASE s = {}
      BY <2>1, <3>1 DEF Step
    <3>2. CASE s # {}
      <4> DEFINE t == s \ {Pick(s)}
      <4>1. t \in SUBSET S /\ Cardinality(t) <= n
        BY <1>1, <1>2, <2>2, <3>2
      <4>2. g[t] = h[t]
        BY <4>1
      <4>3. g[s] = Step(f, h, s)
        BY <2>1
      <4> QED BY <3>2, <4>2, <4>3 DEF Step
    <3> QED BY <3>1, <3>2
  <2> HIDE DEF g
  <2> QED BY <2>2
<1>5. Cardinality(S) \in A
  <2>1. Nat \subseteq A
    BY <1>3, <1>4, NatInduct
  <2> QED BY <1>1, <2>1
<1>6. PICK h : \A s \in SUBSET S : Cardinality(s) <= Cardinality(S) => h[s] = Step(f, h, s)
  BY <1>5
<1>7. \A s \in SUBSET S : h[s] = Step(f, h, s)
  BY <1>6, FS_Subset
<1> DEFINE g == [s \in SUBSET S |-> h[s]]
<1>8. \A s \in SUBSET S : Step(f, g, s) = Step(f, h, s)
  BY PickIn DEF Step
<1>9. Sums(g, f, S)
  BY <1>7, <1>8 DEF Sums
<1> HIDE DEF g
<1> QED BY <1>9

\* A set's function and a smaller set's agree.
LEMMA SumAgrees ==
  ASSUME NEW f, NEW S, IsFiniteSet(S), NEW T \in SUBSET S,
         NEW h, Sums(h, f, S), NEW g, Sums(g, f, T)
  PROVE  g[T] = h[T]
<1> DEFINE A == {s \in SUBSET T : g[s] = h[s]}
<1>1. IsFiniteSet(T)
  BY FS_Subset
<1>2. ASSUME NEW s \in SUBSET T, \A t \in SUBSET s : t # s => t \in A PROVE s \in A
  <2>1. g[s] = Step(f, g, s) /\ h[s] = Step(f, h, s)
    BY DEF Sums
  <2>2. CASE s = {}
    BY <2>1, <2>2 DEF Step
  <2>3. CASE s # {}
    <3>1. s \ {Pick(s)} \in A
      BY <1>2, <2>3, PickIn
    <3> QED BY <2>1, <2>3, <3>1 DEF Step
  <2> QED BY <2>2, <2>3
<1>3. \A s \in SUBSET T : s \in A
  <2> HIDE DEF A
  <2> QED BY <1>1, <1>2, SetInduct
<1> QED BY <1>3

LEMMA SumFacts ==
  ASSUME NEW f, NEW S, IsFiniteSet(S)
  PROVE  \E h : /\ Sums(h, f, S)
               /\ \A T \in SUBSET S : SumFunctionOnSet(f, T) = h[T]
<1>1. PICK h : Sums(h, f, S)
  BY SumExists
<1>2. ASSUME NEW T \in SUBSET S PROVE SumFunctionOnSet(f, T) = h[T]
  <2> DEFINE g == CHOOSE k : Sums(k, f, T)
  <2>1. IsFiniteSet(T)
    BY FS_Subset
  <2>2. Sums(g, f, T)
    BY <2>1, SumExists
  <2>3. SumFunctionOnSet(f, T) = g[T]
    BY SumDef
  <2> HIDE DEF g
  <2>4. g[T] = h[T]
    BY <1>1, <2>2, SumAgrees
  <2> QED BY <2>3, <2>4
<1> QED BY <1>1, <1>2

LEMMA SumEmpty == \A f : SumFunctionOnSet(f, {}) = 0
<1> SUFFICES ASSUME NEW f, NEW S, S = {} PROVE SumFunctionOnSet(f, S) = 0
  OBVIOUS
<1>1. IsFiniteSet(S)
  BY FS_EmptySet
<1>2. PICK h : /\ Sums(h, f, S)
               /\ \A T \in SUBSET S : SumFunctionOnSet(f, T) = h[T]
  BY <1>1, SumFacts
<1>3. h[S] = Step(f, h, S)
  BY <1>2 DEF Sums
<1> QED BY <1>2, <1>3 DEF Step

LEMMA SumStep ==
  ASSUME NEW f, NEW S, IsFiniteSet(S), S # {}
  PROVE  SumFunctionOnSet(f, S) = f[Pick(S)] + SumFunctionOnSet(f, S \ {Pick(S)})
<1>1. PICK h : /\ Sums(h, f, S)
               /\ \A T \in SUBSET S : SumFunctionOnSet(f, T) = h[T]
  BY SumFacts
<1>2. h[S] = Step(f, h, S)
  BY <1>1 DEF Sums
<1> QED BY <1>1, <1>2 DEF Step
-----------------------------------------------------------------------------
(* What a sum is.                                                          *)

LEMMA SumInt ==
  ASSUME NEW f, NEW S, IsFiniteSet(S), \A x \in S : f[x] \in Int
  PROVE  SumFunctionOnSet(f, S) \in Int
<1> DEFINE A == {s \in SUBSET S : SumFunctionOnSet(f, s) \in Int}
<1>1. ASSUME NEW s \in SUBSET S, \A t \in SUBSET s : t # s => t \in A PROVE s \in A
  <2>1. CASE s = {}
    BY <2>1, SumEmpty
  <2>2. CASE s # {}
    <3>1. Pick(s) \in s /\ s \ {Pick(s)} \in A
      BY <1>1, <2>2, PickIn
    <3>2. SumFunctionOnSet(f, s) = f[Pick(s)] + SumFunctionOnSet(f, s \ {Pick(s)})
      BY <2>2, SumStep, FS_Subset
    <3> QED BY <3>1, <3>2
  <2> QED BY <2>1, <2>2
<1>2. S \in A
  <2> HIDE DEF A
  <2> QED BY <1>1, SetInduct
<1> QED BY <1>2

\* Whichever element is taken out.
LEMMA SumAt ==
  ASSUME NEW f, NEW S, IsFiniteSet(S), \A y \in S : f[y] \in Int, NEW x \in S
  PROVE  SumFunctionOnSet(f, S) = f[x] + SumFunctionOnSet(f, S \ {x})
<1> DEFINE A == {s \in SUBSET S : \A y \in s : SumFunctionOnSet(f, s) = f[y] + SumFunctionOnSet(f, s \ {y})}
<1>1. ASSUME NEW s \in SUBSET S, \A t \in SUBSET s : t # s => t \in A, NEW y \in s
      PROVE  SumFunctionOnSet(f, s) = f[y] + SumFunctionOnSet(f, s \ {y})
  <2> DEFINE z == Pick(s)
             both == SumFunctionOnSet(f, (s \ {z}) \ {y})
  <2>1. z \in s /\ IsFiniteSet(s)
    BY PickIn, FS_Subset
  <2>2. SumFunctionOnSet(f, s) = f[z] + SumFunctionOnSet(f, s \ {z})
    BY <2>1, SumStep
  <2>3. CASE z = y
    BY <2>2, <2>3
  <2>4. CASE z # y
    <3>1. SumFunctionOnSet(f, s \ {z}) = f[y] + both
      BY <1>1, <2>1, <2>4
    <3>2. (s \ {y}) \ {z} = (s \ {z}) \ {y}
      OBVIOUS
    <3>3. SumFunctionOnSet(f, s \ {y}) = f[z] + both
      <4>1. s \ {y} \in A
        BY <1>1
      <4> QED BY <2>1, <2>4, <3>2, <4>1
    <3>4. f[y] \in Int /\ f[z] \in Int /\ both \in Int
      BY <2>1, SumInt, FS_Subset
    <3> HIDE DEF z, both
    <3> QED BY <2>2, <3>1, <3>3, <3>4
  <2> QED BY <2>3, <2>4
<1>2. S \in A
  <2>1. ASSUME NEW s \in SUBSET S, \A t \in SUBSET s : t # s => t \in A PROVE s \in A
    BY <1>1, <2>1
  <2> HIDE DEF A
  <2> QED BY <2>1, SetInduct
<1> QED BY <1>2
-----------------------------------------------------------------------------
(* How it changes.                                                         *)

LEMMA SumMonotone ==
  ASSUME NEW f, NEW g, NEW S, IsFiniteSet(S),
         \A x \in S : f[x] \in Int /\ g[x] \in Int /\ f[x] <= g[x]
  PROVE  SumFunctionOnSet(f, S) <= SumFunctionOnSet(g, S)
<1> DEFINE A == {s \in SUBSET S : SumFunctionOnSet(f, s) <= SumFunctionOnSet(g, s)}
<1>1. ASSUME NEW s \in SUBSET S, \A t \in SUBSET s : t # s => t \in A PROVE s \in A
  <2>1. CASE s = {}
    BY <2>1, SumEmpty
  <2>2. CASE s # {}
    <3> DEFINE z == Pick(s)
    <3>1. z \in s /\ s \ {z} \in A /\ IsFiniteSet(s) /\ IsFiniteSet(s \ {z})
      BY <1>1, <2>2, PickIn, FS_Subset
    <3>2. /\ SumFunctionOnSet(f, s) = f[z] + SumFunctionOnSet(f, s \ {z})
          /\ SumFunctionOnSet(g, s) = g[z] + SumFunctionOnSet(g, s \ {z})
      BY <2>2, <3>1, SumStep
    <3>3. SumFunctionOnSet(f, s \ {z}) \in Int /\ SumFunctionOnSet(g, s \ {z}) \in Int
      BY <3>1, SumInt
    <3>4. f[z] \in Int /\ g[z] \in Int /\ f[z] <= g[z]
      BY <3>1
    <3> HIDE DEF z
    <3> QED BY <3>1, <3>2, <3>3, <3>4
  <2> QED BY <2>1, <2>2
<1>2. S \in A
  <2> HIDE DEF A
  <2> QED BY <1>1, SetInduct
<1> QED BY <1>2

LEMMA SumSame ==
  ASSUME NEW f, NEW g, NEW S, IsFiniteSet(S), \A x \in S : f[x] \in Int /\ f[x] = g[x]
  PROVE  SumFunctionOnSet(f, S) = SumFunctionOnSet(g, S)
<1>1. SumFunctionOnSet(f, S) \in Int /\ SumFunctionOnSet(g, S) \in Int
  BY SumInt
<1>2. SumFunctionOnSet(f, S) <= SumFunctionOnSet(g, S) /\ SumFunctionOnSet(g, S) <= SumFunctionOnSet(f, S)
  BY SumMonotone
<1> QED BY <1>1, <1>2

LEMMA SumZero ==
  ASSUME NEW f, NEW S, IsFiniteSet(S), \A x \in S : f[x] = 0
  PROVE  SumFunctionOnSet(f, S) = 0
<1> DEFINE A == {s \in SUBSET S : SumFunctionOnSet(f, s) = 0}
<1>1. ASSUME NEW s \in SUBSET S, \A t \in SUBSET s : t # s => t \in A PROVE s \in A
  <2>1. CASE s = {}
    BY <2>1, SumEmpty
  <2>2. CASE s # {}
    <3>1. Pick(s) \in s /\ s \ {Pick(s)} \in A
      BY <1>1, <2>2, PickIn
    <3>2. SumFunctionOnSet(f, s) = f[Pick(s)] + SumFunctionOnSet(f, s \ {Pick(s)})
      BY <2>2, SumStep, FS_Subset
    <3> QED BY <3>1, <3>2
  <2> QED BY <2>1, <2>2
<1>2. S \in A
  <2> HIDE DEF A
  <2> QED BY <1>1, SetInduct
<1> QED BY <1>2

LEMMA SumNat ==
  ASSUME NEW f, NEW S, IsFiniteSet(S), \A x \in S : f[x] \in Nat
  PROVE  SumFunctionOnSet(f, S) \in Nat
<1> DEFINE z == [x \in S |-> 0]
<1>1. SumFunctionOnSet(z, S) = 0
  BY SumZero
<1>2. SumFunctionOnSet(z, S) <= SumFunctionOnSet(f, S)
  BY SumMonotone
<1>3. SumFunctionOnSet(f, S) \in Int
  BY SumInt
<1> HIDE DEF z
<1> QED BY <1>1, <1>2, <1>3

LEMMA SumUnion ==
  ASSUME NEW f, NEW S, IsFiniteSet(S), \A x \in S : f[x] \in Int, NEW T \in SUBSET S
  PROVE  SumFunctionOnSet(f, S) = SumFunctionOnSet(f, T) + SumFunctionOnSet(f, S \ T)
<1> DEFINE A == {s \in SUBSET T : SumFunctionOnSet(f, S) = SumFunctionOnSet(f, s) + SumFunctionOnSet(f, S \ s)}
<1>1. ASSUME NEW s \in SUBSET T, \A t \in SUBSET s : t # s => t \in A PROVE s \in A
  <2>1. CASE s = {}
    <3>1. S \ s = S
      BY <2>1
    <3> QED BY <2>1, <3>1, SumEmpty, SumInt
  <2>2. CASE s # {}
    <3>1. PICK z : z \in s
      BY <2>2
    <3> DEFINE t == s \ {z}
    <3>2. /\ IsFiniteSet(s) /\ IsFiniteSet(t) /\ IsFiniteSet(S \ s) /\ IsFiniteSet(S \ t)
          /\ z \in S \ t /\ (S \ t) \ {z} = S \ s
      BY <3>1, FS_Subset
    <3>3. SumFunctionOnSet(f, S) = SumFunctionOnSet(f, t) + SumFunctionOnSet(f, S \ t)
      BY <1>1, <3>1
    <3>4. SumFunctionOnSet(f, s) = f[z] + SumFunctionOnSet(f, t)
      BY <3>1, <3>2, SumAt
    <3>5. SumFunctionOnSet(f, S \ t) = f[z] + SumFunctionOnSet(f, S \ s)
      BY <3>2, SumAt
    <3>6. /\ f[z] \in Int /\ SumFunctionOnSet(f, t) \in Int
          /\ SumFunctionOnSet(f, S \ s) \in Int
      BY <3>1, <3>2, SumInt
    <3>7. SumFunctionOnSet(f, S) = SumFunctionOnSet(f, s) + SumFunctionOnSet(f, S \ s)
      <4> HIDE DEF t
      <4> QED BY <3>3, <3>4, <3>5, <3>6
    <3> QED BY <3>7
  <2> QED BY <2>1, <2>2
<1>2. T \in A
  <2>1. IsFiniteSet(T)
    BY FS_Subset
  <2> HIDE DEF A
  <2> QED BY <1>1, <2>1, SetInduct
<1> QED BY <1>2

LEMMA SumSubset ==
  ASSUME NEW f, NEW S, IsFiniteSet(S), \A x \in S : f[x] \in Nat, NEW T \in SUBSET S
  PROVE  SumFunctionOnSet(f, T) <= SumFunctionOnSet(f, S)
<1>1. SumFunctionOnSet(f, S) = SumFunctionOnSet(f, T) + SumFunctionOnSet(f, S \ T)
  BY SumUnion
<1>2. SumFunctionOnSet(f, T) \in Nat /\ SumFunctionOnSet(f, S \ T) \in Nat
  BY SumNat, FS_Subset
<1> QED BY <1>1, <1>2

\* Those of S of which g is i.
Class(S, g, i) == {x \in S : g[x] = i}

\* A sum taken class by class.
LEMMA SumByClass ==
  ASSUME NEW f, NEW S, IsFiniteSet(S), \A x \in S : f[x] \in Int,
         NEW I, IsFiniteSet(I), NEW g, \A x \in S : g[x] \in I,
         NEW F, \A i \in I : F[i] = SumFunctionOnSet(f, Class(S, g, i))
  PROVE  SumFunctionOnSet(F, I) = SumFunctionOnSet(f, S)
<1> DEFINE Of(J) == {x \in S : g[x] \in J}
           A == {J \in SUBSET I : SumFunctionOnSet(F, J) = SumFunctionOnSet(f, Of(J))}
<1>1. ASSUME NEW J \in SUBSET I, \A t \in SUBSET J : t # J => t \in A PROVE J \in A
  <2>1. CASE J = {}
    <3>1. Of(J) = {}
      BY <2>1
    <3> QED BY <2>1, <3>1, SumEmpty
  <2>2. CASE J # {}
    <3> DEFINE i == Pick(J)
               T == Class(S, g, i)
    <3>1. i \in J /\ J \ {i} \in A /\ IsFiniteSet(J) /\ IsFiniteSet(Of(J))
      BY <1>1, <2>2, PickIn, FS_Subset
    <3>2. T \in SUBSET Of(J) /\ Of(J) \ T = Of(J \ {i})
      BY <3>1 DEF Class
    <3>3. SumFunctionOnSet(f, Of(J)) = SumFunctionOnSet(f, T) + SumFunctionOnSet(f, Of(J \ {i}))
      <4>1. \A x \in Of(J) : f[x] \in Int
        OBVIOUS
      <4> HIDE DEF T, i, Of
      <4>2. SumFunctionOnSet(f, Of(J)) = SumFunctionOnSet(f, T) + SumFunctionOnSet(f, Of(J) \ T)
        BY <3>1, <3>2, <4>1, SumUnion
      <4> QED BY <3>2, <4>2
    <3>4. SumFunctionOnSet(F, J) = F[i] + SumFunctionOnSet(F, J \ {i})
      BY <2>2, <3>1, SumStep
    <3>5. F[i] = SumFunctionOnSet(f, T)
      BY <3>1
    <3>6. SumFunctionOnSet(F, J \ {i}) = SumFunctionOnSet(f, Of(J \ {i}))
      BY <3>1
    <3> QED BY <3>3, <3>4, <3>5, <3>6
  <2> QED BY <2>1, <2>2
<1>2. I \in A
  <2>1. ASSUME NEW J \in SUBSET I, \A t \in SUBSET J : t # J => t \in A PROVE J \in A
    BY <1>1, <2>1
  <2> HIDE DEF A
  <2> QED BY <2>1, SetInduct
<1>3. Of(I) = S
  OBVIOUS
<1> QED BY <1>2, <1>3
=============================================================================
