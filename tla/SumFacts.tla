------------------------------ MODULE SumFacts ------------------------------
(***************************************************************************)
(* Facts about SumFunctionOnSet(f, S), the sum of f[x] for x in a finite   *)
(* set S, by which several modules count units and money.                  *)
(***************************************************************************)
EXTENDS Functions, FiniteSetTheorems, TLAPS

\* Every non-empty set of subsets of a finite set has a minimal one.
LEMMA MinimalSubset ==
  ASSUME NEW S, IsFiniteSet(S), NEW B, B \subseteq SUBSET S, B # {}
  PROVE  \E U \in B : \A V \in B : V \subseteq U => V = U
<1>1. IsWellFoundedOn(StrictSubsetOrdering(S), SUBSET S)
  BY FS_StrictSubsetOrderingWellFounded, FS_FiniteSubsetsOfFinite
<1>2. \E U \in B : \A V \in B : <<V, U>> \notin StrictSubsetOrdering(S)
  BY <1>1, WFMin
<1>3. QED
  BY <1>2 DEF StrictSubsetOrdering

Chosen(s) == CHOOSE x \in s : TRUE
Unfolded(f, s, rest) == IF s = {} THEN 0 ELSE f[Chosen(s)] + rest
Iterates(g, f, S) == g = [s \in SUBSET S |-> Unfolded(f, s, g[s \ {Chosen(s)}])]

LEMMA SumIsIterated ==
  ASSUME NEW f, NEW S
  PROVE  SumFunctionOnSet(f, S) = (CHOOSE g : Iterates(g, f, S))[S]
BY DEF SumFunctionOnSet, FoldFunctionOnSet, MapThenFoldSet, Iterates, Unfolded, Chosen

\* The recursion the sum is defined by has a solution, and one only.
LEMMA SumUnfolds ==
  ASSUME NEW S, IsFiniteSet(S), NEW f
  PROVE  SumFunctionOnSet(f, S) = Unfolded(f, S, SumFunctionOnSet(f, S \ {Chosen(S)}))
<1> DEFINE Sum(s) == SumFunctionOnSet(f, s)
           Bad == {s \in SUBSET S : Sum(s) # Unfolded(f, s, Sum(s \ {Chosen(s)}))}
<1>1. SUFFICES ASSUME Bad # {} PROVE FALSE
  OBVIOUS
<1>2. PICK U \in Bad : \A V \in Bad : V \subseteq U => V = U
  <2>1. Bad \subseteq SUBSET S
    OBVIOUS
  <2> HIDE DEF Bad
  <2>2. QED
    BY <1>1, <2>1, MinimalSubset
<1>3. \A s \in SUBSET U : s # U => Sum(s) = Unfolded(f, s, Sum(s \ {Chosen(s)}))
  BY <1>2
<1>4. \A s : s # {} => Chosen(s) \in s
  BY DEF Chosen
<1> HIDE DEF Sum
<1>5. \E g : Iterates(g, f, U)
  <2> DEFINE g == [s \in SUBSET U |-> Unfolded(f, s, Sum(s \ {Chosen(s)}))]
  <2>1. \A s \in SUBSET U : s # U => g[s] = Sum(s)
    BY <1>3
  <2>2. \A s \in SUBSET U : Unfolded(f, s, Sum(s \ {Chosen(s)})) = Unfolded(f, s, g[s \ {Chosen(s)}])
    <3>1. SUFFICES ASSUME NEW s \in SUBSET U, s # {}
                   PROVE  Sum(s \ {Chosen(s)}) = g[s \ {Chosen(s)}]
      BY DEF Unfolded
    <3>2. s \ {Chosen(s)} \in SUBSET U /\ s \ {Chosen(s)} # U
      BY <3>1, <1>4
    <3>3. QED
      BY <3>2, <2>1
  <2>3. g = [s \in SUBSET U |-> Unfolded(f, s, g[s \ {Chosen(s)}])]
    BY <2>2, Zenon
  <2>4. QED
    BY <2>3 DEF Iterates
<1> DEFINE h == CHOOSE g : Iterates(g, f, U)
<1>6. Iterates(h, f, U)
  BY <1>5
<1>7. Sum(U) = h[U]
  BY SumIsIterated DEF Sum
<1> HIDE DEF h
<1>8. \A s \in SUBSET U : h[s] = Unfolded(f, s, h[s \ {Chosen(s)}])
  BY <1>6 DEF Iterates
<1>9. \A s \in SUBSET U : s # U => h[s] = Sum(s)
  <2> DEFINE Off == {s \in SUBSET U : s # U /\ h[s] # Sum(s)}
  <2>1. SUFFICES ASSUME Off # {} PROVE FALSE
    OBVIOUS
  <2>2. IsFiniteSet(U)
    BY <1>2, FS_Subset
  <2>3. PICK s \in Off : \A v \in Off : v \subseteq s => v = s
    <3>1. Off \subseteq SUBSET U
      OBVIOUS
    <3> HIDE DEF Off
    <3>2. QED
      BY <2>1, <2>2, <3>1, MinimalSubset
  <2>4. h[s] = Unfolded(f, s, h[s \ {Chosen(s)}]) /\ Sum(s) = Unfolded(f, s, Sum(s \ {Chosen(s)}))
    BY <1>3, <1>8
  <2>5. CASE s = {}
    BY <2>4, <2>5 DEF Unfolded
  <2>6. CASE s # {}
    <3>1. h[s \ {Chosen(s)}] = Sum(s \ {Chosen(s)})
      BY <2>3, <2>6, <1>4
    <3>2. QED
      BY <2>4, <3>1
  <2>7. QED
    BY <2>5, <2>6
<1>10. h[U] = Unfolded(f, U, h[U \ {Chosen(U)}])
  BY <1>8
<1>11. Unfolded(f, U, h[U \ {Chosen(U)}]) = Unfolded(f, U, Sum(U \ {Chosen(U)}))
  <2>1. CASE U = {}
    BY <2>1 DEF Unfolded
  <2>2. CASE U # {}
    BY <2>2, <1>9, <1>4
  <2>3. QED
    BY <2>1, <2>2
<1>12. QED
  BY <1>2, <1>7, <1>10, <1>11

LEMMA SumOfNone ==
  ASSUME NEW f
  PROVE  SumFunctionOnSet(f, {}) = 0
BY FS_EmptySet, SumUnfolds DEF Unfolded

IntOn(f, S) == \A x \in S : f[x] \in Int

\* A sum of integers is one, and any element may be taken out first.
LEMMA SumTakesOut ==
  ASSUME NEW S, IsFiniteSet(S), NEW f, IntOn(f, S)
  PROVE  /\ SumFunctionOnSet(f, S) \in Int
         /\ \A x \in S : SumFunctionOnSet(f, S) = f[x] + SumFunctionOnSet(f, S \ {x})
<1> DEFINE Sum(s) == SumFunctionOnSet(f, s)
           Good(s) == Sum(s) \in Int /\ \A x \in s : Sum(s) = f[x] + Sum(s \ {x})
           Bad == {s \in SUBSET S : ~Good(s)}
<1>1. SUFFICES ASSUME Bad # {} PROVE FALSE
  OBVIOUS
<1>2. PICK U \in Bad : \A V \in Bad : V \subseteq U => V = U
  <2>1. Bad \subseteq SUBSET S
    OBVIOUS
  <2> HIDE DEF Bad
  <2>2. QED
    BY <1>1, <2>1, MinimalSubset
<1>3. \A s \in SUBSET U : s # U => Good(s)
  BY <1>2
<1>4. \A s \in SUBSET U : IsFiniteSet(s)
  BY FS_Subset
<1>5. \A x \in U : f[x] \in Int
  BY DEF IntOn
<1>6. \A s \in SUBSET U : s # {} => Chosen(s) \in s /\ Sum(s) = f[Chosen(s)] + Sum(s \ {Chosen(s)})
  BY <1>4, SumUnfolds DEF Unfolded, Chosen
<1>7. Sum({}) = 0
  BY SumOfNone
<1> HIDE DEF Sum
<1>8. Good(U)
  <2>1. CASE U = {}
    BY <2>1, <1>7
  <2>2. CASE U # {}
    <3>1. Chosen(U) \in U /\ Sum(U) = f[Chosen(U)] + Sum(U \ {Chosen(U)})
      BY <2>2, <1>6
    <3>2. Sum(U \ {Chosen(U)}) \in Int
      BY <3>1, <1>3
    <3>3. ASSUME NEW x \in U, x # Chosen(U)
          PROVE  Sum(U) = f[x] + Sum(U \ {x})
      <4> DEFINE R == (U \ {x}) \ {Chosen(U)}
      <4>1. Sum(U \ {Chosen(U)}) = f[x] + Sum(R)
        <5>1. Good(U \ {Chosen(U)}) /\ x \in U \ {Chosen(U)}
          BY <3>1, <3>3, <1>3
        <5>2. (U \ {Chosen(U)}) \ {x} = R
          OBVIOUS
        <5>3. QED
          BY <5>1, <5>2
      <4>2. Sum(U \ {x}) = f[Chosen(U)] + Sum(R)
        <5>1. Good(U \ {x}) /\ Chosen(U) \in U \ {x}
          BY <3>1, <3>3, <1>3
        <5>2. QED
          BY <5>1
      <4>3. Sum(R) \in Int
        <5>1. R \in SUBSET U /\ R # U
          BY <3>1
        <5>2. QED
          BY <5>1, <1>3
      <4>4. f[x] \in Int /\ f[Chosen(U)] \in Int
        BY <1>5, <3>1
      <4>5. QED
        BY <3>1, <4>1, <4>2, <4>3, <4>4
    <3>4. Sum(U) \in Int
      BY <3>1, <3>2, <1>5
    <3>5. \A x \in U : Sum(U) = f[x] + Sum(U \ {x})
      <4>1. SUFFICES ASSUME NEW x \in U PROVE Sum(U) = f[x] + Sum(U \ {x})
        OBVIOUS
      <4>2. CASE x = Chosen(U)
        BY <3>1, <4>2
      <4>3. CASE x # Chosen(U)
        BY <3>3, <4>3
      <4>4. QED
        BY <4>2, <4>3
    <3>6. QED
      BY <3>4, <3>5
  <2>3. QED
    BY <2>1, <2>2
<1>9. QED
  BY <1>2, <1>8

LEMMA SumIsInt ==
  ASSUME NEW S, IsFiniteSet(S), NEW f, IntOn(f, S)
  PROVE  SumFunctionOnSet(f, S) \in Int
BY SumTakesOut

\* Functions that agree on a set have the same sum over it.
LEMMA SumAgrees ==
  ASSUME NEW S, IsFiniteSet(S), NEW f, NEW g, IntOn(f, S), \A x \in S : g[x] = f[x]
  PROVE  SumFunctionOnSet(g, S) = SumFunctionOnSet(f, S)
<1> DEFINE Bad == {s \in SUBSET S : SumFunctionOnSet(g, s) # SumFunctionOnSet(f, s)}
<1>1. SUFFICES ASSUME Bad # {} PROVE FALSE
  OBVIOUS
<1>2. PICK U \in Bad : \A V \in Bad : V \subseteq U => V = U
  <2>1. Bad \subseteq SUBSET S
    OBVIOUS
  <2> HIDE DEF Bad
  <2>2. QED
    BY <1>1, <2>1, MinimalSubset
<1>3. U # {}
  BY <1>2, SumOfNone
<1>4. PICK x \in U : TRUE
  BY <1>3
<1>5. SumFunctionOnSet(g, U \ {x}) = SumFunctionOnSet(f, U \ {x})
  BY <1>2, <1>4
<1>6. IsFiniteSet(U) /\ IntOn(f, U) /\ IntOn(g, U)
  BY FS_Subset DEF IntOn
<1>7. /\ SumFunctionOnSet(f, U) = f[x] + SumFunctionOnSet(f, U \ {x})
      /\ SumFunctionOnSet(g, U) = g[x] + SumFunctionOnSet(g, U \ {x})
  BY <1>4, <1>6, SumTakesOut
<1>8. g[x] = f[x]
  BY <1>4
<1>9. QED
  BY <1>2, <1>5, <1>7, <1>8

\* Changing the function at one element changes the sum by as much.
LEMMA SumMoves ==
  ASSUME NEW S, IsFiniteSet(S), NEW f, NEW g, IntOn(f, S), IntOn(g, S), NEW x \in S,
         \A y \in S : y # x => g[y] = f[y]
  PROVE  SumFunctionOnSet(g, S) = SumFunctionOnSet(f, S) + (g[x] - f[x])
<1> DEFINE R == S \ {x}
<1>1. IsFiniteSet(R) /\ IntOn(f, R)
  BY FS_Subset DEF IntOn
<1>2. SumFunctionOnSet(g, R) = SumFunctionOnSet(f, R) /\ SumFunctionOnSet(f, R) \in Int
  BY <1>1, SumAgrees, SumIsInt
<1>3. /\ SumFunctionOnSet(f, S) = f[x] + SumFunctionOnSet(f, R)
      /\ SumFunctionOnSet(g, S) = g[x] + SumFunctionOnSet(g, R)
  BY SumTakesOut
<1>4. f[x] \in Int /\ g[x] \in Int
  BY DEF IntOn
<1>5. QED
  BY <1>2, <1>3, <1>4

\* A new element adds its value.
LEMMA SumGrows ==
  ASSUME NEW S, IsFiniteSet(S), NEW x, x \notin S, NEW f, IntOn(f, S \cup {x})
  PROVE  SumFunctionOnSet(f, S \cup {x}) = SumFunctionOnSet(f, S) + f[x]
<1>1. IsFiniteSet(S \cup {x})
  BY FS_AddElement
<1>2. (S \cup {x}) \ {x} = S
  OBVIOUS
<1>3. SumFunctionOnSet(f, S \cup {x}) = f[x] + SumFunctionOnSet(f, S)
  BY <1>1, <1>2, SumTakesOut
<1>4. SumFunctionOnSet(f, S) \in Int /\ f[x] \in Int
  BY SumIsInt DEF IntOn
<1>5. QED
  BY <1>3, <1>4

NatOn(f, S) == \A x \in S : f[x] \in Nat

\* A sum of naturals over a larger set, of larger ones, is larger.
LEMMA SumMonotone ==
  ASSUME NEW T, IsFiniteSet(T), NEW S \in SUBSET T, NEW f, NEW g, NatOn(f, S), NatOn(g, T),
         \A x \in S : f[x] <= g[x]
  PROVE  /\ SumFunctionOnSet(f, S) \in Nat
         /\ SumFunctionOnSet(f, S) <= SumFunctionOnSet(g, T)
<1> DEFINE Bad == {u \in SUBSET T :
                     ~(/\ SumFunctionOnSet(f, S \cap u) \in Nat
                       /\ SumFunctionOnSet(f, S \cap u) <= SumFunctionOnSet(g, u))}
<1>1. SUFFICES ASSUME Bad # {} PROVE FALSE
  <2>1. S \cap T = S
    OBVIOUS
  <2>2. QED
    BY <2>1
<1>2. PICK U \in Bad : \A V \in Bad : V \subseteq U => V = U
  <2>1. Bad \subseteq SUBSET T
    OBVIOUS
  <2> HIDE DEF Bad
  <2>2. QED
    BY <1>1, <2>1, MinimalSubset
<1>3. U # {}
  <2>1. SUFFICES ASSUME U = {} PROVE FALSE
    OBVIOUS
  <2>2. S \cap U = {}
    BY <2>1
  <2>3. QED
    BY <1>2, <2>1, <2>2, SumOfNone
<1>4. PICK x \in U : TRUE
  BY <1>3
<1> DEFINE R == U \ {x}
<1>5. /\ SumFunctionOnSet(f, S \cap R) \in Nat
      /\ SumFunctionOnSet(f, S \cap R) <= SumFunctionOnSet(g, R)
  BY <1>2, <1>4
<1>6. IsFiniteSet(U) /\ IsFiniteSet(S \cap U) /\ IsFiniteSet(R)
  BY FS_Subset
<1>7. IntOn(g, U) /\ IntOn(f, S \cap U) /\ IntOn(g, R)
  BY DEF IntOn, NatOn
<1>8. /\ SumFunctionOnSet(g, U) = g[x] + SumFunctionOnSet(g, R)
      /\ SumFunctionOnSet(g, R) \in Int
  BY <1>4, <1>6, <1>7, SumTakesOut
<1>9. g[x] \in Nat
  BY <1>4 DEF NatOn
<1>10. CASE x \in S
  <2>1. (S \cap U) \ {x} = S \cap R
    OBVIOUS
  <2>2. SumFunctionOnSet(f, S \cap U) = f[x] + SumFunctionOnSet(f, S \cap R)
    BY <1>4, <1>6, <1>7, <1>10, <2>1, SumTakesOut
  <2>3. f[x] \in Nat /\ f[x] <= g[x]
    BY <1>10 DEF NatOn
  <2>4. QED
    BY <1>2, <1>5, <1>8, <1>9, <2>2, <2>3
<1>11. CASE x \notin S
  <2>1. S \cap U = S \cap R
    BY <1>11
  <2>2. QED
    BY <1>2, <1>5, <1>8, <1>9, <2>1
<1>12. QED
  BY <1>10, <1>11

\* A sum of ones counts.
LEMMA SumOfOnes ==
  ASSUME NEW S, IsFiniteSet(S), NEW f, \A x \in S : f[x] = 1
  PROVE  SumFunctionOnSet(f, S) = Cardinality(S)
<1> DEFINE Bad == {s \in SUBSET S : SumFunctionOnSet(f, s) # Cardinality(s)}
<1>1. SUFFICES ASSUME Bad # {} PROVE FALSE
  OBVIOUS
<1>2. PICK U \in Bad : \A V \in Bad : V \subseteq U => V = U
  <2>1. Bad \subseteq SUBSET S
    OBVIOUS
  <2> HIDE DEF Bad
  <2>2. QED
    BY <1>1, <2>1, MinimalSubset
<1>3. U # {}
  BY <1>2, SumOfNone, FS_EmptySet
<1>4. PICK x \in U : TRUE
  BY <1>3
<1>5. IsFiniteSet(U) /\ Cardinality(U) \in Nat
  BY FS_Subset, FS_CardinalityType
<1>6. SumFunctionOnSet(f, U \ {x}) = Cardinality(U) - 1
  <2>1. SumFunctionOnSet(f, U \ {x}) = Cardinality(U \ {x})
    BY <1>2, <1>4
  <2>2. QED
    BY <1>5, <2>1, FS_RemoveElement
<1>7. SumFunctionOnSet(f, U) = 1 + SumFunctionOnSet(f, U \ {x})
  BY <1>4, <1>5, SumTakesOut DEF IntOn
<1>8. QED
  BY <1>2, <1>5, <1>6, <1>7

-----------------------------------------------------------------------------
(* Counting: a finite set that one element may join or leave.              *)

LEMMA CountMoves ==
  ASSUME NEW A, IsFiniteSet(A), NEW x, NEW B, B \subseteq A \cup {x}
  PROVE  /\ Cardinality(A) \in Nat /\ IsFiniteSet(B) /\ Cardinality(B) \in Nat
         /\ Cardinality(B) <= Cardinality(A) + 1
         /\ B \subseteq A => Cardinality(B) <= Cardinality(A)
         /\ x \in A /\ x \notin B => Cardinality(B) + 1 <= Cardinality(A)
<1>1. IsFiniteSet(A \cup {x}) /\ IsFiniteSet(A \ {x})
  BY FS_AddElement, FS_RemoveElement
<1>2. IsFiniteSet(B)
  BY <1>1, FS_Subset
<1>3. /\ Cardinality(A) \in Nat /\ Cardinality(B) \in Nat
      /\ Cardinality(A \cup {x}) \in Nat /\ Cardinality(A \ {x}) \in Nat
  BY <1>1, <1>2, FS_CardinalityType
<1>4. Cardinality(A \cup {x}) <= Cardinality(A) + 1
  <2>1. CASE x \in A
    <3>1. A \cup {x} = A
      BY <2>1
    <3>2. QED
      BY <1>3, <3>1
  <2>2. CASE x \notin A
    <3>1. Cardinality(A \cup {x}) = Cardinality(A) + 1
      BY <2>2, FS_AddElement
    <3>2. QED
      BY <1>3, <3>1
  <2>3. QED
    BY <2>1, <2>2
<1>5. Cardinality(B) <= Cardinality(A \cup {x})
  BY <1>1, FS_Subset
<1>6. B \subseteq A => Cardinality(B) <= Cardinality(A)
  BY FS_Subset
<1>7. ASSUME x \in A, x \notin B
      PROVE  Cardinality(B) + 1 <= Cardinality(A)
  <2>1. Cardinality(A \ {x}) = Cardinality(A) - 1
    BY <1>7, FS_RemoveElement
  <2>2. B \subseteq A \ {x}
    BY <1>7
  <2>3. Cardinality(B) <= Cardinality(A \ {x})
    BY <1>1, <2>2, FS_Subset
  <2>4. QED
    BY <1>3, <2>1, <2>3
<1>8. QED
  BY <1>2, <1>3, <1>4, <1>5, <1>6, <1>7
=============================================================================
