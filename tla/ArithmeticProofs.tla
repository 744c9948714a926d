-------------------------- MODULE ArithmeticProofs --------------------------
(***************************************************************************)
(* What the proofs about the components need of numbers: the sums of the    *)
(* model, SumFunctionOnSet of the community module Functions (the sum of     *)
(* f[x] over the members x of a finite set), and the arithmetic of LoanMath, *)
(* with the bound that keeps loans below their collateral's value.           *)
(*                                                                         *)
(* SumFunctionOnSet is a recursive function on the subsets of the set, which *)
(* takes out the member CHOOSE names.  No induction theorem of the library   *)
(* can be used (each takes an operator), so every induction here is a        *)
(* smallest counterexample: a set of subsets that has a member has a least. *)
(***************************************************************************)
EXTENDS LoanMath, FiniteSets, Functions, FiniteSetTheorems, WellFoundedInduction, TLAPS

\* The member a sum takes out of s first.
Pick(s) == CHOOSE x \in s : TRUE

\* g is the sum of f on the sets of D.
SumsOn(g, f, D) ==
  g = [s \in D |-> IF s = {} THEN 0 ELSE f[Pick(s)] + g[s \ {Pick(s)}]]

\* The subsets of S with at most n members.
UpTo(S, n) == {s \in SUBSET S : Cardinality(s) <= n}

\* Of a set of subsets of a finite set, one has no other below it.
LEMMA LeastSubset ==
  ASSUME NEW S, IsFiniteSet(S), NEW T, T \subseteq SUBSET S, T # {}
  PROVE  \E U \in T : \A V \in T : V \subseteq U => V = U
<1>1. IsWellFoundedOn(StrictSubsetOrdering(S), SUBSET S)
  BY FS_StrictSubsetOrderingWellFounded, FS_FiniteSubsetsOfFinite
<1>2. PICK U \in T : \A V \in T : ~(<<V, U>> \in StrictSubsetOrdering(S))
  BY <1>1, WFMin
<1>3. \A V \in T : V \subseteq U => V = U
  BY <1>2 DEF StrictSubsetOrdering
<1> QED
  BY <1>3

\* What Pick names is a member.
LEMMA PickMember ==
  ASSUME NEW s, s # {}
  PROVE  Pick(s) \in s
BY DEF Pick

\* A sum on the sets of at most n members extends to those of n + 1.
LEMMA OneMore ==
  ASSUME NEW S, IsFiniteSet(S), NEW f, NEW n \in Nat, NEW h, SumsOn(h, f, UpTo(S, n))
  PROVE  \E g : SumsOn(g, f, UpTo(S, n + 1))
<1> DEFINE g == [s \in UpTo(S, n + 1) |-> IF s = {} THEN 0 ELSE f[Pick(s)] + h[s \ {Pick(s)}]]
<1>1. UpTo(S, n) \subseteq UpTo(S, n + 1)
  <2> SUFFICES ASSUME NEW s \in UpTo(S, n) PROVE s \in UpTo(S, n + 1)
    OBVIOUS
  <2>1. s \in SUBSET S /\ Cardinality(s) <= n
    BY DEF UpTo
  <2>2. Cardinality(s) \in Nat
    BY <2>1, FS_Subset, FS_CardinalityType
  <2> QED
    BY <2>1, <2>2 DEF UpTo
<1>2. ASSUME NEW w \in UpTo(S, n)
      PROVE  g[w] = h[w]
  <2>1. g[w] = IF w = {} THEN 0 ELSE f[Pick(w)] + h[w \ {Pick(w)}]
    BY <1>1
  <2>2. h[w] = IF w = {} THEN 0 ELSE f[Pick(w)] + h[w \ {Pick(w)}]
    BY DEF SumsOn
  <2> QED
    BY <2>1, <2>2
<1>3. ASSUME NEW s \in UpTo(S, n + 1), s # {}
      PROVE  s \ {Pick(s)} \in UpTo(S, n)
  <2>1. s \in SUBSET S /\ Cardinality(s) <= n + 1 /\ Pick(s) \in s
    BY <1>3, PickMember DEF UpTo
  <2>2. IsFiniteSet(s)
    BY <2>1, FS_Subset
  <2>3. Cardinality(s \ {Pick(s)}) = Cardinality(s) - 1 /\ Cardinality(s) \in Nat
    BY <2>1, <2>2, FS_RemoveElement, FS_CardinalityType
  <2>4. Cardinality(s \ {Pick(s)}) <= n
    BY <2>1, <2>3
  <2> QED
    BY <2>1, <2>4 DEF UpTo
<1>4. \A s \in UpTo(S, n + 1) :
        g[s] = IF s = {} THEN 0 ELSE f[Pick(s)] + g[s \ {Pick(s)}]
  BY <1>2, <1>3
<1>5. g = [s \in UpTo(S, n + 1) |-> IF s = {} THEN 0 ELSE f[Pick(s)] + g[s \ {Pick(s)}]]
  BY <1>4
<1> QED
  BY <1>5 DEF SumsOn

\* The recursion has a solution on all subsets of a finite set.
LEMMA SumExists ==
  ASSUME NEW S, IsFiniteSet(S), NEW f
  PROVE  \E g : SumsOn(g, f, SUBSET S)
<1> DEFINE T == {U \in SUBSET S : ~ \E g : SumsOn(g, f, UpTo(S, Cardinality(U)))}
<1>1. T = {}
  <2> SUFFICES ASSUME T # {} PROVE FALSE
    OBVIOUS
  <2>0. T \subseteq SUBSET S /\ T # {}
    OBVIOUS
  <2> HIDE DEF T
  <2>1. PICK U \in T : \A V \in T : V \subseteq U => V = U
    BY <2>0, LeastSubset
  <2> USE DEF T
  <2>2. U \in SUBSET S /\ IsFiniteSet(U) /\ ~ \E g : SumsOn(g, f, UpTo(S, Cardinality(U)))
    BY FS_Subset
  <2>3. CASE U = {}
    <3>1. UpTo(S, 0) = {{}}
      <4>1. ASSUME NEW s \in SUBSET S, Cardinality(s) <= 0 PROVE s = {}
        BY <4>1, FS_Subset, FS_CardinalityType, FS_EmptySet
      <4>2. Cardinality({}) = 0
        BY FS_EmptySet
      <4>3. {} \in SUBSET S
        OBVIOUS
      <4> HIDE DEF T
      <4> QED
        BY ONLY <4>1, <4>2, <4>3 DEF UpTo
    <3> DEFINE g == [s \in UpTo(S, 0) |-> 0]
    <3>2. g = [s \in UpTo(S, 0) |-> IF s = {} THEN 0 ELSE f[Pick(s)] + g[s \ {Pick(s)}]]
      BY <3>1
    <3>3. SumsOn(g, f, UpTo(S, Cardinality(U)))
      BY <2>3, <3>2, FS_EmptySet DEF SumsOn
    <3> QED
      BY <2>2, <3>3
  <2>4. CASE U # {}
    <3>1. PICK x : x \in U
      BY <2>4
    <3> DEFINE V == U \ {x}
    <3>2. V \notin T /\ V \in SUBSET S
      BY <2>1, <2>2, <3>1
    <3>3. PICK h : SumsOn(h, f, UpTo(S, Cardinality(V)))
      BY <3>2
    <3>4. /\ IsFiniteSet(V) /\ Cardinality(V) = Cardinality(U) - 1
          /\ Cardinality(V) \in Nat /\ Cardinality(U) \in Nat
      BY <2>2, <3>1, FS_RemoveElement, FS_CardinalityType
    <3> HIDE DEF V
    <3>5. \E g : SumsOn(g, f, UpTo(S, Cardinality(V) + 1))
      BY <3>3, <3>4, OneMore
    <3>6. Cardinality(V) + 1 = Cardinality(U)
      BY <3>4
    <3> QED
      BY <2>2, <3>5, <3>6
  <2> QED
    BY <2>3, <2>4
<1>2. PICK g : SumsOn(g, f, UpTo(S, Cardinality(S)))
  BY <1>1
<1>3. UpTo(S, Cardinality(S)) = SUBSET S
  BY FS_Subset DEF UpTo
<1> QED
  BY <1>2, <1>3

\* Two solutions agree where both are defined.
LEMMA SumUnique ==
  ASSUME NEW S, IsFiniteSet(S), NEW R, R \subseteq S, NEW f, NEW g, NEW h,
         SumsOn(g, f, SUBSET S), SumsOn(h, f, SUBSET R)
  PROVE  \A U \in SUBSET R : g[U] = h[U]
<1> DEFINE T == {U \in SUBSET R : g[U] # h[U]}
<1>1. T = {}
  <2> SUFFICES ASSUME T # {} PROVE FALSE
    OBVIOUS
  <2>0. T \subseteq SUBSET S /\ T # {}
    OBVIOUS
  <2> HIDE DEF T
  <2>1. PICK U \in T : \A V \in T : V \subseteq U => V = U
    BY <2>0, LeastSubset
  <2> USE DEF T
  <2>2. U \in SUBSET R /\ U \in SUBSET S /\ g[U] # h[U]
    OBVIOUS
  <2>3. /\ g[U] = IF U = {} THEN 0 ELSE f[Pick(U)] + g[U \ {Pick(U)}]
        /\ h[U] = IF U = {} THEN 0 ELSE f[Pick(U)] + h[U \ {Pick(U)}]
    BY <2>2 DEF SumsOn
  <2>4. U # {}
    BY <2>2, <2>3
  <2>5. Pick(U) \in U
    BY <2>4, PickMember
  <2>6. U \ {Pick(U)} \in SUBSET R /\ U \ {Pick(U)} \notin T
    BY <2>1, <2>2, <2>5
  <2> QED
    BY <2>2, <2>3, <2>6
<1> QED
  BY <1>1

\* g is the sum of f on every subset of S, as the community module has it.
SumTable(g, f, S) ==
  SumsOn(g, f, SUBSET S) /\ \A R \in SUBSET S : SumFunctionOnSet(f, R) = g[R]

\* The sum of the community module is such a solution, applied to its set.
LEMMA SumSolves ==
  ASSUME NEW S, IsFiniteSet(S), NEW f
  PROVE  \E g : SumTable(g, f, S)
<1>1. PICK g : SumsOn(g, f, SUBSET S)
  BY SumExists
<1>2. ASSUME NEW R \in SUBSET S
      PROVE  SumFunctionOnSet(f, R) = g[R]
  <2>1. SumFunctionOnSet(f, R) = (CHOOSE h : SumsOn(h, f, SUBSET R))[R]
    BY DEF SumFunctionOnSet, FoldFunctionOnSet, MapThenFoldSet, SumsOn, Pick
  <2>2. \E h : SumsOn(h, f, SUBSET R)
    BY SumExists, FS_Subset
  <2>3. PICK h : h = (CHOOSE k : SumsOn(k, f, SUBSET R))
    OBVIOUS
  <2>4. SumsOn(h, f, SUBSET R)
    BY <2>2, <2>3
  <2>5. g[R] = h[R]
    BY <1>1, <2>4, SumUnique
  <2> QED
    BY <2>1, <2>3, <2>5
<1> QED
  BY <1>1, <1>2 DEF SumTable

\* The sum over no members is 0; otherwise it is that of one member and the rest.
LEMMA SumUnfolds ==
  ASSUME NEW S, IsFiniteSet(S), NEW f
  PROVE  /\ S = {} => SumFunctionOnSet(f, S) = 0
         /\ S # {} => /\ Pick(S) \in S
                      /\ SumFunctionOnSet(f, S) =
                           f[Pick(S)] + SumFunctionOnSet(f, S \ {Pick(S)})
<1>1. PICK g : SumTable(g, f, S)
  BY SumSolves
<1>2. g[S] = IF S = {} THEN 0 ELSE f[Pick(S)] + g[S \ {Pick(S)}]
  BY <1>1 DEF SumTable, SumsOn
<1>3. SumFunctionOnSet(f, S) = g[S]
      /\ SumFunctionOnSet(f, S \ {Pick(S)}) = g[S \ {Pick(S)}]
  BY <1>1 DEF SumTable
<1> QED
  BY <1>2, <1>3, PickMember
-----------------------------------------------------------------------------
\* The sum over the empty set.
LEMMA SumEmpty ==
  ASSUME NEW f
  PROVE  SumFunctionOnSet(f, {}) = 0
BY SumUnfolds, FS_EmptySet

\* A sum of zeros is zero.
LEMMA SumZero ==
  ASSUME NEW S, IsFiniteSet(S), NEW f, \A x \in S : f[x] = 0
  PROVE  SumFunctionOnSet(f, S) = 0
<1> DEFINE T == {U \in SUBSET S : SumFunctionOnSet(f, U) # 0}
<1>1. T = {}
  <2> SUFFICES ASSUME T # {} PROVE FALSE
    OBVIOUS
  <2>0. T \subseteq SUBSET S /\ T # {}
    OBVIOUS
  <2> HIDE DEF T
  <2>1. PICK U \in T : \A V \in T : V \subseteq U => V = U
    BY <2>0, LeastSubset
  <2> USE DEF T
  <2>2. U \in SUBSET S /\ IsFiniteSet(U) /\ SumFunctionOnSet(f, U) # 0
    BY FS_Subset
  <2>3. U # {}
    BY <2>2, SumEmpty
  <2>4. PICK x \in U : SumFunctionOnSet(f, U) = f[x] + SumFunctionOnSet(f, U \ {x})
    BY <2>2, <2>3, SumUnfolds
  <2>5. SumFunctionOnSet(f, U \ {x}) = 0
    BY <2>1, <2>2, <2>4
  <2> QED
    BY <2>2, <2>4, <2>5
<1> QED
  BY <1>1

\* A sum of naturals is a natural.
LEMMA SumType ==
  ASSUME NEW S, IsFiniteSet(S), NEW f, \A x \in S : f[x] \in Nat
  PROVE  SumFunctionOnSet(f, S) \in Nat
<1> DEFINE T == {U \in SUBSET S : SumFunctionOnSet(f, U) \notin Nat}
<1>1. T = {}
  <2> SUFFICES ASSUME T # {} PROVE FALSE
    OBVIOUS
  <2>0. T \subseteq SUBSET S /\ T # {}
    OBVIOUS
  <2> HIDE DEF T
  <2>1. PICK U \in T : \A V \in T : V \subseteq U => V = U
    BY <2>0, LeastSubset
  <2> USE DEF T
  <2>2. U \in SUBSET S /\ IsFiniteSet(U) /\ SumFunctionOnSet(f, U) \notin Nat
    BY FS_Subset
  <2>3. U # {}
    <3>1. SumFunctionOnSet(f, {}) = 0
      BY SumEmpty
    <3> QED
      BY <2>2, <3>1
  <2>4. /\ Pick(U) \in U
        /\ SumFunctionOnSet(f, U) = f[Pick(U)] + SumFunctionOnSet(f, U \ {Pick(U)})
    BY <2>2, <2>3, SumUnfolds
  <2>5. SumFunctionOnSet(f, U \ {Pick(U)}) \in Nat
    BY <2>1, <2>2, <2>4
  <2>6. f[Pick(U)] \in Nat
    BY <2>2, <2>4
  <2> QED
    BY <2>2, <2>4, <2>5, <2>6
<1> QED
  BY <1>1

\* Whichever member is taken out, the sum is that member and the rest.
LEMMA SumRemove ==
  ASSUME NEW S, IsFiniteSet(S), NEW f, \A x \in S : f[x] \in Nat, NEW x \in S
  PROVE  SumFunctionOnSet(f, S) = f[x] + SumFunctionOnSet(f, S \ {x})
<1> DEFINE Total(U) == SumFunctionOnSet(f, U)
           T == {U \in SUBSET S : \E y \in U : Total(U) # f[y] + Total(U \ {y})}
<1>1. T = {}
  <2> SUFFICES ASSUME T # {} PROVE FALSE
    OBVIOUS
  <2>0. T \subseteq SUBSET S /\ T # {}
    OBVIOUS
  <2> HIDE DEF T
  <2>1. PICK U \in T : \A V \in T : V \subseteq U => V = U
    BY <2>0, LeastSubset
  <2> USE DEF T
  <2>2. U \in SUBSET S /\ IsFiniteSet(U)
    BY FS_Subset
  <2>3. PICK y \in U : Total(U) # f[y] + Total(U \ {y})
    OBVIOUS
  <2>4. PICK c \in U : Total(U) = f[c] + Total(U \ {c})
    BY <2>2, <2>3, SumUnfolds
  <2>5. c # y
    BY <2>3, <2>4
  <2>6. U \ {c} \notin T /\ U \ {y} \notin T
    BY <2>1, <2>2, <2>3, <2>4
  <2>7. Total(U \ {c}) = f[y] + Total((U \ {c}) \ {y})
    BY <2>2, <2>3, <2>5, <2>6
  <2>8. Total(U \ {y}) = f[c] + Total((U \ {y}) \ {c})
    BY <2>2, <2>4, <2>5, <2>6
  <2>9. (U \ {c}) \ {y} = (U \ {y}) \ {c}
    OBVIOUS
  <2>10. Total((U \ {c}) \ {y}) \in Nat /\ f[c] \in Nat /\ f[y] \in Nat
    <3>1. (U \ {c}) \ {y} \in SUBSET S
      BY <2>2
    <3>2. IsFiniteSet((U \ {c}) \ {y})
      BY <3>1, FS_Subset
    <3> QED
      BY <2>2, <3>1, <3>2, SumType
  <2> HIDE DEF Total
  <2> QED
    BY <2>3, <2>4, <2>7, <2>8, <2>9, <2>10
<1>2. S \notin T
  BY <1>1
<1> QED
  BY <1>2

\* One more member adds its value.
LEMMA SumAdd ==
  ASSUME NEW S, IsFiniteSet(S), NEW f, NEW x, x \notin S, f[x] \in Nat,
         \A y \in S : f[y] \in Nat
  PROVE  SumFunctionOnSet(f, S \cup {x}) = SumFunctionOnSet(f, S) + f[x]
<1>1. IsFiniteSet(S \cup {x}) /\ x \in S \cup {x} /\ (S \cup {x}) \ {x} = S
  BY FS_AddElement
<1>2. SumFunctionOnSet(f, S \cup {x}) = f[x] + SumFunctionOnSet(f, S)
  BY <1>1, SumRemove
<1>3. SumFunctionOnSet(f, S) \in Nat
  BY SumType
<1> QED
  BY <1>2, <1>3

\* A sum depends on the values at its members only.
LEMMA SumFrame ==
  ASSUME NEW S, IsFiniteSet(S), NEW f, NEW g, \A x \in S : f[x] = g[x]
  PROVE  SumFunctionOnSet(f, S) = SumFunctionOnSet(g, S)
<1> DEFINE T == {U \in SUBSET S : SumFunctionOnSet(f, U) # SumFunctionOnSet(g, U)}
<1>1. T = {}
  <2> SUFFICES ASSUME T # {} PROVE FALSE
    OBVIOUS
  <2>0. T \subseteq SUBSET S /\ T # {}
    OBVIOUS
  <2> HIDE DEF T
  <2>1. PICK U \in T : \A V \in T : V \subseteq U => V = U
    BY <2>0, LeastSubset
  <2> USE DEF T
  <2>2. U \in SUBSET S /\ IsFiniteSet(U)
        /\ SumFunctionOnSet(f, U) # SumFunctionOnSet(g, U)
    BY FS_Subset
  <2>3. U # {}
    BY <2>2, SumEmpty
  <2>4. /\ Pick(U) \in U
        /\ SumFunctionOnSet(f, U) = f[Pick(U)] + SumFunctionOnSet(f, U \ {Pick(U)})
        /\ SumFunctionOnSet(g, U) = g[Pick(U)] + SumFunctionOnSet(g, U \ {Pick(U)})
    BY <2>2, <2>3, SumUnfolds
  <2>5. SumFunctionOnSet(f, U \ {Pick(U)}) = SumFunctionOnSet(g, U \ {Pick(U)})
    BY <2>1, <2>2, <2>4
  <2> QED
    BY <2>2, <2>4, <2>5
<1> QED
  BY <1>1

\* No member is more than the sum.
LEMMA SumBounds ==
  ASSUME NEW S, IsFiniteSet(S), NEW f, \A x \in S : f[x] \in Nat, NEW x \in S
  PROVE  f[x] <= SumFunctionOnSet(f, S)
<1>1. IsFiniteSet(S \ {x}) /\ SumFunctionOnSet(f, S \ {x}) \in Nat
  BY FS_RemoveElement, SumType
<1>2. SumFunctionOnSet(f, S) = f[x] + SumFunctionOnSet(f, S \ {x})
  BY SumRemove
<1> QED
  BY <1>1, <1>2

\* A sum over one more member, whose other values stay.
LEMMA SumGrows ==
  ASSUME NEW S, IsFiniteSet(S), NEW f, NEW g, NEW x, x \notin S, g[x] \in Nat,
         \A y \in S : f[y] \in Nat /\ g[y] = f[y]
  PROVE  SumFunctionOnSet(g, S \cup {x}) = SumFunctionOnSet(f, S) + g[x]
<1>1. SumFunctionOnSet(g, S \cup {x}) = SumFunctionOnSet(g, S) + g[x]
  BY SumAdd
<1>2. SumFunctionOnSet(g, S) = SumFunctionOnSet(f, S)
  BY SumFrame
<1> QED
  BY <1>1, <1>2

\* A sum over one member less, whose other values stay.
LEMMA SumShrinks ==
  ASSUME NEW S, IsFiniteSet(S), NEW f, NEW g, NEW x \in S,
         \A y \in S : f[y] \in Nat /\ g[y] = f[y]
  PROVE  SumFunctionOnSet(g, S \ {x}) = SumFunctionOnSet(f, S) - f[x]
<1>1. IsFiniteSet(S \ {x})
  BY FS_RemoveElement
<1>2. SumFunctionOnSet(g, S \ {x}) = SumFunctionOnSet(f, S \ {x})
  BY <1>1, SumFrame
<1>3. SumFunctionOnSet(f, S) = f[x] + SumFunctionOnSet(f, S \ {x})
  BY SumRemove
<1>4. f[x] \in Nat /\ SumFunctionOnSet(f, S \ {x}) \in Nat
  BY <1>1, SumType
<1> QED
  BY <1>2, <1>3, <1>4
\* More members, and no smaller values at those of the smaller set.
LEMMA SumMonotone ==
  ASSUME NEW S, IsFiniteSet(S), NEW R, R \subseteq S, NEW f, NEW g,
         \A x \in S : f[x] \in Nat,
         \A x \in R : g[x] \in Nat /\ g[x] <= f[x]
  PROVE  SumFunctionOnSet(g, R) <= SumFunctionOnSet(f, S)
<1> DEFINE T == {U \in SUBSET S :
                   SumFunctionOnSet(g, R \cap U) > SumFunctionOnSet(f, U)}
<1>1. T = {}
  <2> SUFFICES ASSUME T # {} PROVE FALSE
    OBVIOUS
  <2>0. T \subseteq SUBSET S /\ T # {}
    OBVIOUS
  <2> HIDE DEF T
  <2>1. PICK U \in T : \A V \in T : V \subseteq U => V = U
    BY <2>0, LeastSubset
  <2> USE DEF T
  <2>2. /\ U \in SUBSET S /\ IsFiniteSet(U) /\ IsFiniteSet(R \cap U)
        /\ SumFunctionOnSet(g, R \cap U) > SumFunctionOnSet(f, U)
    BY FS_Subset
  <2>3. U # {}
    <3>1. SUFFICES ASSUME U = {} PROVE FALSE
      OBVIOUS
    <3>2. R \cap U = {}
      BY <3>1
    <3>3. SumFunctionOnSet(g, R \cap U) = 0 /\ SumFunctionOnSet(f, U) = 0
      BY <3>1, <3>2, SumEmpty
    <3> QED
      BY <2>2, <3>3
  <2>4. PICK x \in U : TRUE
    BY <2>3
  <2>5. U \ {x} \in SUBSET S /\ U \ {x} # U /\ IsFiniteSet(U \ {x})
    BY <2>2, <2>4, FS_Subset
  <2>6. ~ (SumFunctionOnSet(g, R \cap (U \ {x})) > SumFunctionOnSet(f, U \ {x}))
    BY <2>1, <2>5
  <2>7. /\ SumFunctionOnSet(f, U) = f[x] + SumFunctionOnSet(f, U \ {x})
        /\ f[x] \in Nat /\ SumFunctionOnSet(f, U \ {x}) \in Nat
    BY <2>2, <2>4, <2>5, SumRemove, SumType
  <2>8. IsFiniteSet(R \cap (U \ {x}))
    BY <2>5, FS_Subset
  <2>9. SumFunctionOnSet(g, R \cap (U \ {x})) \in Nat
    BY <2>8, SumType
  <2>10. CASE x \in R
    <3>1. (R \cap U) \ {x} = R \cap (U \ {x}) /\ x \in R \cap U
      BY <2>4, <2>10
    <3>2. SumFunctionOnSet(g, R \cap U)
            = g[x] + SumFunctionOnSet(g, (R \cap U) \ {x})
      BY <2>2, <3>1, SumRemove
    <3>3. g[x] \in Nat /\ g[x] <= f[x]
      BY <2>10
    <3>4. SumFunctionOnSet(g, R \cap U)
            = g[x] + SumFunctionOnSet(g, R \cap (U \ {x}))
      BY <3>1, <3>2
    <3>5. PICK a, b, c, d :
            /\ a = SumFunctionOnSet(g, R \cap U) /\ b = SumFunctionOnSet(f, U)
            /\ c = SumFunctionOnSet(g, R \cap (U \ {x}))
            /\ d = SumFunctionOnSet(f, U \ {x})
      OBVIOUS
    <3>6. /\ a > b /\ ~ (c > d) /\ b = f[x] + d /\ a = g[x] + c
          /\ c \in Nat /\ d \in Nat /\ f[x] \in Nat
      BY <2>2, <2>6, <2>7, <2>9, <3>4, <3>5
    <3> QED
      BY ONLY <3>3, <3>6
  <2>11. CASE x \notin R
    <3>1. R \cap U = R \cap (U \ {x})
      BY <2>11
    <3>2. PICK a, b, d :
            /\ a = SumFunctionOnSet(g, R \cap U) /\ b = SumFunctionOnSet(f, U)
            /\ d = SumFunctionOnSet(f, U \ {x})
      OBVIOUS
    <3>3. a = SumFunctionOnSet(g, R \cap (U \ {x}))
      BY <3>1, <3>2
    <3>4. /\ a > b /\ ~ (a > d) /\ b = f[x] + d
          /\ a \in Nat /\ d \in Nat /\ f[x] \in Nat
      BY <2>2, <2>6, <2>7, <2>9, <3>2, <3>3
    <3> QED
      BY ONLY <3>4
  <2> QED
    BY <2>10, <2>11
<1>2. S \notin T /\ R \cap S = R
  BY <1>1
<1>3. ~ (SumFunctionOnSet(g, R) > SumFunctionOnSet(f, S))
  BY <1>2
<1>4. SumFunctionOnSet(g, R) \in Nat /\ SumFunctionOnSet(f, S) \in Nat
  BY SumType, FS_Subset
<1> HIDE DEF T
<1> QED
  BY <1>3, <1>4

\* One value changes.
LEMMA SumChange ==
  ASSUME NEW S, IsFiniteSet(S), NEW f, NEW g, NEW x \in S,
         \A y \in S : f[y] \in Nat /\ g[y] \in Nat,
         \A y \in S : y # x => g[y] = f[y]
  PROVE  SumFunctionOnSet(g, S) = SumFunctionOnSet(f, S) - f[x] + g[x]
<1>1. IsFiniteSet(S \ {x})
  BY FS_RemoveElement
<1>2. SumFunctionOnSet(g, S \ {x}) = SumFunctionOnSet(f, S \ {x})
  BY <1>1, SumFrame
<1>3. /\ SumFunctionOnSet(f, S) = f[x] + SumFunctionOnSet(f, S \ {x})
      /\ SumFunctionOnSet(g, S) = g[x] + SumFunctionOnSet(g, S \ {x})
  BY SumRemove
<1>4. f[x] \in Nat /\ g[x] \in Nat /\ SumFunctionOnSet(f, S \ {x}) \in Nat
  BY <1>1, SumType
<1> QED
  BY <1>2, <1>3, <1>4

-----------------------------------------------------------------------------
(* LoanMath                                                                 *)

\* Truncating division of naturals by a positive divisor.
LEMMA DivFacts ==
  ASSUME NEW a \in Nat, NEW c \in Nat, c > 0
  PROVE  /\ a \div c \in Nat
         /\ c * (a \div c) <= a
         /\ a < c * (a \div c) + c
  OBVIOUS

\* mul_div of unsigned integers is unsigned.
LEMMA MulDivType ==
  ASSUME NEW a \in Nat, NEW b \in Nat, NEW c \in Nat, c > 0
  PROVE  MulDiv(a, b, c) \in Nat
<1>1. a * b \in Nat
  OBVIOUS
<1> QED
  BY <1>1, DivFacts DEF MulDiv

\* mul_div is monotone in its first two arguments.
LEMMA MulDivMonotone ==
  ASSUME NEW a \in Nat, NEW b \in Nat, NEW x \in Nat, NEW y \in Nat, NEW c \in Nat,
         c > 0, a <= b, x <= y
  PROVE  MulDiv(a, x, c) <= MulDiv(b, y, c)
<1>1. a * x \in Nat /\ b * y \in Nat
  OBVIOUS
<1>2. a * x <= b * y
  <2>1. b = a + (b - a) /\ b - a \in Nat /\ y = x + (y - x) /\ y - x \in Nat
    OBVIOUS
  <2> QED
    BY <2>1
<1>3. \A m, n \in Nat : m <= n => m \div c <= n \div c
  OBVIOUS
<1> QED
  BY <1>1, <1>2, <1>3 DEF MulDiv

\* Splitting the product does not change the quotient: MulDivWide is mul_div.
LEMMA MulDivWideIsMulDiv ==
  ASSUME NEW a \in Nat, NEW b \in Nat, NEW c \in Nat, c > 0
  PROVE  MulDivWide(a, b, c) = MulDiv(a, b, c)
<1> DEFINE q == a \div c
           r == a % c
           s == (r * b) \div c
<1>1. q \in Nat /\ r \in Nat /\ a = c * q + r
  OBVIOUS
<1>2. r * b \in Nat /\ q * b \in Nat
  BY <1>1
<1>3. s \in Nat /\ c * s <= r * b /\ r * b < c * s + c
  BY <1>2, DivFacts
<1>4. a * b = c * (q * b) + r * b
  BY <1>1
<1> HIDE DEF q, r, s
<1>5. c * (q * b + s) <= a * b /\ a * b < c * (q * b + s) + c
  BY <1>2, <1>3, <1>4
<1>6. \A x, y \in Nat : (c * y <= x /\ x < c * y + c) => x \div c = y
  OBVIOUS
<1>7. (a * b) \div c = q * b + s
  <2>1. a * b \in Nat /\ q * b + s \in Nat
    BY <1>2, <1>3
  <2> QED
    BY <2>1, <1>5, <1>6
<1> QED
  BY <1>7 DEF MulDiv, MulDivWide, q, r, s

\* The constants of the program as the lemmas below use them.
LEMMA Scales ==
  /\ BPS_DIVISOR \in Nat /\ BPS_DIVISOR > 0 /\ PRICE_UNITS \in Nat /\ PRICE_UNITS > 0
  /\ MAX_LTV_BONUS_BPS \in Nat /\ MAX_LTV_PENALTY_BPS \in Nat
  /\ LIQUIDATION_BUFFER_BPS \in Nat /\ MAX_EFFECTIVE_LIQUIDATION_LTV_BPS \in Nat
  /\ PROTOCOL_FEE_BPS \in Nat /\ OPERATIONS_SPLIT_BPS \in Nat
  /\ LOAN_FEE_TREASURY_BPS \in Nat /\ LOAN_FEE_STAKING_BPS \in Nat
  /\ LOAN_FEE_OPERATIONS_BPS \in Nat
  BY DEF BPS_DIVISOR, PRICE_UNITS, MAX_LTV_BONUS_BPS, MAX_LTV_PENALTY_BPS,
     LIQUIDATION_BUFFER_BPS, MAX_EFFECTIVE_LIQUIDATION_LTV_BPS, PROTOCOL_FEE_BPS,
     OPERATIONS_SPLIT_BPS, LOAN_FEE_TREASURY_BPS, LOAN_FEE_STAKING_BPS,
     LOAN_FEE_OPERATIONS_BPS

\* Whatever its base, a token's effective LTV is between 10% and 90%.
LEMMA EffectiveLtvBounds ==
  ASSUME NEW ltv \in Nat, NEW d \in Nat
  PROVE  /\ DurationAdjustedLtv(ltv, d) \in Nat
         /\ 1000 <= DurationAdjustedLtv(ltv, d)
         /\ DurationAdjustedLtv(ltv, d) <= 9000
<1> DEFINE duration == Clamp(d, MIN_LOAN_DURATION, MAX_LOAN_DURATION)
           effective_ltv == IF duration <= BASE_DURATION
                            THEN ltv + DurationBonus(ltv, duration)
                            ELSE ltv - DurationPenalty(ltv, duration)
<1>1. duration \in Nat /\ MIN_LOAN_DURATION <= duration /\ duration <= MAX_LOAN_DURATION
  BY DurationAssumption DEF Clamp
<1>2. ASSUME duration <= BASE_DURATION
      PROVE  DurationBonus(ltv, duration) \in Nat
  <2>1. BASE_DURATION - duration \in Nat /\ BASE_DURATION - MIN_LOAN_DURATION \in Nat
        /\ BASE_DURATION - MIN_LOAN_DURATION > 0
    BY <1>1, <1>2, DurationAssumption
  <2>2. MulDiv(MAX_LTV_BONUS_BPS, BASE_DURATION - duration,
               BASE_DURATION - MIN_LOAN_DURATION) \in Nat
    BY <2>1, MulDivType, Scales
  <2> QED
    BY <2>2, MulDivType, Scales DEF DurationBonus
<1>3. ASSUME ~(duration <= BASE_DURATION)
      PROVE  DurationPenalty(ltv, duration) \in Nat
  <2>1. duration - BASE_DURATION \in Nat /\ MAX_LOAN_DURATION - BASE_DURATION \in Nat
        /\ MAX_LOAN_DURATION - BASE_DURATION > 0
    BY <1>1, <1>3, DurationAssumption
  <2>2. MulDiv(MAX_LTV_PENALTY_BPS, duration - BASE_DURATION,
               MAX_LOAN_DURATION - BASE_DURATION) \in Nat
    BY <2>1, MulDivType, Scales
  <2> QED
    BY <2>2, MulDivType, Scales DEF DurationPenalty
<1>4. effective_ltv \in Int
  BY <1>2, <1>3
<1>5. DurationAdjustedLtv(ltv, d) = Clamp(effective_ltv, 1000, 9000)
  BY DEF DurationAdjustedLtv
<1> HIDE DEF effective_ltv
<1> QED
  BY <1>4, <1>5 DEF Clamp

\* The amount lent and the liquidation price are unsigned integers.
LEMMA LoanAmountType ==
  ASSUME NEW c \in Nat, NEW p \in Nat, NEW ltv \in Nat
  PROVE  LoanAmount(c, p, ltv) \in Nat
<1>1. c * p \in Nat
  OBVIOUS
<1>2. MulDivWide(c * p, ltv, PRICE_UNITS) \in Nat
  BY <1>1, MulDivWideIsMulDiv, MulDivType, Scales
<1> QED
  BY <1>2, DivFacts, Scales DEF LoanAmount

\* A liquidation price whose divisor is not zero is unsigned.
LEMMA LiquidationPriceType ==
  ASSUME NEW s \in Nat, NEW c \in Nat, NEW ltv \in Nat,
         LiquidationDivisor(c, ltv) > 0
  PROVE  LiquidationPrice(s, c, ltv) \in Nat
<1> DEFINE raw == ltv + LIQUIDATION_BUFFER_BPS
           e == IF raw < MAX_EFFECTIVE_LIQUIDATION_LTV_BPS
                THEN raw ELSE MAX_EFFECTIVE_LIQUIDATION_LTV_BPS
<1>1. e \in Nat
  BY Scales
<1> HIDE DEF e
<1>2. MulDiv(c, e, BPS_DIVISOR) \in Nat
  BY <1>1, MulDivType, Scales
<1>3. LiquidationDivisor(c, ltv) = MulDiv(c, e, BPS_DIVISOR)
  BY DEF LiquidationDivisor, e
<1> QED
  BY <1>2, <1>3, MulDivType, Scales DEF LiquidationPrice

\* A quote that does not fail is made of unsigned integers.
LEMMA QuoteAmounts ==
  ASSUME NEW ltv \in Nat, NEW c \in Nat, NEW d \in Nat, NEW p \in Nat,
         LiquidationDivisor(c, ltv) > 0
  PROVE  LET amount == LoanAmount(c, p, DurationAdjustedLtv(ltv, d))
         IN  amount \in Nat /\ LiquidationPrice(amount, c, ltv) \in Nat
<1>1. DurationAdjustedLtv(ltv, d) \in Nat
  <2>1. ltv \in Nat /\ d \in Nat
    OBVIOUS
  <2> QED
    BY ONLY <2>1, EffectiveLtvBounds
<1>2. LoanAmount(c, p, DurationAdjustedLtv(ltv, d)) \in Nat
  BY <1>1, LoanAmountType
<1> QED
  BY <1>2, LiquidationPriceType

\* The fee of a repayment and its shares are unsigned, and the shares the
\* borrower pays add up to exactly the fee: nothing is lost to rounding.
LEMMA FeeSplit ==
  ASSUME NEW principal \in Nat
  PROVE  LET fee == ProtocolFee(principal)
         IN  /\ fee \in Nat
             /\ StakingFee(fee) \in Nat
             /\ OperationsFee(fee) \in Nat
             /\ TreasuryFeeWithDust(fee) \in Nat
             /\ TreasuryFeeWithDust(fee) + StakingFee(fee) + OperationsFee(fee) = fee
<1> DEFINE fee == ProtocolFee(principal)
<1>1. fee \in Nat
  BY MulDivType, Scales DEF ProtocolFee
<1> HIDE DEF fee
<1>2. StakingFee(fee) \in Nat /\ OperationsFee(fee) \in Nat /\ TreasuryFee(fee) \in Nat
  BY <1>1, MulDivType, Scales DEF StakingFee, OperationsFee, TreasuryFee
<1>3. TreasuryFee(fee) + StakingFee(fee) + OperationsFee(fee) <= fee
  BY <1>1 DEF StakingFee, OperationsFee, TreasuryFee, MulDiv, LOAN_FEE_STAKING_BPS,
     LOAN_FEE_OPERATIONS_BPS, LOAN_FEE_TREASURY_BPS, BPS_DIVISOR
<1> QED
  BY <1>1, <1>2, <1>3 DEF TreasuryFeeWithDust, Dust, SaturatingSub, fee

\* The two parts of liquidation proceeds are unsigned and add up to them.
LEMMA ProceedsSplit ==
  ASSUME NEW s \in Nat
  PROVE  /\ OperationsShare(s) \in Nat
         /\ TreasuryShare(s) \in Nat
         /\ OperationsShare(s) + TreasuryShare(s) = s
<1>1. OperationsShare(s) \in Nat
  BY MulDivType, Scales DEF OperationsShare
<1>2. OperationsShare(s) <= s
  BY DEF OperationsShare, MulDiv, OPERATIONS_SPLIT_BPS, BPS_DIVISOR
<1> QED
  BY <1>1, <1>2 DEF TreasuryShare
=============================================================================
