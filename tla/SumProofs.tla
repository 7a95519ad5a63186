----------------------------- MODULE SumProofs -----------------------------
(***************************************************************************)
(* Lemmas about the sums of the model, SumFunctionOnSet of the community   *)
(* modules: the recursion it is defined by has a solution on finite sets,  *)
(* the order in which it takes the elements does not matter, and what the  *)
(* sum is of a set with one element more, of two sets, of a function that  *)
(* is changed at one element.  And induction on the natural numbers.       *)
(***************************************************************************)
EXTENDS Integers, FiniteSets, Functions, FiniteSetTheorems, TLAPS

\* Induction on the natural numbers, with the property as a set: a number left
\* out would make successor an injection of a finite set into itself that
\* misses 0.
LEMMA SetInduction ==
  ASSUME NEW T, 0 \in T, \A n \in Nat : n \in T => n + 1 \in T
  PROVE  Nat \subseteq T
<1> SUFFICES ASSUME NEW n \in Nat, n \notin T PROVE FALSE
  OBVIOUS
<1> DEFINE I == {k \in 0..n : k \in T}
           f == [k \in I |-> k + 1]
<1>1. IsFiniteSet(I)
  <2>1. IsFiniteSet(0..n)
    BY FS_Interval
  <2> QED BY <2>1, FS_Subset
<1>2. \A k \in I : k + 1 \in I
  OBVIOUS
<1>3. f \in Injection(I, I)
  BY <1>2 DEF Injection, IsInjective
<1>4. f \in Surjection(I, I)
  BY <1>1, <1>3, FS_Injection
<1>5. 0 \in I
  OBVIOUS
<1>6. PICK k \in I : f[k] = 0
  BY <1>4, <1>5 DEF Surjection
<1> QED BY <1>6

\* Induction on the size of the subsets of a finite set: a set of them that
\* holds the empty one and, with all of a size, those one larger.
LEMMA SubsetInduction ==
  ASSUME NEW R, IsFiniteSet(R), NEW G, {} \in G,
         \A S \in SUBSET R : S # {} /\ (\A x \in S : S \ {x} \in G) => S \in G
  PROVE  \A S \in SUBSET R : S \in G
<1> DEFINE T == {n \in Nat : \A S \in SUBSET R : Cardinality(S) = n => S \in G}
<1>0. \A S \in SUBSET R : IsFiniteSet(S) /\ Cardinality(S) \in Nat
  BY FS_Subset, FS_CardinalityType
<1>1. 0 \in T
  BY <1>0, FS_EmptySet
<1>2. ASSUME NEW n \in Nat, n \in T PROVE n + 1 \in T
  <2> SUFFICES ASSUME NEW S \in SUBSET R, Cardinality(S) = n + 1 PROVE S \in G
    OBVIOUS
  <2>1. S # {}
    BY FS_EmptySet
  <2>2. ASSUME NEW x \in S PROVE S \ {x} \in G
    <3>1. Cardinality(S \ {x}) = Cardinality(S) - 1
      BY <1>0, FS_RemoveElement
    <3>2. S \ {x} \in SUBSET R /\ Cardinality(S \ {x}) = n
      BY <3>1
    <3> QED BY <1>2, <3>2
  <2> QED BY <2>1, <2>2
<1> HIDE DEF T
<1>3. Nat \subseteq T
  BY <1>1, <1>2, SetInduction
<1> QED BY <1>0, <1>3 DEF T

-----------------------------------------------------------------------------
(* The recursion *)

Pick(S) == CHOOSE x \in S : TRUE

\* One step of the recursion, given the sums over smaller sets.
SumStep(f, g, S) == IF S = {} THEN 0 ELSE f[Pick(S)] + g[S \ {Pick(S)}]

IsSum(g, f, D) == g = [S \in D |-> SumStep(f, g, S)]

\* The recursion has a solution on the subsets of a finite set: solutions on
\* the subsets of less than all make one on all.
LEMMA SumExists ==
  ASSUME NEW f, NEW R, IsFiniteSet(R)
  PROVE  \E g : IsSum(g, f, SUBSET R)
<1> DEFINE Small(n) == {S \in SUBSET R : Cardinality(S) <= n}
           T == {n \in Nat : \E g : IsSum(g, f, Small(n))}
<1>0. \A S \in SUBSET R : IsFiniteSet(S) /\ Cardinality(S) \in Nat
  BY FS_Subset, FS_CardinalityType
<1>1. 0 \in T
  <2> DEFINE g == [S \in Small(0) |-> 0]
  <2>1. \A S \in Small(0) : S = {}
    BY <1>0, FS_EmptySet
  <2>2. IsSum(g, f, Small(0))
    BY <2>1 DEF IsSum, SumStep
  <2> HIDE DEF g
  <2> QED BY <2>2
<1>2. ASSUME NEW n \in Nat, n \in T PROVE n + 1 \in T
  <2>1. PICK h : IsSum(h, f, Small(n))
    BY <1>2
  <2> DEFINE g == [S \in Small(n + 1) |-> SumStep(f, h, S)]
  <2>2. \A S \in Small(n) : g[S] = h[S]
    <3>1. Small(n) \subseteq Small(n + 1)
      BY <1>0
    <3>2. \A S \in Small(n) : h[S] = SumStep(f, h, S)
      BY <2>1 DEF IsSum
    <3> QED BY <3>1, <3>2
  <2>3. \A S \in Small(n + 1) : S # {} => S \ {Pick(S)} \in Small(n)
    <3> SUFFICES ASSUME NEW S \in Small(n + 1), S # {}
                 PROVE  S \ {Pick(S)} \in Small(n)
      OBVIOUS
    <3>1. S \in SUBSET R /\ IsFiniteSet(S) /\ Cardinality(S) \in Nat /\ Pick(S) \in S
      BY <1>0 DEF Pick
    <3>2. Cardinality(S \ {Pick(S)}) = Cardinality(S) - 1
      BY <3>1, FS_RemoveElement
    <3> QED BY <3>1, <3>2
  <2> HIDE DEF Small
  <2>4. \A S \in Small(n + 1) : SumStep(f, g, S) = SumStep(f, h, S)
    <3> HIDE DEF g
    <3> QED BY <2>2, <2>3 DEF SumStep
  <2>5. IsSum(g, f, Small(n + 1))
    BY <2>4 DEF IsSum
  <2> HIDE DEF g
  <2> QED BY <2>5
<1> HIDE DEF T
<1>3. Nat \subseteq T
  BY <1>1, <1>2, SetInduction
<1>4. Cardinality(R) \in T
  BY <1>0, <1>3
<1>5. Small(Cardinality(R)) = SUBSET R
  BY FS_Subset
<1> QED BY <1>4, <1>5 DEF T

\* The function SumFunctionOnSet evaluates.
Summing(f, R) == CHOOSE g : IsSum(g, f, SUBSET R)

\* A sum is the value of the recursive function at the whole set.
LEMMA SumIsSumming ==
  ASSUME NEW f, NEW R
  PROVE  SumFunctionOnSet(f, R) = Summing(f, R)[R]
BY DEF SumFunctionOnSet, FoldFunctionOnSet, MapThenFoldSet, Summing, IsSum, SumStep, Pick

\* That function satisfies its recursion on every subset.
LEMMA SummingSteps ==
  ASSUME NEW f, NEW R, IsFiniteSet(R), NEW S \in SUBSET R
  PROVE  Summing(f, R)[S] = SumStep(f, Summing(f, R), S)
<1>1. IsSum(Summing(f, R), f, SUBSET R)
  BY SumExists DEF Summing
<1> QED BY <1>1 DEF IsSum

\* Two functions that agree on a set have the same sum, whatever larger sets
\* the recursions started from.
LEMMA SummingsAgree ==
  ASSUME NEW f, NEW h, NEW R, NEW P, IsFiniteSet(R), IsFiniteSet(P),
         \A x \in R \cap P : f[x] = h[x]
  PROVE  \A S \in SUBSET (R \cap P) : Summing(f, R)[S] = Summing(h, P)[S]
<1> DEFINE I == R \cap P
           F == Summing(f, R)
           H == Summing(h, P)
           G == {S \in SUBSET I : F[S] = H[S]}
<1>1. IsFiniteSet(I)
  BY FS_Subset
<1>2. \A S \in SUBSET I : F[S] = SumStep(f, F, S) /\ H[S] = SumStep(h, H, S)
  BY SummingSteps
<1> HIDE DEF F, H
<1>3. {} \in G
  BY <1>2 DEF SumStep
<1>4. ASSUME NEW S \in SUBSET I, S # {}, \A x \in S : S \ {x} \in G
      PROVE  S \in G
  <2>1. Pick(S) \in S
    BY <1>4 DEF Pick
  <2>2. F[S \ {Pick(S)}] = H[S \ {Pick(S)}] /\ f[Pick(S)] = h[Pick(S)]
    BY <1>4, <2>1
  <2> QED BY <1>2, <1>4, <2>2 DEF SumStep
<1> HIDE DEF G
<1>5. \A S \in SUBSET I : S \in G
  BY <1>1, <1>3, <1>4, SubsetInduction
<1> QED BY <1>5 DEF G, F, H

-----------------------------------------------------------------------------
(* Sums *)

\* The sum over no element.
LEMMA SumEmpty ==
  ASSUME NEW f
  PROVE  SumFunctionOnSet(f, {}) = 0
BY FS_EmptySet, SumIsSumming, SummingSteps DEF SumStep

\* Functions that agree on a set have the same sum over it.
LEMMA SumSame ==
  ASSUME NEW f, NEW h, NEW R, IsFiniteSet(R), \A x \in R : f[x] = h[x]
  PROVE  SumFunctionOnSet(f, R) = SumFunctionOnSet(h, R)
BY SumIsSumming, SummingsAgree

\* The recursion takes one element of the set.
LEMMA SumUnfolds ==
  ASSUME NEW f, NEW R, IsFiniteSet(R), R # {}
  PROVE  /\ Pick(R) \in R
         /\ SumFunctionOnSet(f, R) = f[Pick(R)] + SumFunctionOnSet(f, R \ {Pick(R)})
<1> DEFINE Q == R \ {Pick(R)}
<1>1. IsFiniteSet(Q) /\ Pick(R) \in R
  BY FS_RemoveElement DEF Pick
<1>2. Summing(f, R)[R] = f[Pick(R)] + Summing(f, R)[Q]
  BY SummingSteps DEF SumStep
<1>3. Summing(f, R)[Q] = Summing(f, Q)[Q]
  BY <1>1, SummingsAgree
<1> QED BY <1>1, <1>2, <1>3, SumIsSumming

\* A sum of integers is one.
LEMMA SumType ==
  ASSUME NEW f, NEW R, IsFiniteSet(R), \A x \in R : f[x] \in Int
  PROVE  SumFunctionOnSet(f, R) \in Int
<1> DEFINE G == {S \in SUBSET R : SumFunctionOnSet(f, S) \in Int}
<1>1. {} \in G
  BY SumEmpty
<1>2. ASSUME NEW S \in SUBSET R, S # {}, \A x \in S : S \ {x} \in G
      PROVE  S \in G
  <2>1. IsFiniteSet(S)
    BY FS_Subset
  <2>2. /\ Pick(S) \in S
        /\ SumFunctionOnSet(f, S) = f[Pick(S)] + SumFunctionOnSet(f, S \ {Pick(S)})
    BY <1>2, <2>1, SumUnfolds
  <2>3. SumFunctionOnSet(f, S \ {Pick(S)}) \in Int /\ f[Pick(S)] \in Int
    BY <1>2, <2>2
  <2> QED BY <2>2, <2>3
<1> HIDE DEF G
<1>3. \A S \in SUBSET R : S \in G
  BY <1>1, <1>2, SubsetInduction
<1> QED BY <1>3 DEF G

\* Any element can be taken first.
LEMMA SumRemove ==
  ASSUME NEW f, NEW R, IsFiniteSet(R), \A y \in R : f[y] \in Int, NEW x \in R
  PROVE  SumFunctionOnSet(f, R) = f[x] + SumFunctionOnSet(f, R \ {x})
<1> DEFINE Sum(S) == SumFunctionOnSet(f, S)
           G == {S \in SUBSET R : \A y \in S : Sum(S) = f[y] + Sum(S \ {y})}
<1>0. \A S \in SUBSET R : IsFiniteSet(S) /\ Sum(S) \in Int
  BY FS_Subset, SumType
<1>1. \A S \in SUBSET R : S # {} => Pick(S) \in S /\ Sum(S) = f[Pick(S)] + Sum(S \ {Pick(S)})
  BY <1>0, SumUnfolds
<1> HIDE DEF Sum
<1>2. {} \in G
  OBVIOUS
<1>3. ASSUME NEW S \in SUBSET R, S # {}, \A z \in S : S \ {z} \in G
      PROVE  S \in G
  <2> SUFFICES ASSUME NEW y \in S PROVE Sum(S) = f[y] + Sum(S \ {y})
    OBVIOUS
  <2>1. PICK p \in S : p = Pick(S) /\ Sum(S) = f[p] + Sum(S \ {p})
    BY <1>1, <1>3
  <2>2. CASE y = p
    BY <2>1, <2>2
  <2>3. CASE y # p
    <3>1. S \ {p} \in G /\ S \ {y} \in G
      BY <1>3
    <3>2. Sum(S \ {p}) = f[y] + Sum((S \ {p}) \ {y})
      BY <2>3, <3>1
    <3>3. Sum(S \ {y}) = f[p] + Sum((S \ {y}) \ {p})
      BY <2>3, <3>1
    <3>4. (S \ {p}) \ {y} = (S \ {y}) \ {p} /\ (S \ {y}) \ {p} \in SUBSET R
      OBVIOUS
    <3>5. f[y] \in Int /\ f[p] \in Int /\ Sum((S \ {y}) \ {p}) \in Int
      BY <1>0, <3>4
    <3>6. Sum(S \ {p}) = f[y] + Sum((S \ {y}) \ {p})
      BY <3>2, <3>4
    <3> QED BY <2>1, <3>3, <3>5, <3>6
  <2> QED BY <2>2, <2>3
<1> HIDE DEF G
<1>4. \A S \in SUBSET R : S \in G
  BY <1>2, <1>3, SubsetInduction
<1>5. Sum(R) = f[x] + Sum(R \ {x})
  BY <1>4 DEF G
<1> QED BY <1>5 DEF Sum

\* A function that is 0 on a set has the sum 0.
LEMMA SumZero ==
  ASSUME NEW f, NEW R, IsFiniteSet(R), \A x \in R : f[x] = 0
  PROVE  SumFunctionOnSet(f, R) = 0
<1> DEFINE G == {S \in SUBSET R : SumFunctionOnSet(f, S) = 0}
<1>1. {} \in G
  BY SumEmpty
<1>2. ASSUME NEW S \in SUBSET R, S # {}, \A x \in S : S \ {x} \in G
      PROVE  S \in G
  <2>1. IsFiniteSet(S)
    BY FS_Subset
  <2>2. /\ Pick(S) \in S
        /\ SumFunctionOnSet(f, S) = f[Pick(S)] + SumFunctionOnSet(f, S \ {Pick(S)})
    BY <1>2, <2>1, SumUnfolds
  <2>3. SumFunctionOnSet(f, S \ {Pick(S)}) = 0 /\ f[Pick(S)] = 0
    BY <1>2, <2>2
  <2> QED BY <2>2, <2>3
<1> HIDE DEF G
<1>3. \A S \in SUBSET R : S \in G
  BY <1>1, <1>2, SubsetInduction
<1> QED BY <1>3 DEF G

\* A change of the function at one element changes the sum as much.
LEMMA SumChange ==
  ASSUME NEW f, NEW h, NEW R, IsFiniteSet(R), NEW x \in R,
         \A y \in R : f[y] \in Int /\ h[y] \in Int,
         \A y \in R \ {x} : h[y] = f[y]
  PROVE  SumFunctionOnSet(h, R) = SumFunctionOnSet(f, R) + (h[x] - f[x])
<1>1. IsFiniteSet(R \ {x})
  BY FS_RemoveElement
<1>2. SumFunctionOnSet(h, R \ {x}) = SumFunctionOnSet(f, R \ {x})
  BY <1>1, SumSame
<1>3. SumFunctionOnSet(h, R) = h[x] + SumFunctionOnSet(h, R \ {x})
  BY SumRemove
<1>4. SumFunctionOnSet(f, R) = f[x] + SumFunctionOnSet(f, R \ {x})
  BY SumRemove
<1>5. SumFunctionOnSet(f, R \ {x}) \in Int
  BY <1>1, SumType
<1> QED BY <1>2, <1>3, <1>4, <1>5

\* A function that is smaller everywhere has a smaller sum.
LEMMA SumLeq ==
  ASSUME NEW f, NEW h, NEW R, IsFiniteSet(R),
         \A x \in R : f[x] \in Int /\ h[x] \in Int /\ f[x] <= h[x]
  PROVE  SumFunctionOnSet(f, R) <= SumFunctionOnSet(h, R)
<1> DEFINE G == {S \in SUBSET R : SumFunctionOnSet(f, S) <= SumFunctionOnSet(h, S)}
<1>1. {} \in G
  BY SumEmpty
<1>2. ASSUME NEW S \in SUBSET R, S # {}, \A x \in S : S \ {x} \in G
      PROVE  S \in G
  <2>1. PICK x : x \in S
    BY <1>2
  <2>2. IsFiniteSet(S) /\ IsFiniteSet(S \ {x})
    BY FS_Subset
  <2>3. SumFunctionOnSet(f, S) = f[x] + SumFunctionOnSet(f, S \ {x})
    BY <2>1, <2>2, SumRemove
  <2>4. SumFunctionOnSet(h, S) = h[x] + SumFunctionOnSet(h, S \ {x})
    BY <2>1, <2>2, SumRemove
  <2>5. SumFunctionOnSet(f, S \ {x}) \in Int /\ SumFunctionOnSet(h, S \ {x}) \in Int
    BY <2>2, SumType
  <2>6. SumFunctionOnSet(f, S \ {x}) <= SumFunctionOnSet(h, S \ {x})
    BY <1>2, <2>1
  <2> QED BY <2>1, <2>3, <2>4, <2>5, <2>6
<1> HIDE DEF G
<1>3. \A S \in SUBSET R : S \in G
  BY <1>1, <1>2, SubsetInduction
<1> QED BY <1>3 DEF G

\* The sum over two sets that share no element.
LEMMA SumUnion ==
  ASSUME NEW f, NEW A, NEW B, IsFiniteSet(A), IsFiniteSet(B), A \cap B = {},
         \A x \in A \cup B : f[x] \in Int
  PROVE  SumFunctionOnSet(f, A \cup B) = SumFunctionOnSet(f, A) + SumFunctionOnSet(f, B)
<1> DEFINE Sum(S) == SumFunctionOnSet(f, S)
           G == {S \in SUBSET A : Sum(S \cup B) = Sum(S) + Sum(B)}
<1>0. \A S \in SUBSET A : /\ IsFiniteSet(S) /\ IsFiniteSet(S \cup B)
                          /\ Sum(S) \in Int /\ Sum(S \cup B) \in Int /\ Sum(B) \in Int
  <2> SUFFICES ASSUME NEW S \in SUBSET A
               PROVE  /\ IsFiniteSet(S) /\ IsFiniteSet(S \cup B)
                      /\ Sum(S) \in Int /\ Sum(S \cup B) \in Int /\ Sum(B) \in Int
    OBVIOUS
  <2>1. IsFiniteSet(S) /\ IsFiniteSet(S \cup B)
    BY FS_Subset, FS_Union
  <2> QED BY <2>1, SumType
<1>1. {} \in G
  <2>1. {} \cup B = B
    OBVIOUS
  <2>2. Sum({}) = 0
    BY SumEmpty
  <2> HIDE DEF Sum
  <2> QED BY <1>0, <2>1, <2>2
<1>2. ASSUME NEW S \in SUBSET A, S # {}, \A x \in S : S \ {x} \in G
      PROVE  S \in G
  <2>1. PICK x : x \in S
    BY <1>2
  <2>2. Sum(S) = f[x] + Sum(S \ {x})
    BY <1>0, <2>1, SumRemove
  <2>3. Sum(S \cup B) = f[x] + Sum((S \cup B) \ {x})
    <3>1. IsFiniteSet(S \cup B)
      BY <1>0
    <3>2. x \in S \cup B
      BY <2>1
    <3>3. \A y \in S \cup B : f[y] \in Int
      OBVIOUS
    <3> QED BY <3>1, <3>2, <3>3, SumRemove
  <2>4. (S \cup B) \ {x} = (S \ {x}) \cup B
    BY <2>1
  <2>5. Sum((S \ {x}) \cup B) = Sum(S \ {x}) + Sum(B)
    BY <1>2, <2>1
  <2>6. /\ f[x] \in Int /\ Sum(S \ {x}) \in Int /\ Sum(B) \in Int
        /\ S \ {x} \in SUBSET A
    BY <1>0, <2>1
  <2> HIDE DEF Sum
  <2>7. Sum(S \cup B) = f[x] + (Sum(S \ {x}) + Sum(B))
    BY <2>3, <2>4, <2>5
  <2>8. Sum(S \cup B) = Sum(S) + Sum(B)
    BY <2>2, <2>6, <2>7
  <2> QED BY <2>8
<1> HIDE DEF G
<1>3. \A S \in SUBSET A : S \in G
  BY <1>1, <1>2, SubsetInduction
<1> QED BY <1>3 DEF G

\* The sum over a set that is divided into parts is the sum of theirs.
LEMMA SumPartition ==
  ASSUME NEW f, NEW K, NEW part, NEW h, IsFiniteSet(K),
         \A k \in K : /\ IsFiniteSet(part[k])
                      /\ \A x \in part[k] : f[x] \in Int
                      /\ h[k] = SumFunctionOnSet(f, part[k]),
         \A k, l \in K : k # l => part[k] \cap part[l] = {}
  PROVE  SumFunctionOnSet(h, K) = SumFunctionOnSet(f, UNION {part[k] : k \in K})
<1> DEFINE All(L) == UNION {part[k] : k \in L}
           G == {L \in SUBSET K : /\ IsFiniteSet(All(L))
                                  /\ SumFunctionOnSet(h, L) = SumFunctionOnSet(f, All(L))}
<1>1. {} \in G
  <2>1. All({}) = {}
    OBVIOUS
  <2> HIDE DEF All
  <2> QED BY <2>1, SumEmpty, FS_EmptySet
<1>2. ASSUME NEW L \in SUBSET K, L # {}, \A k \in L : L \ {k} \in G
      PROVE  L \in G
  <2>1. PICK k : k \in L
    BY <1>2
  <2> DEFINE rest == All(L \ {k})
  <2>2. IsFiniteSet(rest) /\ SumFunctionOnSet(h, L \ {k}) = SumFunctionOnSet(f, rest)
    BY <1>2, <2>1
  <2>3. All(L) = part[k] \cup rest
    BY <2>1
  <2>4. part[k] \cap rest = {}
    BY <2>1
  <2>5. \A x \in part[k] \cup rest : f[x] \in Int
    BY <2>1
  <2>6. IsFiniteSet(part[k]) /\ h[k] = SumFunctionOnSet(f, part[k])
    BY <2>1
  <2>7. \A l \in L : h[l] \in Int
    BY SumType
  <2>8. IsFiniteSet(L)
    BY FS_Subset
  <2> HIDE DEF rest
  <2>9. IsFiniteSet(part[k] \cup rest)
    BY <2>2, <2>6, FS_Union
  <2>10. SumFunctionOnSet(f, part[k] \cup rest) = h[k] + SumFunctionOnSet(f, rest)
    BY <2>2, <2>4, <2>5, <2>6, SumUnion
  <2>11. SumFunctionOnSet(h, L) = h[k] + SumFunctionOnSet(h, L \ {k})
    BY <2>1, <2>7, <2>8, SumRemove
  <2>12. IsFiniteSet(All(L)) /\ SumFunctionOnSet(h, L) = SumFunctionOnSet(f, All(L))
    BY <2>2, <2>3, <2>9, <2>10, <2>11
  <2> QED BY <2>12
<1> HIDE DEF G
<1>3. \A L \in SUBSET K : L \in G
  BY <1>1, <1>2, SubsetInduction
<1> QED BY <1>3 DEF G
=============================================================================
