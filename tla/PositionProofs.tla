--------------------------- MODULE PositionProofs ---------------------------
(***************************************************************************)
(* Position's invariants, for any sets of requests, items and inputs, and  *)
(* that where the parent lock blocks updates Position implements Ledger.   *)
(*                                                                         *)
(* The type invariant, the locking discipline and the agreement of the     *)
(* stock in hand with the transactions follow from the inductive IInv.     *)
(* LInv, its extension by where what requests write comes from, gives the  *)
(* rest: whatever races, a stock in hand is the sum of recorded            *)
(* transactions; where nobody raced, the average rate is the one a rebuild *)
(* computes; and every step is one of Ledger's or none.                    *)
(*                                                                         *)
(* They rest on lemmas about Holding: a finite set of rows with distinct   *)
(* ids has a latest row, Replay unfolds along it, and the stock a replay   *)
(* arrives at moves by the signed quantity of a row added or taken away,   *)
(* wherever in the order of dates the row stands.  Equality of rates is an *)
(* equivalence that transactions respect, infinite and undefined rates     *)
(* included.                                                               *)
(***************************************************************************)
EXTENDS Position, SumProofs

\* Rows of watchlist_transaction: finitely many, told apart by their ids.
IsLedger(R) ==
    /\ IsFiniteSet(R)
    /\ \A r \in R : /\ r.id \in Nat /\ r.date \in Int
                    /\ r.qty \in Int /\ r.rate \in Int /\ r.brokerage \in Int
    /\ \A r, t \in R : r.id = t.id => r = t

-----------------------------------------------------------------------------
(* The latest row *)

\* A ledger stays one without some of its rows.
LEMMA SubLedger ==
  ASSUME NEW R, IsLedger(R), NEW S \in SUBSET R
  PROVE  IsLedger(S)
BY FS_Subset DEF IsLedger

\* Two rows of a ledger are always in order.
LEMMA BeforeTotal ==
  ASSUME NEW R, IsLedger(R), NEW r \in R, NEW t \in R, r # t
  PROVE  /\ Before(r, t) \/ Before(t, r)
         /\ ~(Before(r, t) /\ Before(t, r))
BY DEF IsLedger, Before

\* The order of dates and ids is transitive.
LEMMA BeforeTransitive ==
  ASSUME NEW R, IsLedger(R), NEW r \in R, NEW t \in R, NEW u \in R,
         Before(r, t), Before(t, u)
  PROVE  Before(r, u)
BY DEF IsLedger, Before

\* Every ledger that is not empty has a latest row.
LEMMA LatestExists ==
  ASSUME NEW R, IsLedger(R), R # {}
  PROVE  \E t \in R : IsLatest(t, R)
<1> DEFINE T == {n \in Nat : \A S : IsLedger(S) /\ S # {} /\ Cardinality(S) = n
                                => \E t \in S : IsLatest(t, S)}
<1>1. 0 \in T
  BY FS_EmptySet DEF IsLedger
<1>2. ASSUME NEW n \in Nat, n \in T PROVE n + 1 \in T
  <2> SUFFICES ASSUME NEW S, IsLedger(S), S # {}, Cardinality(S) = n + 1
               PROVE  \E t \in S : IsLatest(t, S)
    OBVIOUS
  <2>1. PICK x \in S : TRUE
    OBVIOUS
  <2> DEFINE Q == S \ {x}
  <2>2. IsLedger(Q) /\ Cardinality(Q) = n
    <3>1. IsLedger(Q)
      BY SubLedger
    <3>2. IsFiniteSet(S)
      BY DEF IsLedger
    <3>3. Cardinality(Q) = Cardinality(S) - 1
      BY <2>1, <3>2, FS_RemoveElement
    <3> QED BY <3>1, <3>3
  <2>3. CASE Q = {}
    BY <2>1, <2>3 DEF IsLatest
  <2>4. CASE Q # {}
    <3>1. PICK y \in Q : IsLatest(y, Q)
      BY <1>2, <2>2, <2>4
    <3>2. CASE Before(x, y)
      <4>1. IsLatest(y, S)
        BY <2>1, <3>1, <3>2 DEF IsLatest
      <4> QED BY <4>1
    <3>3. CASE Before(y, x)
      <4>1. \A r \in Q : Before(r, x)
        BY <2>1, <3>1, <3>3, BeforeTransitive DEF IsLatest
      <4> QED BY <2>1, <4>1 DEF IsLatest
    <3> QED BY <2>1, <3>1, <3>2, <3>3, BeforeTotal
  <2> QED BY <2>3, <2>4
<1> HIDE DEF T
<1>3. Nat \subseteq T
  BY <1>1, <1>2, SetInduction
<1>4. Cardinality(R) \in T
  BY <1>3, FS_CardinalityType DEF IsLedger
<1> QED BY <1>4 DEF T

\* Latest picks that row, and no other row is latest.
LEMMA LatestIsLatest ==
  ASSUME NEW R, IsLedger(R), R # {}
  PROVE  /\ Latest(R) \in R
         /\ IsLatest(Latest(R), R)
BY LatestExists DEF Latest

\* There is one latest row.
LEMMA LatestUnique ==
  ASSUME NEW R, IsLedger(R), NEW t, IsLatest(t, R)
  PROVE  Latest(R) = t
<1>1. t \in R /\ R # {}
  BY DEF IsLatest
<1>2. Latest(R) \in R /\ IsLatest(Latest(R), R)
  BY <1>1, LatestIsLatest
<1> QED BY <1>1, <1>2, BeforeTotal DEF IsLatest

-----------------------------------------------------------------------------
(* Replay unfolds *)

\* One step of the recursion in Replay, given its values on smaller sets.
ReplayStep(f, S) ==
    IF S = {} THEN NoStock ELSE Apply(f[S \ {Latest(S)}], Latest(S))

IsReplay(f, D) == f = [S \in D |-> ReplayStep(f, S)]

UpTo(R, n) == {S \in SUBSET R : Cardinality(S) <= n}

\* The recursion has a solution on the subsets of a ledger: one on the subsets
\* of at most n rows extends to those of n + 1.
LEMMA ReplayExists ==
  ASSUME NEW R, IsLedger(R)
  PROVE  \E f : IsReplay(f, SUBSET R)
<1> DEFINE T == {n \in Nat : \E f : IsReplay(f, UpTo(R, n))}
<1>0. \A S \in SUBSET R : IsFiniteSet(S) /\ Cardinality(S) \in Nat
  BY FS_Subset, FS_CardinalityType DEF IsLedger
<1>1. 0 \in T
  <2> DEFINE f == [S \in UpTo(R, 0) |-> NoStock]
  <2>1. \A S \in UpTo(R, 0) : S = {}
    BY <1>0, FS_EmptySet DEF UpTo
  <2>2. IsReplay(f, UpTo(R, 0))
    BY <2>1 DEF IsReplay, ReplayStep
  <2> HIDE DEF f
  <2> QED BY <2>2
<1>2. ASSUME NEW n \in Nat, n \in T PROVE n + 1 \in T
  <2>1. PICK g : IsReplay(g, UpTo(R, n))
    BY <1>2
  <2> DEFINE f == [S \in UpTo(R, n + 1) |-> ReplayStep(g, S)]
  <2>2. \A S \in UpTo(R, n) : f[S] = g[S]
    <3>1. UpTo(R, n) \subseteq UpTo(R, n + 1)
      BY <1>0 DEF UpTo
    <3>2. \A S \in UpTo(R, n) : g[S] = ReplayStep(g, S)
      BY <2>1 DEF IsReplay
    <3> QED BY <3>1, <3>2
  <2>3. \A S \in UpTo(R, n + 1) : S # {} => S \ {Latest(S)} \in UpTo(R, n)
    <3> SUFFICES ASSUME NEW S \in UpTo(R, n + 1), S # {}
                 PROVE  S \ {Latest(S)} \in UpTo(R, n)
      OBVIOUS
    <3>1. S \in SUBSET R /\ Cardinality(S) <= n + 1 /\ IsFiniteSet(S)
          /\ Cardinality(S) \in Nat
      BY <1>0 DEF UpTo
    <3>2. Latest(S) \in S
      BY <3>1, SubLedger, LatestIsLatest
    <3>3. Cardinality(S \ {Latest(S)}) = Cardinality(S) - 1
      BY <3>1, <3>2, FS_RemoveElement
    <3> QED BY <3>1, <3>3 DEF UpTo
  <2>4. \A S \in UpTo(R, n + 1) : ReplayStep(f, S) = ReplayStep(g, S)
    <3> SUFFICES ASSUME NEW S \in UpTo(R, n + 1)
                 PROVE  ReplayStep(f, S) = ReplayStep(g, S)
      OBVIOUS
    <3> HIDE DEF f
    <3>1. S # {} => f[S \ {Latest(S)}] = g[S \ {Latest(S)}]
      BY <2>2, <2>3
    <3> QED BY <3>1 DEF ReplayStep
  <2>5. IsReplay(f, UpTo(R, n + 1))
    BY <2>4 DEF IsReplay
  <2> HIDE DEF f
  <2> QED BY <2>5
<1> HIDE DEF T
<1>3. Nat \subseteq T
  BY <1>1, <1>2, SetInduction
<1>4. Cardinality(R) \in T
  BY <1>0, <1>3
<1>5. UpTo(R, Cardinality(R)) = SUBSET R
  BY FS_Subset DEF UpTo, IsLedger
<1> QED BY <1>4, <1>5 DEF T

\* The function Replay evaluates.
ReplayFunction(R) == CHOOSE f : IsReplay(f, SUBSET R)

\* Replay is the value of the recursive function at the whole ledger.
LEMMA ReplayIsFunction ==
  ASSUME NEW R
  PROVE  Replay(R) = ReplayFunction(R)[R]
BY DEF Replay, ReplayFunction, IsReplay, ReplayStep

\* That function satisfies its recursion on every part of the ledger.
LEMMA ReplayFunctionSteps ==
  ASSUME NEW R, IsLedger(R), NEW S \in SUBSET R
  PROVE  ReplayFunction(R)[S] = ReplayStep(ReplayFunction(R), S)
<1>1. IsReplay(ReplayFunction(R), SUBSET R)
  BY ReplayExists DEF ReplayFunction
<1> QED BY <1>1 DEF IsReplay

\* The functions of two ledgers agree on the sets of rows they share.
LEMMA ReplayFunctionsAgree ==
  ASSUME NEW R, IsLedger(R), NEW Q \in SUBSET R
  PROVE  \A S \in SUBSET Q : ReplayFunction(R)[S] = ReplayFunction(Q)[S]
<1> DEFINE f == ReplayFunction(R)
           g == ReplayFunction(Q)
           T == {n \in Nat : \A S \in SUBSET Q : Cardinality(S) = n => f[S] = g[S]}
<1>0. /\ IsLedger(Q)
      /\ \A S \in SUBSET Q : IsLedger(S) /\ IsFiniteSet(S) /\ Cardinality(S) \in Nat
  BY SubLedger, FS_CardinalityType DEF IsLedger
<1>1. /\ \A S \in SUBSET Q : f[S] = ReplayStep(f, S)
      /\ \A S \in SUBSET Q : g[S] = ReplayStep(g, S)
  BY <1>0, ReplayFunctionSteps
<1> HIDE DEF f, g
<1>2. 0 \in T
  BY <1>0, <1>1, FS_EmptySet DEF ReplayStep
<1>3. ASSUME NEW n \in Nat, n \in T PROVE n + 1 \in T
  <2> SUFFICES ASSUME NEW S \in SUBSET Q, Cardinality(S) = n + 1
               PROVE  f[S] = g[S]
    OBVIOUS
  <2> DEFINE P == S \ {Latest(S)}
  <2>1. S # {}
    BY FS_EmptySet
  <2>2. Latest(S) \in S
    BY <1>0, <2>1, LatestIsLatest
  <2>3. P \in SUBSET Q /\ Cardinality(P) = n
    <3>1. Cardinality(P) = Cardinality(S) - 1
      BY <1>0, <2>2, FS_RemoveElement
    <3> QED BY <3>1
  <2>4. f[P] = g[P]
    BY <1>3, <2>3
  <2> QED BY <1>1, <2>1, <2>4 DEF ReplayStep
<1> HIDE DEF T
<1>4. Nat \subseteq T
  BY <1>2, <1>3, SetInduction
<1>5. \A S \in SUBSET Q : f[S] = g[S]
  BY <1>0, <1>4 DEF T
<1> QED BY <1>5 DEF f, g

\* What rebuildWatchlistItem's loop computes: nothing from no rows, and the
\* latest row applied to what the others give.
LEMMA ReplayEmpty ==
  Replay({}) = NoStock
<1>1. IsLedger({})
  BY FS_EmptySet DEF IsLedger
<1> QED BY <1>1, ReplayIsFunction, ReplayFunctionSteps DEF ReplayStep

\* Replay applies the latest row to the replay of the others.
LEMMA ReplayUnfolds ==
  ASSUME NEW R, IsLedger(R), R # {}
  PROVE  Replay(R) = Apply(Replay(R \ {Latest(R)}), Latest(R))
<1> DEFINE Q == R \ {Latest(R)}
<1>1. Replay(R) = Apply(ReplayFunction(R)[Q], Latest(R))
  BY ReplayIsFunction, ReplayFunctionSteps DEF ReplayStep
<1>2. ReplayFunction(R)[Q] = ReplayFunction(Q)[Q]
  BY ReplayFunctionsAgree
<1> QED BY <1>1, <1>2, ReplayIsFunction

-----------------------------------------------------------------------------
(* What a replay arrives at *)

IsRow(r) == r.qty \in Int /\ r.rate \in Int /\ r.brokerage \in Int

\* A transaction applied to a holding gives a holding, infinite and undefined
\* rates included.
LEMMA ApplyType ==
  ASSUME NEW h \in Holdings, NEW o, IsRow(o)
  PROVE  /\ Apply(h, o) \in Holdings
         /\ Apply(h, o).sih = h.sih + Signed(o)
<1> USE DEF IsRow
<1>1. /\ h = [sih |-> h.sih, avg |-> h.avg]
      /\ h.sih \in Int /\ h.avg \in Rates
  BY DEF Holdings
<1>2. h.avg[1] \in Int /\ h.avg[2] \in Nat
  BY <1>1 DEF Rates
<1>3. ASSUME NEW x \in Int, NEW d \in Nat, NEW q \in Int
      PROVE  Divide(<<x, d>>, q) \in Rates
  <2>1. q < 0 => d * (-q) \in Nat
    OBVIOUS
  <2>2. q >= 0 => d * q \in Nat
    OBVIOUS
  <2> QED BY <2>1, <2>2 DEF Divide, Rates
<1>4. Divide(Turnover(h, o), h.sih + o.qty) \in Rates
  <2>1. h.sih * h.avg[1] + Cost(o) * h.avg[2] \in Int
    BY <1>1, <1>2 DEF Cost
  <2> QED BY <1>1, <1>2, <1>3, <2>1 DEF Turnover
<1>5. CASE o.kind = "buy"
  BY <1>1, <1>4, <1>5 DEF Apply, Buy, Signed, Holdings
<1>6. CASE o.kind # "buy"
  BY <1>1, <1>6 DEF Apply, Sell, Signed, Holdings, ZeroRate, Rates
<1> QED BY <1>5, <1>6

\* What is replayed is a holding.
LEMMA ReplayType ==
  ASSUME NEW R, IsLedger(R)
  PROVE  Replay(R) \in Holdings
<1> DEFINE T == {n \in Nat : \A S \in SUBSET R : Cardinality(S) = n
                                => Replay(S) \in Holdings}
<1>0. \A S \in SUBSET R : IsLedger(S) /\ IsFiniteSet(S) /\ Cardinality(S) \in Nat
  BY SubLedger, FS_CardinalityType DEF IsLedger
<1>1. NoStock \in Holdings
  BY DEF NoStock, Holdings, ZeroRate, Rates
<1>2. 0 \in T
  BY <1>0, <1>1, FS_EmptySet, ReplayEmpty
<1>3. ASSUME NEW n \in Nat, n \in T PROVE n + 1 \in T
  <2> SUFFICES ASSUME NEW S \in SUBSET R, Cardinality(S) = n + 1
               PROVE  Replay(S) \in Holdings
    OBVIOUS
  <2> DEFINE P == S \ {Latest(S)}
  <2>1. S # {}
    BY FS_EmptySet
  <2>2. Latest(S) \in S
    BY <1>0, <2>1, LatestIsLatest
  <2>3. Cardinality(P) = n
    <3>1. Cardinality(P) = Cardinality(S) - 1
      BY <1>0, <2>2, FS_RemoveElement
    <3> QED BY <3>1
  <2>4. Replay(P) \in Holdings
    BY <1>3, <2>3
  <2>5. IsRow(Latest(S))
    BY <2>2 DEF IsRow, IsLedger
  <2> QED BY <1>0, <2>1, <2>4, <2>5, ReplayUnfolds, ApplyType
<1> HIDE DEF T
<1>4. Nat \subseteq T
  BY <1>2, <1>3, SetInduction
<1>5. R \in SUBSET R /\ Cardinality(R) \in T
  BY <1>0, <1>4
<1> QED BY <1>5 DEF T

\* A row counts for its signed quantity wherever it stands in the order.
LEMMA ReplayAdds ==
  ASSUME NEW R, IsLedger(R), NEW t \in R
  PROVE  Replay(R).sih = Replay(R \ {t}).sih + Signed(t)
<1> DEFINE T == {n \in Nat : \A S \in SUBSET R : Cardinality(S) = n =>
                   \A r \in S : Replay(S).sih = Replay(S \ {r}).sih + Signed(r)}
<1>0. \A S \in SUBSET R : /\ IsLedger(S) /\ IsFiniteSet(S)
                          /\ Cardinality(S) \in Nat
                          /\ Replay(S).sih \in Int
  BY SubLedger, FS_CardinalityType, ReplayType DEF IsLedger, Holdings
<1>1. \A r \in R : IsRow(r) /\ Signed(r) \in Int
  BY DEF IsLedger, IsRow, Signed
<1>2. 0 \in T
  BY <1>0, FS_EmptySet
<1>3. ASSUME NEW n \in Nat, n \in T PROVE n + 1 \in T
  <2> SUFFICES ASSUME NEW S \in SUBSET R, Cardinality(S) = n + 1, NEW r \in S
               PROVE  Replay(S).sih = Replay(S \ {r}).sih + Signed(r)
    OBVIOUS
  <2> DEFINE m == Latest(S)
             P == S \ {m}
             Q == S \ {r}
  <2>1. m \in S /\ IsLatest(m, S)
    BY <1>0, LatestIsLatest
  <2>2. Replay(S).sih = Replay(P).sih + Signed(m)
    <3>1. Replay(P) \in Holdings /\ IsRow(m)
      BY <1>0, <1>1, <2>1, ReplayType
    <3> QED BY <1>0, <3>1, ReplayUnfolds, ApplyType
  <2> HIDE DEF m
  <2>3. CASE r = m
    BY <2>2, <2>3
  <2>4. CASE r # m
    <3>1. IsLedger(Q) /\ Q # {} /\ m \in Q /\ Latest(Q) = m
      <4>1. m \in Q /\ IsLatest(m, Q)
        BY <2>1, <2>4 DEF IsLatest
      <4> QED BY <1>0, <4>1, LatestUnique
    <3>2. Replay(Q).sih = Replay(Q \ {m}).sih + Signed(m)
      <4>1. Replay(Q \ {m}) \in Holdings /\ IsRow(m)
        BY <1>0, <1>1, <2>1, ReplayType
      <4> QED BY <3>1, <4>1, ReplayUnfolds, ApplyType
    <3>3. Replay(P).sih = Replay(P \ {r}).sih + Signed(r)
      <4>1. Cardinality(P) = Cardinality(S) - 1
        BY <1>0, <2>1, FS_RemoveElement
      <4>2. Cardinality(P) = n /\ P \in SUBSET R /\ r \in P
        BY <2>4, <4>1
      <4> QED BY <1>3, <4>2
    <3>4. P \ {r} = Q \ {m}
      OBVIOUS
    <3>5. Replay(P \ {r}).sih \in Int /\ Signed(r) \in Int /\ Signed(m) \in Int
      BY <1>0, <1>1, <2>1
    <3>6. Replay(Q).sih = Replay(P \ {r}).sih + Signed(m)
      BY <3>2, <3>4
    <3>7. Replay(S).sih = Replay(P \ {r}).sih + Signed(r) + Signed(m)
      BY <2>2, <3>3
    <3> HIDE DEF P, Q
    <3>8. Replay(S).sih = Replay(Q).sih + Signed(r)
      BY <3>5, <3>6, <3>7
    <3> QED BY <3>8 DEF Q
  <2> QED BY <2>3, <2>4
<1> HIDE DEF T
<1>4. Nat \subseteq T
  BY <1>2, <1>3, SetInduction
<1>5. R \in SUBSET R /\ Cardinality(R) \in T
  BY <1>0, <1>4
<1> QED BY <1>5 DEF T

-----------------------------------------------------------------------------
(* Rates *)

\* Multiplication in a chain of equations may be regrouped.
LEMMA Regroup ==
  ASSUME NEW a \in Int, NEW b \in Int, NEW c \in Int
  PROVE  /\ (a * b) * c = a * (b * c)
         /\ a * b = b * a
         /\ (a + b) * c = a * c + b * c
         /\ a * b \in Int
OBVIOUS

\* A factor that is not zero cancels.
LEMMA Cancel ==
  ASSUME NEW a \in Int, NEW b \in Int, NEW c \in Int, c # 0, a * c = b * c
  PROVE  a = b
OBVIOUS

\* The sign of a product depends on the signs of its factors only.
LEMMA SignTimes ==
  ASSUME NEW a \in Int, NEW b \in Int
  PROVE  /\ Sign(a * b) = Sign(a) * Sign(b)
         /\ Sign(-a) = -Sign(a)
         /\ Sign(a) \in {-1, 0, 1}
<1>1. CASE a = 0 \/ b = 0
  BY <1>1 DEF Sign
<1>2. CASE a > 0 /\ b > 0
  BY <1>2 DEF Sign
<1>3. CASE a > 0 /\ b < 0
  BY <1>3 DEF Sign
<1>4. CASE a < 0 /\ b > 0
  BY <1>4 DEF Sign
<1>5. CASE a < 0 /\ b < 0
  BY <1>5 DEF Sign
<1> QED BY <1>1, <1>2, <1>3, <1>4, <1>5

\* Float.equals is an equivalence of rates, special values included.
LEMMA SameRateEquivalence ==
  ASSUME NEW x \in Rates, NEW y \in Rates, NEW z \in Rates
  PROVE  /\ SameRate(x, x)
         /\ SameRate(x, y) => SameRate(y, x)
         /\ SameRate(x, y) /\ SameRate(y, z) => SameRate(x, z)
<1>0. /\ x[1] \in Int /\ x[2] \in Nat
      /\ y[1] \in Int /\ y[2] \in Nat
      /\ z[1] \in Int /\ z[2] \in Nat
  BY DEF Rates
<1>1. SameRate(x, x)
  BY <1>0 DEF SameRate
<1>2. SameRate(x, y) => SameRate(y, x)
  BY <1>0 DEF SameRate
<1>3. ASSUME SameRate(x, y), SameRate(y, z)
      PROVE  SameRate(x, z)
  <2>1. CASE x[2] = 0 \/ y[2] = 0 \/ z[2] = 0
    BY <1>3, <2>1 DEF SameRate
  <2>2. CASE x[2] # 0 /\ y[2] # 0 /\ z[2] # 0
    <3>1. x[1] * y[2] = y[1] * x[2] /\ y[1] * z[2] = z[1] * y[2]
      BY <1>3, <2>2 DEF SameRate
    <3>2. (x[1] * z[2]) * y[2] = (z[1] * x[2]) * y[2]
      <4>1. (x[1] * z[2]) * y[2] = (x[1] * y[2]) * z[2]
        BY <1>0, Regroup
      <4>2. (y[1] * x[2]) * z[2] = (y[1] * z[2]) * x[2]
        BY <1>0, Regroup
      <4>3. (z[1] * y[2]) * x[2] = (z[1] * x[2]) * y[2]
        BY <1>0, Regroup
      <4> QED BY <3>1, <4>1, <4>2, <4>3
    <3>3. x[1] * z[2] \in Int /\ z[1] * x[2] \in Int /\ y[2] \in Int
      BY <1>0
    <3>4. x[1] * z[2] = z[1] * x[2]
      BY <2>2, <3>2, <3>3, Cancel, Zenon
    <3> QED BY <2>2, <3>4 DEF SameRate
  <2> QED BY <2>1, <2>2
<1> QED BY <1>1, <1>2, <1>3

\* Division by the same number keeps equal rates equal: also by zero, where
\* only the sign of the numerator is left.
LEMMA DivideSame ==
  ASSUME NEW x \in Rates, NEW y \in Rates, NEW q \in Int, SameRate(x, y)
  PROVE  SameRate(Divide(x, q), Divide(y, q))
<1>0. /\ x[1] \in Int /\ x[2] \in Nat
      /\ y[1] \in Int /\ y[2] \in Nat
  BY DEF Rates
<1>1. CASE x[2] = 0 \/ y[2] = 0
  <2>1. x[2] = 0 /\ y[2] = 0 /\ Sign(x[1]) = Sign(y[1])
    BY <1>1 DEF SameRate
  <2>2. Sign(-x[1]) = Sign(-y[1])
    BY <1>0, <2>1, SignTimes
  <2> QED BY <1>0, <2>1, <2>2 DEF SameRate, Divide
<1>2. CASE x[2] # 0 /\ y[2] # 0
  <2>1. x[1] * y[2] = y[1] * x[2]
    BY <1>2 DEF SameRate
  <2>2. CASE q = 0
    <3>1. Sign(x[1]) * Sign(y[2]) = Sign(y[1]) * Sign(x[2])
      <4>1. x[1] \in Int /\ y[1] \in Int /\ x[2] \in Int /\ y[2] \in Int
        BY <1>0
      <4>2. Sign(x[1] * y[2]) = Sign(x[1]) * Sign(y[2])
        BY <4>1, SignTimes, Zenon
      <4>3. Sign(y[1] * x[2]) = Sign(y[1]) * Sign(x[2])
        BY <4>1, SignTimes, Zenon
      <4> QED BY <2>1, <4>2, <4>3, Zenon
    <3>2. Sign(x[2]) = 1 /\ Sign(y[2]) = 1
      BY <1>0, <1>2 DEF Sign
    <3>3. Sign(x[1]) = Sign(y[1])
      <4>1. Sign(x[1]) \in Int /\ Sign(y[1]) \in Int
        BY DEF Sign
      <4> QED BY <3>1, <3>2, <4>1
    <3> QED BY <1>0, <2>2, <3>3 DEF SameRate, Divide
  <2>3. CASE q # 0
    <3>1. ASSUME NEW p \in Int, p # 0
          PROVE  /\ x[1] * (y[2] * p) = y[1] * (x[2] * p)
                 /\ x[2] * p # 0 /\ y[2] * p # 0
                 /\ (-x[1]) * (y[2] * p) = (-y[1]) * (x[2] * p)
      <4>1. x[1] * (y[2] * p) = y[1] * (x[2] * p)
        <5>1. (x[1] * y[2]) * p = x[1] * (y[2] * p)
          BY <1>0, Regroup
        <5>2. (y[1] * x[2]) * p = y[1] * (x[2] * p)
          BY <1>0, Regroup
        <5> QED BY <2>1, <5>1, <5>2
      <4>2. x[2] * p # 0 /\ y[2] * p # 0
        BY <1>0, <1>2, <3>1
      <4>3. (-x[1]) * (y[2] * p) = -(x[1] * (y[2] * p)) /\ (-y[1]) * (x[2] * p) = -(y[1] * (x[2] * p))
        BY <1>0, <3>1
      <4> QED BY <4>1, <4>2, <4>3
    <3>2. CASE q < 0
      BY <1>0, <2>3, <3>1, <3>2 DEF SameRate, Divide
    <3>3. CASE ~(q < 0)
      BY <1>0, <2>3, <3>1, <3>3 DEF SameRate, Divide
    <3> QED BY <3>2, <3>3
  <2> QED BY <2>2, <2>3
<1> QED BY <1>1, <1>2

\* So does a purchase's turnover.
LEMMA TurnoverSame ==
  ASSUME NEW g \in Holdings, NEW h \in Holdings, NEW o, IsRow(o), SameHolding(g, h)
  PROVE  /\ Turnover(g, o) \in Rates /\ Turnover(h, o) \in Rates
         /\ SameRate(Turnover(g, o), Turnover(h, o))
<1> DEFINE c == Cost(o)
           s == g.sih
           a == g.avg[1]
           b == g.avg[2]
           x == h.avg[1]
           y == h.avg[2]
<1>0. /\ c \in Int /\ s \in Int /\ a \in Int /\ b \in Nat /\ x \in Int /\ y \in Nat
      /\ h.sih = s
  BY DEF IsRow, Cost, Holdings, Rates, SameHolding
<1>1. Turnover(g, o) = <<s * a + c * b, b>> /\ Turnover(h, o) = <<s * x + c * y, y>>
  BY <1>0 DEF Turnover
<1>2. SameRate(<<a, b>>, <<x, y>>)
  BY <1>0 DEF SameHolding, SameRate
<1> HIDE DEF c, s, a, b, x, y
<1>3. s * a + c * b \in Int /\ s * x + c * y \in Int
  BY <1>0
<1>4. CASE b = 0 \/ y = 0
  <2>1. b = 0 /\ y = 0 /\ Sign(a) = Sign(x)
    BY <1>2, <1>4 DEF SameRate
  <2>2. Sign(s * a) = Sign(s * x)
    <3>1. Sign(s * a) = Sign(s) * Sign(a)
      BY <1>0, SignTimes, Zenon
    <3>2. Sign(s * x) = Sign(s) * Sign(x)
      BY <1>0, SignTimes, Zenon
    <3> QED BY <2>1, <3>1, <3>2, Zenon
  <2>3. s * a + c * b = s * a /\ s * x + c * y = s * x
    BY <1>0, <2>1
  <2>4. SameRate(<<s * a, 0>>, <<s * x, 0>>)
    BY <2>2 DEF SameRate
  <2> QED BY <1>0, <1>1, <1>3, <2>1, <2>3, <2>4 DEF Rates
<1>5. CASE b # 0 /\ y # 0
  <2>1. a * y = x * b
    BY <1>2, <1>5 DEF SameRate
  <2>2. (s * a + c * b) * y = s * (a * y) + c * (b * y)
    BY <1>0, Regroup
  <2>3. (s * x + c * y) * b = s * (x * b) + c * (y * b)
    BY <1>0, Regroup
  <2>4. (s * a + c * b) * y = (s * x + c * y) * b
    BY <1>0, <2>1, <2>2, <2>3, Regroup
  <2> QED BY <1>0, <1>1, <1>3, <1>5, <2>4 DEF Rates, SameRate
<1> QED BY <1>4, <1>5

\* A transaction applied to equal holdings gives equal holdings.
LEMMA ApplySame ==
  ASSUME NEW g \in Holdings, NEW h \in Holdings, NEW o, IsRow(o), SameHolding(g, h)
  PROVE  SameHolding(Apply(g, o), Apply(h, o))
<1>1. g.sih = h.sih /\ SameRate(g.avg, h.avg)
  BY DEF SameHolding
<1>2. CASE o.kind = "buy"
  <2>1. SameRate(Divide(Turnover(g, o), g.sih + o.qty), Divide(Turnover(h, o), h.sih + o.qty))
    <3>1. g.sih + o.qty \in Int
      BY DEF IsRow, Holdings
    <3> QED BY <1>1, <3>1, TurnoverSame, DivideSame
  <2> QED BY <1>1, <1>2, <2>1 DEF SameHolding, Apply, Buy
<1>3. CASE o.kind # "buy"
  <2>1. SameRate(ZeroRate, ZeroRate)
    BY DEF SameRate, ZeroRate
  <2> QED BY <1>1, <1>3, <2>1 DEF SameHolding, Apply, Sell
<1> QED BY <1>2, <1>3

-----------------------------------------------------------------------------
(* The invariant *)

Adding == {"found", "missing", "inserted", "computed"}
Removing == {"chosen", "replay", "replayed", "loaded"}

\* What a request at a given point has been given.
WellShaped(request) ==
    /\ request.pc \in Adding => request.order \in Inputs
    /\ request.pc \notin {"idle", "missing"} => request.item \in Items

Shaped == \A s \in Sessions : WellShaped(sess[s])

\* Transaction ids identify rows, those of uncommitted insertions included,
\* and the row a request deletes is one of the item it rebuilds.
Numbered ==
    /\ IsFiniteSet(trans)
    /\ \A r \in trans : r.id \in 1..(nextTrans - 1)
    /\ \A r, q \in trans : r.id = q.id => r = q
    /\ \A s \in Sessions :
         /\ sess[s].tid < nextTrans
         /\ sess[s].pc \in {"inserted", "computed"} =>
              /\ sess[s].tid >= 1
              /\ \A r \in trans : r.id # sess[s].tid
              /\ \A t \in Sessions :
                   /\ t # s /\ sess[t].pc \in {"inserted", "computed"}
                        => sess[t].tid # sess[s].tid
                   /\ sess[t].pc \in Removing => sess[t].tid # sess[s].tid
         /\ sess[s].pc \in Removing =>
              \A r \in trans : r.id = sess[s].tid => r.item = sess[s].item

\* A request about to remove an item excludes the others from its row.
Locked ==
    /\ \A s, t \in Sessions :
         /\ sess[s].pc = "claimed"
         /\ sess[t].pc \in {"claimed", "inserted", "computed"}
         /\ sess[s].item = sess[t].item
         => s = t
    /\ ParentsExist
    /\ AddsSeeCurrentRow

\* A request whose read is current knows what the database holds.
Informed ==
    \A s \in fresh :
        /\ sess[s].pc \in {"computed", "replayed", "loaded"}
        /\ sess[s].pc \in {"computed", "loaded"} =>
             item[sess[s].item] = ItemRow(sess[s].base)
        /\ sess[s].pc = "computed" =>
             sess[s].value = Apply(sess[s].base, sess[s].order)
        /\ sess[s].pc \in {"replayed", "loaded"} =>
             sess[s].value =
               Replay({r \in RowsOf(sess[s].item) : r.id # sess[s].tid})

IInv == TypeOK /\ Shaped /\ Numbered /\ Locked /\ Informed /\ SihMatchesLedger

-----------------------------------------------------------------------------
(* Types *)

\* The committed rows, and any of them, form a ledger that can be replayed.
LEMMA TransLedger ==
  ASSUME TypeOK, Numbered, NEW R \in SUBSET trans
  PROVE  IsLedger(R) /\ Replay(R) \in Holdings
<1>1. IsLedger(trans)
  BY DEF TypeOK, Numbered, TransRows, IsLedger
<1> QED BY <1>1, SubLedger, ReplayType

\* The row of an input is well-formed and counts like the input.
LEMMA TransRowType ==
  ASSUME NEW n \in Nat, NEW i \in Items \cup {NoItem}, NEW o \in Inputs
  PROVE  /\ TransRow(n, i, o) \in TransRows
         /\ IsRow(o)
         /\ Signed(TransRow(n, i, o)) = Signed(o)
BY PositionAssumption DEF TransRow, TransRows, Orders, IsRow, Signed

\* Before any request the watchlists are empty and everything agrees.
LEMMA InitInv ==
  Init => IInv
<1> SUFFICES ASSUME Init PROVE IInv
  OBVIOUS
<1> USE PositionAssumption DEF Init
<1>1. NoStock \in Holdings
  BY DEF NoStock, Holdings, ZeroRate, Rates
<1>2. \A s \in Sessions : sess[s] = Idle("none", 0)
  OBVIOUS
<1>3. Idle("none", 0) \in Requests
  BY <1>1 DEF Idle, Requests, Points
<1>4. TypeOK
  BY <1>1, <1>2, <1>3 DEF TypeOK, ItemRow, ItemRows
<1>5. Shaped /\ Numbered
  BY <1>2, FS_EmptySet DEF Shaped, WellShaped, Numbered, Idle, Adding, Removing
<1>6. Locked
  BY <1>2 DEF Locked, ParentsExist, AddsSeeCurrentRow, Idle
<1>7. Informed
  BY DEF Informed
<1>8. SihMatchesLedger
  BY ReplayEmpty DEF SihMatchesLedger, RowsOf, ItemRow, NoStock
<1> QED BY <1>4, <1>5, <1>6, <1>7, <1>8 DEF IInv

\* The record of an idle request is well-formed.
LEMMA IdleType ==
  ASSUME NEW o \in {"none", "added", "done", "error"}, NEW n \in Nat
  PROVE  Idle(o, n) \in Requests /\ WellShaped(Idle(o, n))
BY DEF Idle, Requests, WellShaped, Points, Adding, NoStock, Holdings, ZeroRate, Rates

\* The record of a request that starts is well-formed, given what its point
\* needs: an order while adding, an item except for a null one.
LEMMA StartType ==
  ASSUME NEW p \in Points, NEW i \in Items \cup {NoItem},
         NEW o \in Inputs \cup {NoItem}, NEW n \in Nat,
         p \in Adding => o \in Inputs,
         p \in {"idle", "missing"} \/ i \in Items
  PROVE  Start(p, i, o, n) \in Requests /\ WellShaped(Start(p, i, o, n))
<1>1. NoStock \in Holdings
  BY DEF NoStock, Holdings, ZeroRate, Rates
<1> QED BY <1>1 DEF Start, Requests, WellShaped

\* A step gives one request a new record.
LEMMA BecomesType ==
  ASSUME TypeOK, Shaped, NEW s \in Sessions, NEW request \in Requests,
         WellShaped(request), Becomes(s, request)
  PROVE  sess' \in [Sessions -> Requests] /\ Shaped'
BY DEF TypeOK, Shaped, Becomes


\* Each step keeps the types: first the steps that change no row, then those
\* that do.
LEMMA BeginType ==
  ASSUME IInv, NEW s \in Sessions, Begin(s)
  PROVE  TypeOK' /\ Shaped'
<1> USE PositionAssumption DEF IInv
<1>0. /\ "found" \in Points /\ "missing" \in Points /\ "chosen" \in Points
      /\ "replay" \in Points /\ "removing" \in Points
  BY DEF Points
<1>1. ASSUME NEW slot \in Slots, NEW o \in Inputs, LookUpItem(s, slot, o)
      PROVE  TypeOK' /\ Shaped'
  <2>1. sess' \in [Sessions -> Requests] /\ Shaped'
    <3>1. ASSUME NEW i \in Items, Becomes(s, Start("found", i, o, 0))
          PROVE  sess' \in [Sessions -> Requests] /\ Shaped'
      BY <1>0, <3>1, StartType, BecomesType
    <3>2. ASSUME Becomes(s, Start("missing", NoItem, o, 0))
          PROVE  sess' \in [Sessions -> Requests] /\ Shaped'
      BY <1>0, <3>2, StartType, BecomesType
    <3> QED BY <1>1, <3>1, <3>2 DEF LookUpItem, Matches
  <2> QED BY <1>1, <2>1 DEF LookUpItem, Unpublished, TypeOK
<1>2. ASSUME NEW n \in 1..MaxTrans, LookUpTrans(s, n)
      PROVE  TypeOK' /\ Shaped'
  <2>1. sess' \in [Sessions -> Requests] /\ Shaped'
    <3>1. ASSUME NEW i \in Items, Becomes(s, Start("chosen", i, NoItem, n))
          PROVE  sess' \in [Sessions -> Requests] /\ Shaped'
      <4>1. "chosen" \notin Adding /\ n \in Nat
        BY DEF Adding
      <4>2. Start("chosen", i, NoItem, n) \in Requests
            /\ WellShaped(Start("chosen", i, NoItem, n))
        BY <1>0, <4>1, StartType
      <4> QED BY <3>1, <4>2, BecomesType
    <3>2. ASSUME Becomes(s, Idle("error", 0))
          PROVE  sess' \in [Sessions -> Requests] /\ Shaped'
      BY <3>2, IdleType, BecomesType
    <3>3. \A q \in trans : q.item # NoItem => q.item \in Items
      BY DEF TypeOK, TransRows
    <3> QED BY <1>2, <3>1, <3>2, <3>3 DEF LookUpTrans, Finish
  <2> QED BY <1>2, <2>1 DEF LookUpTrans, Unpublished, TypeOK
<1>3. ASSUME NEW i \in Items, BeginRebuild(s, i)
      PROVE  TypeOK' /\ Shaped'
  <2>1. sess' \in [Sessions -> Requests] /\ Shaped'
    BY <1>0, <1>3, StartType, BecomesType DEF BeginRebuild, Adding
  <2> QED BY <1>3, <2>1 DEF BeginRebuild, Unpublished, TypeOK
<1>4. ASSUME NEW i \in Items, BeginDeleteItem(s, i)
      PROVE  TypeOK' /\ Shaped'
  <2>1. sess' \in [Sessions -> Requests] /\ Shaped'
    BY <1>0, <1>4, StartType, BecomesType DEF BeginDeleteItem, Adding
  <2> QED BY <1>4, <2>1 DEF BeginDeleteItem, Unpublished, TypeOK
<1> QED BY <1>1, <1>2, <1>3, <1>4 DEF Begin

\* The next statement of a request keeps the types, one step per statement.
LEMMA ContinueType ==
  ASSUME IInv, NEW s \in Sessions, Continue(s)
  PROVE  TypeOK' /\ Shaped'
<1> USE PositionAssumption DEF IInv
<1>0. /\ sess[s] \in Requests /\ WellShaped(sess[s])
      /\ sess[s].tid \in Nat /\ nextTrans \in Nat /\ nextTrans + 1 \in Nat \ {0}
      /\ \A i \in Items : item[i].held \in Holdings
      /\ fresh \cup {s} \subseteq Sessions /\ fresh \ {s} \subseteq Sessions
      /\ \A T : fresh \ T \subseteq Sessions
  BY DEF TypeOK, Shaped, Requests, ItemRows
<1>1. CASE InsertRow(s)
  <2>1. sess' \in [Sessions -> Requests] /\ Shaped'
    <3> DEFINE r == [sess[s] EXCEPT !.pc = "inserted", !.tid = nextTrans]
    <3>1. ASSUME Becomes(s, r)
          PROVE  sess' \in [Sessions -> Requests] /\ Shaped'
      <4>1. r \in Requests /\ WellShaped(r)
        BY <1>0, <1>1 DEF InsertRow, Ready, Requests, WellShaped, Adding, Points
      <4> HIDE DEF r
      <4> QED BY <3>1, <4>1, BecomesType
    <3>2. ASSUME Becomes(s, Idle("added", nextTrans))
          PROVE  sess' \in [Sessions -> Requests] /\ Shaped'
      BY <1>0, <3>2, IdleType, BecomesType
    <3> QED BY <1>1, <3>1, <3>2 DEF InsertRow
  <2> QED BY <1>0, <1>1, <2>1 DEF InsertRow, Unpublished, TypeOK
<1>2. CASE InsertOrphan(s)
  <2>1. sess' \in [Sessions -> Requests] /\ Shaped'
    BY <1>0, <1>2, IdleType, BecomesType DEF InsertOrphan
  <2>2. TransRow(nextTrans, NoItem, sess[s].order) \in TransRows
    BY <1>0, <1>2, TransRowType DEF InsertOrphan, WellShaped, Adding
  <2> QED BY <1>0, <1>2, <2>1, <2>2 DEF InsertOrphan, TypeOK
<1>3. CASE RefreshItem(s)
  <2> DEFINE h == item[sess[s].item].held
             r == [sess[s] EXCEPT !.pc = "computed", !.base = h,
                                  !.value = Apply(h, sess[s].order)]
  <2>1. sess[s].item \in Items /\ sess[s].order \in Inputs
    BY <1>0, <1>3 DEF RefreshItem, WellShaped, Adding
  <2>2. IsRow(sess[s].order)
    BY <2>1 DEF IsRow, Orders
  <2>3. h \in Holdings /\ Apply(h, sess[s].order) \in Holdings
    BY <1>0, <2>1, <2>2, ApplyType
  <2>4. r \in Requests /\ WellShaped(r)
    BY <1>0, <2>1, <2>3 DEF Requests, WellShaped, Points
  <2>5. Becomes(s, r)
    BY <1>3 DEF RefreshItem
  <2> HIDE DEF r
  <2>6. sess' \in [Sessions -> Requests] /\ Shaped'
    BY <2>4, <2>5, BecomesType
  <2> QED BY <1>0, <1>3, <2>6 DEF RefreshItem, ReadsNow, TypeOK
<1>4. CASE CommitAdd(s)
  <2>1. sess' \in [Sessions -> Requests] /\ Shaped'
    BY <1>0, <1>4, IdleType, BecomesType DEF CommitAdd
  <2>2. sess[s].item \in Items /\ sess[s].order \in Inputs
    BY <1>0, <1>4 DEF CommitAdd, Ready, WellShaped, Adding
  <2>3. TransRow(sess[s].tid, sess[s].item, sess[s].order) \in TransRows
    BY <1>0, <2>2, TransRowType
  <2>4. ItemRow(sess[s].value) \in ItemRows
    BY <1>0 DEF Requests, ItemRow, ItemRows
  <2>5. item' \in [Items -> ItemRows]
    BY <1>4, <2>2, <2>4 DEF CommitAdd, TypeOK
  <2> QED BY <1>0, <1>4, <2>1, <2>2, <2>3, <2>5 DEF CommitAdd, PublishesRow, Outdates, TypeOK
<1>5. CASE DeleteRow(s)
  <2> DEFINE n == IF \E r \in trans : r.id = sess[s].tid THEN sess[s].tid ELSE 0
             r == [sess[s] EXCEPT !.pc = "replay", !.tid = n]
  <2>1. n \in Nat
    BY <1>0
  <2>2. Becomes(s, r)
    BY <1>5 DEF DeleteRow
  <2>3. r \in Requests /\ WellShaped(r)
    <3> HIDE DEF n
    <3> QED BY <1>0, <1>5, <2>1 DEF DeleteRow, Ready, Requests, WellShaped, Adding, Points
  <2> HIDE DEF r
  <2>4. sess' \in [Sessions -> Requests] /\ Shaped'
    BY <2>2, <2>3, BecomesType
  <2> QED BY <1>5, <2>4 DEF DeleteRow, Unpublished, TypeOK
<1>6. CASE ReplayRows(s)
  <2> DEFINE rows == {q \in RowsOf(sess[s].item) : q.id # sess[s].tid}
             r == [sess[s] EXCEPT !.pc = "replayed", !.value = Replay(rows)]
  <2>1. Replay(rows) \in Holdings
    <3>1. rows \in SUBSET trans
      BY DEF RowsOf
    <3> HIDE DEF rows
    <3> QED BY <3>1, TransLedger
  <2>2. Becomes(s, r)
    BY <1>6 DEF ReplayRows
  <2>3. r \in Requests /\ WellShaped(r)
    <3> HIDE DEF rows
    <3> QED BY <1>0, <1>6, <2>1 DEF ReplayRows, Requests, WellShaped, Adding, Points
  <2> HIDE DEF r
  <2>4. sess' \in [Sessions -> Requests] /\ Shaped'
    BY <2>2, <2>3, BecomesType
  <2> QED BY <1>0, <1>6, <2>4 DEF ReplayRows, ReadsNow, TypeOK
<1>7. CASE LoadItem(s)
  <2>1. sess' \in [Sessions -> Requests] /\ Shaped'
    <3> DEFINE r == [sess[s] EXCEPT !.pc = "loaded", !.base = item[sess[s].item].held]
    <3>1. ASSUME Becomes(s, r)
          PROVE  sess' \in [Sessions -> Requests] /\ Shaped'
      <4>1. r \in Requests /\ WellShaped(r)
        BY <1>0, <1>7 DEF LoadItem, Requests, WellShaped, Adding, Points
      <4> HIDE DEF r
      <4> QED BY <3>1, <4>1, BecomesType
    <3>2. ASSUME Becomes(s, Idle("error", 0))
          PROVE  sess' \in [Sessions -> Requests] /\ Shaped'
      BY <3>2, IdleType, BecomesType
    <3> QED BY <1>7, <3>1, <3>2 DEF LoadItem, Finish
  <2> QED BY <1>0, <1>7, <2>1 DEF LoadItem, GivesUp, Unpublished, TypeOK
<1>8. CASE CommitRebuild(s)
  <2>1. sess' \in [Sessions -> Requests] /\ Shaped'
    BY <1>8, IdleType, BecomesType DEF CommitRebuild, Finish
  <2>2. sess[s].item \in Items
    BY <1>0, <1>8 DEF CommitRebuild, Ready, WellShaped
  <2>3. ItemRow(sess[s].value) \in ItemRows
    BY <1>0 DEF Requests, ItemRow, ItemRows
  <2>4. item' \in [Items -> ItemRows]
    BY <1>8, <2>2, <2>3 DEF CommitRebuild, TypeOK
  <2> QED BY <1>0, <1>8, <2>1, <2>2, <2>4 DEF CommitRebuild, PublishesRebuild, Outdates, TypeOK
<1>9. CASE FailRebuild(s)
  <2>1. sess' \in [Sessions -> Requests] /\ Shaped'
    BY <1>9, IdleType, BecomesType DEF FailRebuild, Finish
  <2> QED BY <1>0, <1>9, <2>1 DEF FailRebuild, GivesUp, TypeOK
<1>10. CASE ClaimItem(s)
  <2>1. sess' \in [Sessions -> Requests] /\ Shaped'
    <3> DEFINE r == [sess[s] EXCEPT !.pc = "claimed"]
    <3>1. ASSUME Becomes(s, r)
          PROVE  sess' \in [Sessions -> Requests] /\ Shaped'
      <4>1. r \in Requests /\ WellShaped(r)
        BY <1>0, <1>10 DEF ClaimItem, Ready, Requests, WellShaped, Adding, Points
      <4> HIDE DEF r
      <4> QED BY <3>1, <4>1, BecomesType
    <3>2. ASSUME Becomes(s, Idle("done", 0))
          PROVE  sess' \in [Sessions -> Requests] /\ Shaped'
      BY <3>2, IdleType, BecomesType
    <3> QED BY <1>10, <3>1, <3>2 DEF ClaimItem, Finish
  <2> QED BY <1>10, <2>1 DEF ClaimItem, Unpublished, TypeOK
<1>11. CASE RemoveItem(s)
  <2>1. sess' \in [Sessions -> Requests] /\ Shaped'
    BY <1>11, IdleType, BecomesType DEF RemoveItem, Finish
  <2>2. NoRow \in ItemRows
    BY DEF NoRow, ItemRows, NoStock, Holdings, ZeroRate, Rates
  <2> QED BY <1>0, <1>11, <2>1, <2>2 DEF RemoveItem, Outdates, TypeOK
<1> QED BY <1>1, <1>2, <1>3, <1>4, <1>5, <1>6, <1>7, <1>8, <1>9, <1>10, <1>11
        DEF Continue

\* Every step keeps the types.
LEMMA TypeStep ==
  ASSUME IInv, [Next]_vars
  PROVE  TypeOK' /\ Shaped'
<1>1. CASE UNCHANGED vars
  BY <1>1 DEF IInv, vars, TypeOK, Shaped
<1>2. ASSUME NEW s \in Sessions, AbortVictim(s)
      PROVE  TypeOK' /\ Shaped'
  <2>1. sess' \in [Sessions -> Requests] /\ Shaped'
    BY <1>2, IdleType, BecomesType DEF IInv, AbortVictim, Finish
  <2> QED BY <1>2, <2>1 DEF IInv, AbortVictim, GivesUp, TypeOK
<1> QED BY <1>1, <1>2, BeginType, ContinueType DEF Next

-----------------------------------------------------------------------------
(* Transaction ids *)

Inserted == {"inserted", "computed"}

\* The steps that commit no row: what the request's new record must respect.
LEMMA QuietNumbers ==
  ASSUME IInv, NEW s \in Sessions, NEW r, Becomes(s, r), trans' = trans,
         nextTrans' \in {nextTrans, nextTrans + 1},
         r.tid \in Nat, r.tid < nextTrans',
         r.pc \in Inserted => \/ sess[s].pc \in Inserted /\ r.tid = sess[s].tid
                             \/ r.tid = nextTrans,
         r.pc \in Removing =>
           /\ \A q \in trans : q.id = r.tid => q.item = r.item
           /\ \A t \in Sessions \ {s} : sess[t].pc \in Inserted => sess[t].tid # r.tid
  PROVE  Numbered'
<1> USE DEF IInv
<1>1. /\ sess' = [sess EXCEPT ![s] = r] /\ sess \in [Sessions -> Requests]
      /\ sess'[s] = r /\ \A t \in Sessions \ {s} : sess'[t] = sess[t]
  BY DEF Becomes, TypeOK
<1>2. \A t \in Sessions : sess[t].tid \in Nat /\ sess[t].tid < nextTrans
  BY DEF TypeOK, Requests, Numbered
<1>3. nextTrans \in Nat \ {0} /\ nextTrans' \in Nat \ {0} /\ nextTrans <= nextTrans'
  BY DEF TypeOK
<1>4. IsFiniteSet(trans') /\ \A q, p \in trans' : q.id = p.id => q = p
  BY DEF Numbered
<1>5. \A q \in trans' : q.id \in 1..(nextTrans' - 1) /\ q.id # nextTrans
  BY <1>3 DEF Numbered
<1>6. Inserted \cap Removing = {}
  BY DEF Inserted, Removing
<1>7. ASSUME NEW t \in Sessions PROVE sess'[t].tid < nextTrans'
  BY <1>1, <1>2, <1>3
<1>8. ASSUME NEW t \in Sessions, sess'[t].pc \in Inserted
      PROVE  /\ sess'[t].tid >= 1
             /\ \A q \in trans' : q.id # sess'[t].tid
             /\ \A u \in Sessions :
                  /\ u # t /\ sess'[u].pc \in Inserted => sess'[u].tid # sess'[t].tid
                  /\ sess'[u].pc \in Removing => sess'[u].tid # sess'[t].tid
  <2> USE <1>8 DEF Inserted
  <2>1. /\ sess'[t].tid >= 1
        /\ \A q \in trans' : q.id # sess'[t].tid
    BY <1>1, <1>3, <1>5 DEF Numbered
  <2>2. ASSUME NEW u \in Sessions, u # t, sess'[u].pc \in Inserted
        PROVE  sess'[u].tid # sess'[t].tid
    BY <1>1, <1>2, <1>3, <2>2 DEF Numbered
  <2>3. ASSUME NEW u \in Sessions, sess'[u].pc \in Removing
        PROVE  sess'[u].tid # sess'[t].tid
    <3>1. u # t
      BY <1>6, <1>8, <2>3
    <3>2. CASE t # s /\ u # s
      BY <1>1, <2>3, <3>2 DEF Numbered
    <3>3. CASE t # s /\ u = s
      BY <1>1, <2>3, <3>3
    <3>4. CASE t = s
      BY <1>1, <1>2, <1>3, <2>3, <3>1, <3>4 DEF Numbered
    <3> QED BY <3>2, <3>3, <3>4
  <2> QED BY <2>1, <2>2, <2>3
<1>9. ASSUME NEW t \in Sessions, sess'[t].pc \in Removing
      PROVE  \A q \in trans' : q.id = sess'[t].tid => q.item = sess'[t].item
  BY <1>1, <1>9 DEF Numbered
<1> QED BY <1>4, <1>5, <1>7, <1>8, <1>9 DEF Numbered, Inserted

\* A request that starts gives no row a number another has.
LEMMA NumberedBegin ==
  ASSUME IInv, NEW s \in Sessions, Begin(s)
  PROVE  Numbered'
<1> USE DEF IInv
<1>0. /\ nextTrans \in Nat \ {0}
      /\ \A q \in trans : q.id # 0
      /\ \A t \in Sessions : sess[t].pc \in Inserted =>
            /\ sess[t].tid # 0
            /\ \A q \in trans : q.id # sess[t].tid
  BY DEF TypeOK, Numbered, Inserted
<1>1. ASSUME NEW slot \in Slots, NEW o \in Inputs, LookUpItem(s, slot, o)
      PROVE  Numbered'
  <2>1. ASSUME NEW p \in {"found", "missing"}, NEW i, Becomes(s, Start(p, i, o, 0))
        PROVE  Numbered'
    <3> DEFINE r == Start(p, i, o, 0)
    <3>1. r.tid = 0 /\ r.pc \notin Inserted \cup Removing
      BY DEF Start, Inserted, Removing
    <3> HIDE DEF r
    <3>2. Becomes(s, r)
      BY <2>1 DEF r
    <3> QED BY <1>0, <1>1, <3>1, <3>2, QuietNumbers DEF LookUpItem
  <2> QED BY <1>1, <2>1 DEF LookUpItem
<1>2. ASSUME NEW n \in 1..MaxTrans, LookUpTrans(s, n)
      PROVE  Numbered'
  <2>1. ASSUME NEW q \in trans, q.id = n, Becomes(s, Start("chosen", q.item, NoItem, n))
        PROVE  Numbered'
    <3> DEFINE r == Start("chosen", q.item, NoItem, n)
    <3>1. r.tid = n /\ r.pc \notin Inserted /\ r.item = q.item
      BY DEF Start, Inserted
    <3>2. \A p \in trans : p.id = n => p.item = q.item
      BY <2>1 DEF Numbered
    <3>3. \A t \in Sessions : sess[t].pc \in Inserted => sess[t].tid # n
      BY <1>0, <2>1
    <3>4. n \in Nat /\ n < nextTrans
      BY <1>2, PositionAssumption DEF LookUpTrans
    <3> HIDE DEF r
    <3>5. Becomes(s, r)
      BY <2>1 DEF r
    <3> QED BY <1>0, <1>2, <3>1, <3>2, <3>3, <3>4, <3>5, QuietNumbers DEF LookUpTrans
  <2>2. ASSUME Becomes(s, Idle("error", 0))
        PROVE  Numbered'
    <3> DEFINE r == Idle("error", 0)
    <3>1. r.tid = 0 /\ r.pc \notin Inserted \cup Removing
      BY DEF Idle, Inserted, Removing
    <3> HIDE DEF r
    <3>2. Becomes(s, r)
      BY <2>2 DEF r
    <3> QED BY <1>0, <1>2, <3>1, <3>2, QuietNumbers DEF LookUpTrans
  <2> QED BY <1>2, <2>1, <2>2 DEF LookUpTrans, Finish
<1>3. ASSUME NEW i \in Items, NEW p \in {"replay", "removing"},
             Becomes(s, Start(p, i, NoItem, 0)), UNCHANGED <<trans, nextTrans>>
      PROVE  Numbered'
  <2> DEFINE r == Start(p, i, NoItem, 0)
  <2>1. r.tid = 0 /\ r.pc \notin Inserted
    BY DEF Start, Inserted
  <2> HIDE DEF r
  <2>2. Becomes(s, r)
    BY <1>3 DEF r
  <2> QED BY <1>0, <1>3, <2>1, <2>2, QuietNumbers
<1> QED BY <1>1, <1>2, <1>3 DEF Begin, BeginRebuild, BeginDeleteItem

\* A request that ends without committing a row.
LEMMA NumberedFinish ==
  ASSUME IInv, NEW s \in Sessions, NEW o, NEW n \in Nat, Becomes(s, Idle(o, n)),
         trans' = trans, nextTrans' \in {nextTrans, nextTrans + 1}, n < nextTrans'
  PROVE  Numbered'
<1> DEFINE r == Idle(o, n)
<1>1. r.tid = n /\ r.pc \notin Inserted \cup Removing
  BY DEF Idle, Inserted, Removing
<1> HIDE DEF r
<1>2. Becomes(s, r)
  BY DEF r
<1> QED BY <1>1, <1>2, QuietNumbers

\* Nor does the next statement of a request: an inserted row takes the number
\* the sequence gives it alone.
LEMMA NumberedContinue ==
  ASSUME IInv, NEW s \in Sessions, Continue(s)
  PROVE  Numbered'
<1> USE DEF IInv
<1>0. /\ nextTrans \in Nat /\ 0 < nextTrans
      /\ sess[s] \in Requests /\ sess[s].tid \in Nat /\ sess[s].tid < nextTrans
      /\ sess \in [Sessions -> Requests]
      /\ \A q \in trans : q.id # 0
      /\ \A t \in Sessions : sess[t].pc \in Inserted =>
            /\ sess[t].tid # 0
            /\ \A q \in trans : q.id # sess[t].tid
            /\ \A u \in Sessions : sess[u].pc \in Removing => sess[u].tid # sess[t].tid
  BY DEF TypeOK, Numbered, Inserted, Requests
<1>1. CASE InsertRow(s)
  <2>1. ASSUME Becomes(s, [sess[s] EXCEPT !.pc = "inserted", !.tid = nextTrans])
        PROVE  Numbered'
    <3> DEFINE r == [sess[s] EXCEPT !.pc = "inserted", !.tid = nextTrans]
    <3>1. r.tid = nextTrans /\ r.pc \notin Removing
      BY <1>0 DEF Removing, Requests
    <3> HIDE DEF r
    <3>2. Becomes(s, r)
      BY <2>1 DEF r
    <3> QED BY <1>0, <1>1, <3>1, <3>2, QuietNumbers DEF InsertRow
  <2> QED BY <1>0, <1>1, <2>1, NumberedFinish DEF InsertRow
<1>2. CASE InsertOrphan(s)
  <2>1. CASE trans' = trans
    BY <1>0, <1>2, <2>1, NumberedFinish DEF InsertOrphan
  <2>2. CASE trans' = trans \cup {TransRow(nextTrans, NoItem, sess[s].order)}
    <3>1. TransRow(nextTrans, NoItem, sess[s].order).id = nextTrans
      BY DEF TransRow
    <3>2. IsFiniteSet(trans')
      BY <2>2, FS_AddElement DEF Numbered
    <3>3. \A t \in Sessions : /\ sess'[t].pc # "idle" => sess'[t] = sess[t]
                             /\ sess'[t].tid < nextTrans'
      BY <1>0, <1>2 DEF InsertOrphan, Becomes, Idle, Numbered, TypeOK, Requests
    <3>4. \A t \in Sessions : sess[t].tid < nextTrans /\ sess[t].tid \in Nat
      BY DEF Numbered, TypeOK, Requests
    <3>5. nextTrans' = nextTrans + 1
      BY <1>2 DEF InsertOrphan
    <3> QED BY <1>0, <2>2, <3>1, <3>2, <3>3, <3>4, <3>5 DEF Numbered, Removing
  <2> QED BY <1>2, <2>1, <2>2 DEF InsertOrphan
<1>3. CASE RefreshItem(s)
  <2> DEFINE h == item[sess[s].item].held
             r == [sess[s] EXCEPT !.pc = "computed", !.base = h,
                                  !.value = Apply(h, sess[s].order)]
  <2>1. r.tid = sess[s].tid /\ r.pc \notin Removing /\ sess[s].pc \in Inserted
    BY <1>0, <1>3 DEF RefreshItem, Requests, Removing, Inserted
  <2>2. Becomes(s, r)
    BY <1>3 DEF RefreshItem
  <2> HIDE DEF r
  <2> QED BY <1>0, <1>3, <2>1, <2>2, QuietNumbers DEF RefreshItem
<1>4. CASE CommitAdd(s)
  <2> DEFINE row == TransRow(sess[s].tid, sess[s].item, sess[s].order)
  <2>1. row.id = sess[s].tid
    BY DEF TransRow
  <2>2. trans' = trans \cup {row} /\ nextTrans' = nextTrans /\ sess[s].pc \in Inserted
    BY <1>4 DEF CommitAdd, Ready, Inserted
  <2>3. \A t \in Sessions : /\ sess'[t].pc # "idle" => t # s /\ sess'[t] = sess[t]
                           /\ sess'[t].tid < nextTrans'
    BY <1>0, <1>4 DEF CommitAdd, Becomes, Idle, Numbered
  <2> HIDE DEF row
  <2>4. IsFiniteSet(trans')
    BY <2>2, FS_AddElement DEF Numbered
  <2> QED BY <1>0, <2>1, <2>2, <2>3, <2>4 DEF Numbered, Removing, Inserted
<1>5. CASE DeleteRow(s)
  <2> DEFINE n == IF \E q \in trans : q.id = sess[s].tid THEN sess[s].tid ELSE 0
             r == [sess[s] EXCEPT !.pc = "replay", !.tid = n]
  <2>1. n \in {0, sess[s].tid} /\ Becomes(s, r) /\ sess[s].pc = "chosen"
    BY <1>5 DEF DeleteRow, Ready
  <2> HIDE DEF n
  <2>2. r.tid = n /\ r.item = sess[s].item /\ r.pc \notin Inserted
    BY <1>0 DEF Inserted, Requests
  <2> HIDE DEF r
  <2>3. /\ \A q \in trans : q.id = n => q.item = sess[s].item
        /\ \A t \in Sessions : sess[t].pc \in Inserted => sess[t].tid # n
    BY <1>0, <2>1 DEF Numbered, Removing
  <2> QED BY <1>0, <1>5, <2>1, <2>2, <2>3, QuietNumbers DEF DeleteRow
<1>6. ASSUME NEW r, r.tid = sess[s].tid, r.item = sess[s].item, r.pc \in Removing,
             sess[s].pc \in Removing, Becomes(s, r), UNCHANGED <<trans, nextTrans>>
      PROVE  Numbered'
  <2>1. r.pc \notin Inserted
    BY <1>6 DEF Inserted, Removing
  <2>2. /\ \A q \in trans : q.id = r.tid => q.item = r.item
        /\ \A t \in Sessions : sess[t].pc \in Inserted => sess[t].tid # r.tid
    BY <1>0, <1>6 DEF Numbered
  <2> QED BY <1>0, <1>6, <2>1, <2>2, QuietNumbers
<1>7. CASE ReplayRows(s)
  <2> DEFINE v == Replay({q \in RowsOf(sess[s].item) : q.id # sess[s].tid})
             r == [sess[s] EXCEPT !.pc = "replayed", !.value = v]
  <2>1. Becomes(s, r)
    BY <1>7 DEF ReplayRows
  <2> HIDE DEF v
  <2>2. r.tid = sess[s].tid /\ r.item = sess[s].item /\ r.pc \in Removing
        /\ sess[s].pc \in Removing
    BY <1>0, <1>7 DEF ReplayRows, Requests, Removing
  <2> HIDE DEF r
  <2> QED BY <1>6, <1>7, <2>1, <2>2 DEF ReplayRows
<1>8. CASE LoadItem(s)
  <2>1. ASSUME Becomes(s, [sess[s] EXCEPT !.pc = "loaded", !.base = item[sess[s].item].held])
        PROVE  Numbered'
    <3> DEFINE r == [sess[s] EXCEPT !.pc = "loaded", !.base = item[sess[s].item].held]
    <3>1. r.tid = sess[s].tid /\ r.item = sess[s].item /\ r.pc \in Removing
          /\ sess[s].pc \in Removing
      BY <1>0, <1>8 DEF LoadItem, Requests, Removing
    <3> HIDE DEF r
    <3>2. Becomes(s, r)
      BY <2>1 DEF r
    <3> QED BY <1>6, <1>8, <3>1, <3>2 DEF LoadItem
  <2> QED BY <1>0, <1>8, <2>1, NumberedFinish DEF LoadItem, Finish
<1>9. CASE CommitRebuild(s)
  <2>1. trans' \subseteq trans /\ nextTrans' = nextTrans
    BY <1>9 DEF CommitRebuild
  <2>2. \A t \in Sessions : /\ sess'[t].pc # "idle" => sess'[t] = sess[t]
                           /\ sess'[t].tid < nextTrans'
    BY <1>0, <1>9 DEF CommitRebuild, Finish, Becomes, Idle, Numbered
  <2>3. IsFiniteSet(trans')
    BY <2>1, FS_Subset DEF Numbered
  <2> QED BY <1>0, <2>1, <2>2, <2>3 DEF Numbered, Removing
<1>10. CASE FailRebuild(s)
  BY <1>0, <1>10, NumberedFinish DEF FailRebuild, Finish
<1>11. CASE ClaimItem(s)
  <2>1. ASSUME Becomes(s, [sess[s] EXCEPT !.pc = "claimed"])
        PROVE  Numbered'
    <3> DEFINE r == [sess[s] EXCEPT !.pc = "claimed"]
    <3>1. r.tid = sess[s].tid /\ r.pc \notin Inserted \cup Removing
      BY <1>0 DEF Requests, Removing, Inserted
    <3> HIDE DEF r
    <3>2. Becomes(s, r)
      BY <2>1 DEF r
    <3> QED BY <1>0, <1>11, <3>1, <3>2, QuietNumbers DEF ClaimItem
  <2> QED BY <1>0, <1>11, <2>1, NumberedFinish DEF ClaimItem, Finish
<1>12. CASE RemoveItem(s)
  BY <1>0, <1>12, NumberedFinish DEF RemoveItem, Finish
<1> QED BY <1>1, <1>2, <1>3, <1>4, <1>5, <1>7, <1>8, <1>9, <1>10, <1>11, <1>12
        DEF Continue

\* Every step keeps the rows numbered.
LEMMA NumberedStep ==
  ASSUME IInv, [Next]_vars
  PROVE  Numbered'
<1>1. CASE UNCHANGED vars
  BY <1>1 DEF IInv, vars, Numbered
<1>2. ASSUME NEW s \in Sessions, AbortVictim(s)
      PROVE  Numbered'
  <2>1. 0 < nextTrans
    BY DEF IInv, TypeOK
  <2> QED BY <1>2, <2>1, NumberedFinish DEF AbortVictim, Finish
<1> QED BY <1>1, <1>2, NumberedBegin, NumberedContinue DEF Next

-----------------------------------------------------------------------------
(* Row locks *)

\* What a statement waits for, point by point.
LEMMA WaitsFor ==
  ASSUME NEW s \in Sessions, Blockers(s) = {}
  PROVE  /\ sess[s].pc = "found" => Claiming(sess[s].item) = {}
         /\ sess[s].pc = "computed" => UpdateBlockers(s) = {}
         /\ sess[s].pc = "loaded" /\ Dirty(s) => UpdateBlockers(s) = {}
         /\ sess[s].pc = "removing" =>
              Sharing(sess[s].item) = {} /\ Claiming(sess[s].item) = {}
BY DEF Blockers

\* Steps that leave the items alone: what the request's new record must respect.
LEMMA QuietLocks ==
  ASSUME IInv, NEW s \in Sessions, NEW r, Becomes(s, r), item' = item,
         \A q \in trans' : q.item # NoItem => item[q.item].live,
         r.pc \in Inserted =>
           /\ Claiming(r.item) \subseteq {s}
           /\ item[r.item].live,
         r.pc = "claimed" => Claiming(r.item) \cup Sharing(r.item) \subseteq {s},
         r.pc = "computed" => r.base = item[r.item].held
  PROVE  Locked'
<1> USE DEF IInv
<1>1. sess'[s] = r /\ \A t \in Sessions \ {s} : sess'[t] = sess[t]
  BY DEF Becomes, TypeOK
<1>2. ASSUME NEW t \in Sessions, NEW u \in Sessions,
             sess'[t].pc = "claimed", sess'[u].pc \in {"claimed", "inserted", "computed"},
             sess'[t].item = sess'[u].item
      PROVE  t = u
  <2>1. CASE t # s /\ u # s
    BY <1>1, <1>2, <2>1 DEF Locked
  <2>2. CASE t = s /\ u # s
    BY <1>1, <1>2, <2>2 DEF Claiming, Sharing
  <2>3. CASE t # s /\ u = s
    BY <1>1, <1>2, <2>3 DEF Claiming, Inserted
  <2> QED BY <2>1, <2>2, <2>3
<1>3. ParentsExist'
  BY <1>1 DEF Locked, ParentsExist, Inserted
<1>4. AddsSeeCurrentRow'
  BY <1>1 DEF Locked, AddsSeeCurrentRow
<1> QED BY <1>2, <1>3, <1>4 DEF Locked

\* The end of a request that leaves the items alone.
LEMMA LocksFinish ==
  ASSUME IInv, NEW s \in Sessions, NEW o, NEW n, Becomes(s, Idle(o, n)), item' = item,
         \A q \in trans' : q.item # NoItem => item[q.item].live
  PROVE  Locked'
<1> DEFINE r == Idle(o, n)
<1>1. r.pc \notin Inserted \cup {"claimed"}
  BY DEF Idle, Inserted
<1> HIDE DEF r
<1>2. Becomes(s, r)
  BY DEF r
<1>3. r.pc # "computed" /\ r.pc # "claimed" /\ r.pc \notin Inserted
  BY <1>1 DEF Inserted
<1> QED BY <1>2, <1>3, QuietLocks

\* The end of a request that writes its item under the lock.
LEMMA LocksUpdate ==
  ASSUME IInv, NEW s \in Sessions, NEW o, NEW n, Becomes(s, Idle(o, n)),
         NEW dirty \in BOOLEAN, sess[s].item \in Items,
         item' = [item EXCEPT ![sess[s].item] =
                     IF dirty THEN ItemRow(sess[s].value) ELSE @],
         dirty => UpdateBlockers(s) = {},
         \A q \in trans' : q.item # NoItem => q \in trans \/ item[q.item].live
  PROVE  Locked'
<1> USE DEF IInv
<1>1. /\ sess'[s].pc = "idle"
      /\ \A t \in Sessions \ {s} : sess'[t] = sess[t]
  BY DEF Becomes, TypeOK, Idle
<1>2. \A i : item[i].live => item'[i].live
  BY DEF TypeOK, ItemRow
<1>3. ParentsExist'
  BY <1>1, <1>2 DEF Locked, ParentsExist
<1>4. AddsSeeCurrentRow'
  <2> SUFFICES ASSUME ForShare, NEW t \in Sessions, sess'[t].pc = "computed"
               PROVE  sess'[t].base = item'[sess'[t].item].held
    BY DEF AddsSeeCurrentRow
  <2>1. t # s /\ sess'[t] = sess[t] /\ sess[t].base = item[sess[t].item].held
    BY <1>1 DEF Locked, AddsSeeCurrentRow
  <2>2. dirty => sess[t].item # sess[s].item
    BY <2>1 DEF UpdateBlockers, Sharing
  <2>3. item'[sess[t].item] = item[sess[t].item]
    BY <2>2 DEF TypeOK
  <2> QED BY <2>1, <2>3
<1> QED BY <1>1, <1>3, <1>4 DEF Locked

\* Every step respects the row locks: an item is neither deleted under an
\* inserted row nor, where the lock blocks updates, changed under it.
LEMMA LockedStep ==
  ASSUME IInv, [Next]_vars
  PROVE  Locked'
<1> USE DEF IInv
<1>0. CASE UNCHANGED vars
  BY <1>0 DEF vars, Locked, ParentsExist, AddsSeeCurrentRow
<1> SUFFICES ASSUME NEW s \in Sessions, Begin(s) \/ Continue(s) \/ AbortVictim(s)
             PROVE  Locked'
  BY <1>0 DEF Next
<1>1. /\ \A q \in trans : q.item # NoItem => item[q.item].live
      /\ sess[s] \in Requests /\ sess \in [Sessions -> Requests]
  BY DEF Locked, ParentsExist, TypeOK
<1>2. CASE Begin(s)
  <2>1. ASSUME NEW p \in {"found", "missing", "chosen", "replay", "removing"}, NEW i, NEW o,
               NEW n, Becomes(s, Start(p, i, o, n)), UNCHANGED <<item, trans>>
        PROVE  Locked'
    <3> DEFINE r == Start(p, i, o, n)
    <3>1. r.pc # "claimed" /\ r.pc # "computed" /\ r.pc \notin Inserted
      BY DEF Start, Inserted
    <3> HIDE DEF r
    <3>2. Becomes(s, r)
      BY <2>1 DEF r
    <3> QED BY <1>1, <2>1, <3>1, <3>2, QuietLocks
  <2>2. ASSUME NEW slot \in Slots, NEW o \in Inputs, LookUpItem(s, slot, o) PROVE Locked'
    BY <2>1, <2>2 DEF LookUpItem
  <2>3. ASSUME NEW n \in 1..MaxTrans, LookUpTrans(s, n) PROVE Locked'
    BY <1>1, <2>1, <2>3, LocksFinish DEF LookUpTrans, Finish
  <2>4. ASSUME NEW i \in Items, BeginRebuild(s, i) \/ BeginDeleteItem(s, i) PROVE Locked'
    BY <2>1, <2>4 DEF BeginRebuild, BeginDeleteItem
  <2> QED BY <1>2, <2>2, <2>3, <2>4 DEF Begin
<1>3. CASE InsertRow(s)
  <2>1. ASSUME Becomes(s, [sess[s] EXCEPT !.pc = "inserted", !.tid = nextTrans]),
               item[sess[s].item].live
        PROVE  Locked'
    <3> DEFINE r == [sess[s] EXCEPT !.pc = "inserted", !.tid = nextTrans]
    <3>1. r.pc = "inserted" /\ r.item = sess[s].item
      BY <1>1 DEF Requests
    <3>2. Claiming(sess[s].item) = {}
      BY <1>3, WaitsFor DEF InsertRow, Ready
    <3> HIDE DEF r
    <3>3. Becomes(s, r)
      BY <2>1 DEF r
    <3> QED BY <1>1, <1>3, <2>1, <3>1, <3>2, <3>3, QuietLocks DEF InsertRow
  <2> QED BY <1>1, <1>3, <2>1, LocksFinish DEF InsertRow
<1>4. CASE InsertOrphan(s)
  <2>1. \A q \in trans' : q.item # NoItem => item[q.item].live
    BY <1>1, <1>4 DEF InsertOrphan, TransRow
  <2> QED BY <1>4, <2>1, LocksFinish DEF InsertOrphan
<1>5. CASE RefreshItem(s)
  <2> DEFINE h == item[sess[s].item].held
             v == Apply(h, sess[s].order)
             r == [sess[s] EXCEPT !.pc = "computed", !.base = h, !.value = v]
  <2>1. Becomes(s, r) /\ sess[s].pc = "inserted"
    BY <1>5 DEF RefreshItem
  <2> HIDE DEF v
  <2>2. r.pc = "computed" /\ r.item = sess[s].item /\ r.base = h
    BY <1>1 DEF Requests
  <2> HIDE DEF r
  <2>3. Claiming(sess[s].item) \subseteq {s} /\ item[sess[s].item].live
    BY <2>1 DEF Locked, ParentsExist, Claiming
  <2> QED BY <1>1, <1>5, <2>1, <2>2, <2>3, QuietLocks DEF RefreshItem
<1>6. CASE CommitAdd(s)
  <2>1. sess[s].pc = "computed" /\ sess[s].item \in Items /\ item[sess[s].item].live
    BY <1>6 DEF CommitAdd, Ready, Shaped, WellShaped, Locked, ParentsExist
  <2>2. \A q \in trans' : q.item # NoItem => q \in trans \/ item[q.item].live
    BY <1>6, <2>1 DEF CommitAdd, TransRow
  <2>3. UpdateBlockers(s) = {}
    BY <1>6, <2>1, WaitsFor DEF CommitAdd, Ready
  <2>4. PICK dirty \in {TRUE, Dirty(s)} :
               item' = [item EXCEPT ![sess[s].item] =
                           IF dirty THEN ItemRow(sess[s].value) ELSE @]
    BY <1>6 DEF CommitAdd
  <2>5. dirty \in BOOLEAN
    BY <2>4 DEF Dirty, SameHolding
  <2> QED BY <1>6, <2>1, <2>2, <2>3, <2>4, <2>5, LocksUpdate DEF CommitAdd
<1>7. CASE DeleteRow(s)
  <2> DEFINE n == IF \E q \in trans : q.id = sess[s].tid THEN sess[s].tid ELSE 0
             r == [sess[s] EXCEPT !.pc = "replay", !.tid = n]
  <2>1. Becomes(s, r)
    BY <1>7 DEF DeleteRow
  <2> HIDE DEF n
  <2>2. r.pc # "claimed" /\ r.pc # "computed" /\ r.pc \notin Inserted
    BY <1>1 DEF Inserted, Requests
  <2> HIDE DEF r
  <2> QED BY <1>1, <1>7, <2>1, <2>2, QuietLocks DEF DeleteRow
<1>8. CASE ReplayRows(s)
  <2> DEFINE v == Replay({q \in RowsOf(sess[s].item) : q.id # sess[s].tid})
             r == [sess[s] EXCEPT !.pc = "replayed", !.value = v]
  <2>1. Becomes(s, r)
    BY <1>8 DEF ReplayRows
  <2> HIDE DEF v
  <2>2. r.pc # "claimed" /\ r.pc # "computed" /\ r.pc \notin Inserted
    BY <1>1 DEF Inserted, Requests
  <2> HIDE DEF r
  <2> QED BY <1>1, <1>8, <2>1, <2>2, QuietLocks DEF ReplayRows
<1>9. CASE LoadItem(s)
  <2>1. ASSUME Becomes(s, [sess[s] EXCEPT !.pc = "loaded", !.base = item[sess[s].item].held])
        PROVE  Locked'
    <3> DEFINE r == [sess[s] EXCEPT !.pc = "loaded", !.base = item[sess[s].item].held]
    <3>1. r.pc # "claimed" /\ r.pc # "computed" /\ r.pc \notin Inserted
      BY <1>1 DEF Inserted, Requests
    <3> HIDE DEF r
    <3>2. Becomes(s, r)
      BY <2>1 DEF r
    <3> QED BY <1>1, <1>9, <3>1, <3>2, QuietLocks DEF LoadItem
  <2> QED BY <1>1, <1>9, <2>1, LocksFinish DEF LoadItem, Finish
<1>10. CASE CommitRebuild(s)
  <2>1. sess[s].pc = "loaded" /\ sess[s].item \in Items
    BY <1>10 DEF CommitRebuild, Ready, Shaped, WellShaped
  <2>2. \A q \in trans' : q.item # NoItem => q \in trans \/ item[q.item].live
    BY <1>10 DEF CommitRebuild
  <2>3. Dirty(s) => UpdateBlockers(s) = {}
    BY <1>10, <2>1, WaitsFor DEF CommitRebuild, Ready
  <2>4. Dirty(s) \in BOOLEAN
    BY DEF Dirty, SameHolding
  <2> QED BY <1>10, <2>1, <2>2, <2>3, <2>4, LocksUpdate DEF CommitRebuild, Finish
<1>11. CASE FailRebuild(s)
  BY <1>1, <1>11, LocksFinish DEF FailRebuild, Finish
<1>12. CASE ClaimItem(s)
  <2>1. ASSUME Becomes(s, [sess[s] EXCEPT !.pc = "claimed"])
        PROVE  Locked'
    <3> DEFINE r == [sess[s] EXCEPT !.pc = "claimed"]
    <3>1. r.pc = "claimed" /\ r.pc \notin Inserted /\ r.item = sess[s].item
      BY <1>1 DEF Requests, Inserted
    <3>2. Claiming(sess[s].item) = {} /\ Sharing(sess[s].item) = {}
      BY <1>12, WaitsFor DEF ClaimItem, Ready
    <3> HIDE DEF r
    <3>3. Becomes(s, r)
      BY <2>1 DEF r
    <3> QED BY <1>1, <1>12, <3>1, <3>2, <3>3, QuietLocks DEF ClaimItem
  <2> QED BY <1>1, <1>12, <2>1, LocksFinish DEF ClaimItem, Finish
<1>13. CASE RemoveItem(s)
  <2>1. CASE item' = item
    BY <1>1, <1>13, <2>1, LocksFinish DEF RemoveItem, Finish
  <2>2. CASE RowsOf(sess[s].item) = {} /\ item' = [item EXCEPT ![sess[s].item] = NoRow]
    <3>1. /\ sess[s].pc = "claimed" /\ sess'[s].pc = "idle" /\ trans' = trans
          /\ \A t \in Sessions \ {s} : sess'[t] = sess[t]
      BY <1>1, <1>13 DEF RemoveItem, Ready, Finish, Becomes, Idle
    <3>2. \A t \in Sessions \ {s} : sess[t].pc \in Inserted => sess[t].item # sess[s].item
      BY <3>1 DEF Locked, Inserted
    <3>3. \A i : i # sess[s].item => item'[i] = item[i]
      BY <2>2 DEF TypeOK
    <3>4. ParentsExist'
      BY <1>1, <2>2, <3>1, <3>2, <3>3 DEF Locked, ParentsExist, RowsOf, Inserted
    <3>5. AddsSeeCurrentRow'
      BY <3>1, <3>2, <3>3 DEF Locked, AddsSeeCurrentRow, Inserted
    <3> QED BY <3>1, <3>4, <3>5 DEF Locked
  <2> QED BY <1>13, <2>1, <2>2 DEF RemoveItem
<1>14. CASE AbortVictim(s)
  BY <1>1, <1>14, LocksFinish DEF AbortVictim, Finish
<1> QED BY <1>2, <1>3, <1>4, <1>5, <1>6, <1>7, <1>8, <1>9, <1>10, <1>11, <1>12,
           <1>13, <1>14 DEF Continue

-----------------------------------------------------------------------------
(* Stock in hand and transactions *)

\* What a rebuild of request s would see as its rows.
Seen(s) == {r \in RowsOf(sess[s].item) : r.id # sess[s].tid}

\* What is required of one request for Informed.
Knows(s) ==
    /\ sess[s].pc \in {"computed", "replayed", "loaded"}
    /\ sess[s].pc \in {"computed", "loaded"} =>
         item[sess[s].item] = ItemRow(sess[s].base)
    /\ sess[s].pc = "computed" => sess[s].value = Apply(sess[s].base, sess[s].order)
    /\ sess[s].pc \in {"replayed", "loaded"} => sess[s].value = Replay(Seen(s))

\* A step keeps what another request knows if it leaves that request's item and
\* rows alone.
LEMMA KnowsStays ==
  ASSUME NEW t, Knows(t), sess'[t] = sess[t],
         item'[sess[t].item] = item[sess[t].item], RowsOf(sess[t].item)' = RowsOf(sess[t].item)
  PROVE  Knows(t)'
BY DEF Knows, Seen

\* A step that changes no row.
LEMMA QuietKnows ==
  ASSUME IInv, NEW s \in Sessions, NEW r, Becomes(s, r), UNCHANGED <<item, trans>>,
         fresh' \subseteq fresh \cup {s}, s \in fresh' => Knows(s)'
  PROVE  Informed'
<1>1. \A t \in Sessions \ {s} : sess'[t] = sess[t]
  BY DEF IInv, Becomes, TypeOK
<1>2. \A i : RowsOf(i)' = RowsOf(i)
  BY DEF RowsOf
<1>3. \A t \in fresh : t \in Sessions /\ Knows(t)
  BY DEF IInv, Informed, TypeOK, Knows, Seen
<1>4. \A t \in fresh' \ {s} : Knows(t)'
  BY <1>1, <1>2, <1>3, KnowsStays
<1> QED BY <1>4 DEF Informed, Knows, Seen

\* A step that changes the rows of one item outdates what was known of it.
LEMMA ChangeKnows ==
  ASSUME IInv, NEW s \in Sessions, NEW r, Becomes(s, r), NEW i \in Items,
         i = sess[s].item, Outdates(i),
         \A j \in Items \ {i} : item'[j] = item[j] /\ RowsOf(j)' = RowsOf(j)
  PROVE  Informed'
<1>1. \A t \in Sessions \ {s} : sess'[t] = sess[t]
  BY DEF IInv, Becomes, TypeOK
<1>2. \A t \in fresh : t \in Sessions /\ Knows(t) /\ sess[t].item \in Items
  BY DEF IInv, Informed, TypeOK, Knows, Seen, Shaped, WellShaped
<1>3. \A t \in fresh' : t \in fresh /\ t # s /\ sess[t].item # i
  BY <1>2 DEF Outdates
<1>4. \A t \in fresh' : Knows(t)'
  BY <1>1, <1>2, <1>3, KnowsStays
<1> QED BY <1>4 DEF Informed, Knows, Seen

\* Only steps that change an item or its rows can break the agreement.
LEMMA QuietSih ==
  ASSUME IInv, item' = item, \A i \in Items : RowsOf(i)' = RowsOf(i), tracked' \subseteq tracked
  PROVE  SihMatchesLedger'
BY DEF IInv, TypeOK, SihMatchesLedger

\* A step that changes one item keeps the agreement if that item agrees after.
LEMMA ChangeSih ==
  ASSUME IInv, NEW i \in Items,
         \A j \in Items \ {i} : item'[j] = item[j] /\ RowsOf(j)' = RowsOf(j),
         tracked' \subseteq tracked \cup {i},
         i \in tracked' /\ item'[i].live => item'[i].held.sih = Replay(RowsOf(i)').sih
  PROVE  SihMatchesLedger'
BY DEF IInv, TypeOK, SihMatchesLedger

\* The rows after a step form a ledger too.
LEMMA NextLedger ==
  ASSUME IInv, [Next]_vars, NEW R \in SUBSET trans'
  PROVE  IsLedger(R)
<1>1. TypeOK' /\ Numbered'
  BY TypeStep, NumberedStep
<1>2. IsLedger(trans')
  BY <1>1 DEF TypeOK, Numbered, TransRows, IsLedger
<1> QED BY <1>2, SubLedger

\* Every step keeps what current readers know and, with it, the agreement of
\* the stock in hand with the ledger.
LEMMA InformedStep ==
  ASSUME IInv, [Next]_vars
  PROVE  Informed' /\ SihMatchesLedger'
<1> USE DEF IInv
<1>0. CASE UNCHANGED vars
  BY <1>0 DEF vars, Informed, RowsOf, SihMatchesLedger
<1> SUFFICES ASSUME NEW s \in Sessions, Begin(s) \/ Continue(s) \/ AbortVictim(s)
             PROVE  Informed' /\ SihMatchesLedger'
  BY <1>0 DEF Next
<1>1. /\ sess[s] \in Requests /\ sess \in [Sessions -> Requests]
      /\ item \in [Items -> ItemRows]
      /\ NoItem \notin Items
      /\ sess[s].pc \notin {"computed", "replayed", "loaded"} => s \notin fresh
      /\ s \in fresh => Knows(s)
  BY PositionAssumption DEF TypeOK, Informed, Knows, Seen
\* Steps that change no row and are not a read.
<1>2. ASSUME NEW r, Becomes(s, r), UNCHANGED <<item, trans>>, s \notin fresh',
             fresh' \subseteq fresh, tracked' = tracked
      PROVE  Informed' /\ SihMatchesLedger'
  <2>1. \A i : RowsOf(i)' = RowsOf(i)
    BY <1>2 DEF RowsOf
  <2> QED BY <1>2, <2>1, QuietKnows, QuietSih
<1>3. CASE Begin(s)
  BY <1>1, <1>2, <1>3 DEF Begin, LookUpItem, LookUpTrans, BeginRebuild,
     BeginDeleteItem, Unpublished, Finish
<1>4. CASE InsertRow(s)
  BY <1>1, <1>2, <1>4 DEF InsertRow, Ready, Unpublished
<1>5. CASE InsertOrphan(s)
  <2>1. \A i \in Items : RowsOf(i)' = RowsOf(i)
    BY <1>1, <1>5 DEF InsertOrphan, RowsOf, TransRow
  <2>2. SihMatchesLedger'
    BY <1>5, <2>1, QuietSih DEF InsertOrphan
  <2>3. \A t \in fresh' : /\ t \in fresh /\ t \in Sessions /\ t # s /\ sess'[t] = sess[t]
                         /\ Knows(t) /\ sess[t].item \in Items
    BY <1>1, <1>5 DEF InsertOrphan, Becomes, Informed, Knows, Seen, TypeOK, Shaped, WellShaped
  <2>4. \A t \in fresh' : Knows(t)'
    BY <1>5, <2>1, <2>3, KnowsStays DEF InsertOrphan
  <2> QED BY <2>2, <2>4 DEF Informed, Knows, Seen
<1>6. CASE RefreshItem(s)
  <2> DEFINE h == item[sess[s].item].held
             v == Apply(h, sess[s].order)
             r == [sess[s] EXCEPT !.pc = "computed", !.base = h, !.value = v]
  <2>1. /\ Becomes(s, r) /\ UNCHANGED <<item, trans, tracked>>
        /\ sess[s].pc = "inserted" /\ fresh' = fresh \cup {s}
    BY <1>6 DEF RefreshItem, ReadsNow
  <2>2. sess[s].item \in Items /\ item[sess[s].item] = ItemRow(h)
    BY <1>1, <2>1 DEF Shaped, WellShaped, Locked, ParentsExist, ItemRow, ItemRows
  <2> HIDE DEF v
  <2>3. sess'[s] = r
    BY <1>1, <2>1 DEF Becomes
  <2>4. /\ sess'[s].pc = "computed" /\ sess'[s].item = sess[s].item
        /\ sess'[s].base = h /\ sess'[s].value = v /\ sess'[s].order = sess[s].order
    BY <1>1, <2>3 DEF Requests
  <2>5. Knows(s)'
    BY <2>1, <2>2, <2>4 DEF Knows, v
  <2> HIDE DEF r
  <2>6. \A i \in Items : RowsOf(i)' = RowsOf(i)
    BY <2>1 DEF RowsOf
  <2> QED BY <2>1, <2>5, <2>6, QuietKnows, QuietSih
<1>7. CASE CommitAdd(s)
  <2>0. PICK i \in Items : i = sess[s].item
    BY <1>1, <1>7 DEF CommitAdd, Ready, Shaped, WellShaped
  <2> DEFINE row == TransRow(sess[s].tid, i, sess[s].order)
  <2>1. /\ sess[s].pc = "computed" /\ item[i].live
        /\ sess[s].order \in Inputs /\ sess[s].tid \in Nat
    BY <1>1, <1>7, <2>0 DEF CommitAdd, Ready, Shaped, WellShaped, Adding, Locked, ParentsExist, Requests
  <2>2. /\ trans' = trans \cup {row} /\ row \notin trans /\ row.item = i
        /\ Signed(row) = Signed(sess[s].order)
    <3>1. row.id = sess[s].tid /\ row.item = i
      BY DEF TransRow
    <3>2. Signed(row) = Signed(sess[s].order)
      BY DEF TransRow, Signed
    <3>3. row \notin trans
      BY <2>1, <3>1 DEF Numbered
    <3> HIDE DEF row
    <3> QED BY <1>7, <2>0, <3>1, <3>2, <3>3 DEF CommitAdd, row
  <2> HIDE DEF row
  <2>3. /\ \A j \in Items \ {i} : item'[j] = item[j] /\ RowsOf(j)' = RowsOf(j)
        /\ RowsOf(i)' = RowsOf(i) \cup {row}
        /\ row \notin RowsOf(i)
    <3>1. \A j \in Items \ {i} : item'[j] = item[j]
      BY <1>1, <1>7, <2>0 DEF CommitAdd
    <3>2. \A j \in Items \ {i} : RowsOf(j)' = RowsOf(j)
      BY <2>2 DEF RowsOf
    <3>3. RowsOf(i)' = RowsOf(i) \cup {row} /\ row \notin RowsOf(i)
      BY <2>2 DEF RowsOf
    <3> QED BY <3>1, <3>2, <3>3
  <2>4. Outdates(i) /\ tracked' = IF s \in fresh THEN tracked ELSE tracked \ {i}
    BY <1>7, <2>0 DEF CommitAdd, PublishesRow
  <2>5. Informed'
    BY <1>7, <2>0, <2>3, <2>4, ChangeKnows DEF CommitAdd
  <2>6. ASSUME i \in tracked' PROVE item'[i].held.sih = Replay(RowsOf(i)').sih
    <3>1. s \in fresh /\ i \in tracked
      BY <2>4, <2>6
    <3>2. /\ item[i] = ItemRow(sess[s].base)
          /\ sess[s].value = Apply(sess[s].base, sess[s].order)
      BY <1>1, <2>0, <2>1, <3>1 DEF Knows
    <3>3. sess[s].value.sih = sess[s].base.sih + Signed(row)
      <4>1. IsRow(sess[s].order) /\ sess[s].base \in Holdings
        BY <1>1, <2>1, PositionAssumption DEF IsRow, Orders, Requests
      <4> QED BY <2>2, <3>2, <4>1, ApplyType
    <3>4. item'[i].held.sih = sess[s].value.sih
      <4>1. PICK dirty \in {TRUE, Dirty(s)} :
                   item' = [item EXCEPT ![sess[s].item] =
                               IF dirty THEN ItemRow(sess[s].value) ELSE @]
        BY <1>7 DEF CommitAdd
      <4>2. CASE dirty
        BY <1>1, <2>0, <4>1, <4>2 DEF ItemRow
      <4>3. CASE ~dirty
        <5>1. sess[s].base.sih = sess[s].value.sih
          BY <4>1, <4>3 DEF Dirty, SameHolding
        <5>2. item'[i] = item[i]
          BY <1>1, <2>0, <4>1, <4>3
        <5> QED BY <3>2, <5>1, <5>2 DEF ItemRow
      <4> QED BY <4>2, <4>3
    <3>5. item[i].held.sih = Replay(RowsOf(i)).sih
      BY <2>1, <3>1 DEF SihMatchesLedger
    <3>6. Replay(RowsOf(i) \cup {row}).sih = Replay(RowsOf(i)).sih + Signed(row)
      <4>1. RowsOf(i) \cup {row} \in SUBSET trans'
        BY <2>2 DEF RowsOf
      <4>2. IsLedger(RowsOf(i) \cup {row})
        BY <4>1, NextLedger
      <4>3. (RowsOf(i) \cup {row}) \ {row} = RowsOf(i)
        BY <2>3
      <4> QED BY <4>2, <4>3, ReplayAdds
    <3> QED BY <2>3, <3>2, <3>3, <3>4, <3>5, <3>6 DEF ItemRow
  <2>7. SihMatchesLedger'
    <3>1. tracked' \subseteq tracked \cup {i}
      BY <2>4
    <3> QED BY <2>1, <2>3, <2>6, <3>1, ChangeSih
  <2> QED BY <2>5, <2>7
<1>8. CASE DeleteRow(s)
  BY <1>1, <1>2, <1>8 DEF DeleteRow, Ready, Unpublished
<1>9. CASE ReplayRows(s)
  <2> DEFINE r == [sess[s] EXCEPT !.pc = "replayed", !.value = Replay(Seen(s))]
  <2>1. /\ Becomes(s, r) /\ UNCHANGED <<item, trans, tracked>>
        /\ fresh' = fresh \cup {s}
    BY <1>9 DEF ReplayRows, ReadsNow, Seen
  <2>2. sess'[s] = r
    BY <1>1, <2>1 DEF Becomes
  <2>3. /\ sess'[s].pc = "replayed" /\ sess'[s].item = sess[s].item
        /\ sess'[s].value = Replay(Seen(s)) /\ sess'[s].tid = sess[s].tid
    BY <1>1, <2>2 DEF Requests
  <2>4. Seen(s)' = Seen(s)
    BY <2>1, <2>3 DEF Seen, RowsOf
  <2>5. Knows(s)'
    BY <2>3, <2>4 DEF Knows
  <2> HIDE DEF r
  <2>6. \A i \in Items : RowsOf(i)' = RowsOf(i)
    BY <2>1 DEF RowsOf
  <2> QED BY <2>1, <2>5, <2>6, QuietKnows, QuietSih
<1>10. CASE LoadItem(s)
  <2>1. ASSUME Becomes(s, [sess[s] EXCEPT !.pc = "loaded", !.base = item[sess[s].item].held]),
               item[sess[s].item].live, Unpublished
        PROVE  Informed' /\ SihMatchesLedger'
    <3> DEFINE r == [sess[s] EXCEPT !.pc = "loaded", !.base = item[sess[s].item].held]
    <3>1. sess'[s] = r /\ UNCHANGED <<item, trans, fresh, tracked>> /\ sess[s].pc = "replayed"
      BY <1>1, <1>10, <2>1 DEF Becomes, LoadItem, Unpublished
    <3>2. /\ sess'[s].pc = "loaded" /\ sess'[s].item = sess[s].item
          /\ sess'[s].value = sess[s].value /\ sess'[s].tid = sess[s].tid
          /\ sess'[s].base = item[sess[s].item].held
      BY <1>1, <3>1 DEF Requests
    <3>3. item[sess[s].item] = ItemRow(sess'[s].base)
      BY <1>1, <2>1, <3>1, <3>2 DEF Shaped, WellShaped, ItemRow, ItemRows
    <3>4. Seen(s)' = Seen(s)
      BY <3>1, <3>2 DEF Seen, RowsOf
    <3>5. s \in fresh => Knows(s)'
      BY <1>1, <3>1, <3>2, <3>3, <3>4 DEF Knows
    <3> HIDE DEF r
    <3>6. Becomes(s, r)
      BY <2>1 DEF r
    <3>7. \A i \in Items : RowsOf(i)' = RowsOf(i)
      BY <3>1 DEF RowsOf
    <3> QED BY <3>1, <3>5, <3>6, <3>7, QuietKnows, QuietSih
  <2> QED BY <1>2, <1>10, <2>1 DEF LoadItem, Finish, GivesUp
<1>11. CASE CommitRebuild(s)
  <2>0. PICK i \in Items : i = sess[s].item
    BY <1>1, <1>11 DEF CommitRebuild, Ready, Shaped, WellShaped
  <2>1. /\ sess[s].pc = "loaded" /\ trans' = {q \in trans : q.id # sess[s].tid}
        /\ \A q \in trans : q.id = sess[s].tid => q.item = i
    BY <1>11, <2>0 DEF CommitRebuild, Ready, Numbered, Removing
  <2>2. \A j \in Items \ {i} : item'[j] = item[j] /\ RowsOf(j)' = RowsOf(j)
    <3>1. \A j \in Items \ {i} : item'[j] = item[j]
      BY <1>1, <1>11, <2>0 DEF CommitRebuild
    <3> QED BY <2>1, <3>1 DEF RowsOf
  <2>3. RowsOf(i)' = Seen(s)
    BY <2>0, <2>1 DEF RowsOf, Seen
  <2>4. Outdates(i) /\ tracked' = IF s \in fresh THEN tracked \cup {i} ELSE tracked \ {i}
    BY <1>11, <2>0 DEF CommitRebuild, PublishesRebuild
  <2>5. Informed'
    BY <1>11, <2>0, <2>2, <2>4, ChangeKnows DEF CommitRebuild, Finish
  <2>6. ASSUME i \in tracked' PROVE item'[i].held.sih = Replay(RowsOf(i)').sih
    <3>1. s \in fresh
      BY <2>4, <2>6
    <3>2. item[i] = ItemRow(sess[s].base) /\ sess[s].value = Replay(Seen(s))
      BY <1>1, <2>0, <2>1, <3>1 DEF Knows
    <3>3. item'[i].held.sih = sess[s].value.sih
      BY <1>1, <1>11, <2>0, <3>2 DEF CommitRebuild, Dirty, SameHolding, ItemRow
    <3> QED BY <2>3, <3>2, <3>3
  <2>7. SihMatchesLedger'
    <3>1. tracked' \subseteq tracked \cup {i}
      BY <2>4
    <3> QED BY <2>2, <2>6, <3>1, ChangeSih
  <2> QED BY <2>5, <2>7
<1>12. CASE FailRebuild(s)
  BY <1>2, <1>12 DEF FailRebuild, Finish, GivesUp
<1>13. CASE ClaimItem(s)
  BY <1>1, <1>2, <1>13 DEF ClaimItem, Ready, Unpublished, Finish
<1>14. CASE RemoveItem(s)
  <2>1. CASE item' = item /\ fresh' = fresh
    BY <1>1, <1>2, <1>14, <2>1 DEF RemoveItem, Ready, Finish
  <2>2. CASE item' = [item EXCEPT ![sess[s].item] = NoRow] /\ Outdates(sess[s].item)
    <3>0. PICK i \in Items : i = sess[s].item
      BY <1>1, <1>14 DEF RemoveItem, Ready, Shaped, WellShaped
    <3>1. /\ \A j \in Items \ {i} : item'[j] = item[j] /\ RowsOf(j)' = RowsOf(j)
          /\ ~item'[i].live
      BY <1>1, <1>14, <2>2, <3>0 DEF RemoveItem, RowsOf, NoRow
    <3>2. Informed'
      BY <1>14, <2>2, <3>0, <3>1, ChangeKnows DEF RemoveItem, Finish
    <3>3. SihMatchesLedger'
      BY <1>14, <3>1, ChangeSih DEF RemoveItem
    <3> QED BY <3>2, <3>3
  <2> QED BY <1>14, <2>1, <2>2 DEF RemoveItem
<1>15. CASE AbortVictim(s)
  BY <1>2, <1>15 DEF AbortVictim, Finish, GivesUp
<1> QED BY <1>3, <1>4, <1>5, <1>6, <1>7, <1>8, <1>9, <1>10, <1>11, <1>12, <1>13,
           <1>14, <1>15 DEF Continue

-----------------------------------------------------------------------------
(* Theorems *)

\* IInv is inductive.
LEMMA InvStep ==
  IInv /\ [Next]_vars => IInv'
BY TypeStep, NumberedStep, LockedStep, InformedStep DEF IInv

\* IInv holds in every reachable state.
LEMMA Invariance ==
  Spec => []IInv
BY InitInv, InvStep, PTL DEF Spec

\* Every variable keeps its type: whatever is added, deleted or replayed, the
\* holdings stay holdings (an average may be infinite or undefined, no less).
THEOREM TypeCorrect == Spec => []TypeOK
<1>1. IInv => TypeOK
  BY DEF IInv
<1> QED BY <1>1, Invariance, PTL

\* For any number of concurrent requests, items and transactions: an item no
\* request has written from an outdated read, since a rebuild last did not,
\* holds the stock its transactions add up to.
THEOREM StockCorrect == Spec => []SihMatchesLedger
<1>1. IInv => SihMatchesLedger
  BY DEF IInv
<1> QED BY <1>1, Invariance, PTL

\* No interleaving of additions and deletions leaves a transaction without the
\* item it was entered for.
THEOREM ParentsStay == Spec => []ParentsExist
<1>1. IInv => ParentsExist
  BY DEF IInv, Locked
<1> QED BY <1>1, Invariance, PTL

\* Where an insertion's lock on its parent blocks updates, additions do not
\* lose each other's, or anybody's, update.
THEOREM AdditionsCurrent == Spec => []AddsSeeCurrentRow
<1>1. IInv => AddsSeeCurrentRow
  BY DEF IInv, Locked
<1> QED BY <1>1, Invariance, PTL

-----------------------------------------------------------------------------
(* What the watchlists promise about transactions, where requests race and *)
(* where they do not: LInv, which is inductive, adds to IInv where what is *)
(* shown comes from.                                                       *)

RecordedOf(i) == {r \in recorded : r.item = i}

\* The recorded rows that request s leaves out of its rebuild are at least the
\* one it deletes.
Kept(s) == {r \in RecordedOf(sess[s].item) : r.id # sess[s].tid}

\* Ids identify rows for ever, not only as long as they are in the table.
Recorded ==
    /\ trans \subseteq recorded
    /\ IsFiniteSet(recorded)
    /\ \A r \in recorded : r.id \in 1..(nextTrans - 1)
    /\ \A r, q \in recorded : r.id = q.id => r = q
    /\ \A s \in Sessions : sess[s].pc \in Inserted =>
         \A r \in recorded : r.id # sess[s].tid

\* What a request has computed it has computed from recorded rows.
Computed(s) ==
    /\ sess[s].pc = "computed" =>
         /\ sess[s].value = Apply(sess[s].base, sess[s].order)
         /\ \E rows \in SUBSET RecordedOf(sess[s].item) :
              sess[s].base.sih = Replay(rows).sih
    /\ sess[s].pc \in {"replayed", "loaded"} =>
         \E rows \in SUBSET Kept(s) : sess[s].value = Replay(rows)

Explained == StockIsExplained /\ \A s \in Sessions : Computed(s)

\* An item a request is about to remove is there.
Owned == \A s \in Sessions : sess[s].pc = "claimed" => item[sess[s].item].live

\* Every request that will draw a transaction id finds one below the bound.
Budget == nextTrans + Cardinality(Unnumbered) <= MaxTrans + 1

LInv == IInv /\ Recorded /\ Explained /\ Owned /\ Budget /\ RateMatchesLedger

-----------------------------------------------------------------------------
(* What steps change *)

\* The steps that change an item or its rows are the commits.
LEMMA OnlyCommits ==
  ASSUME IInv, NEW s \in Sessions, Begin(s) \/ Continue(s) \/ AbortVictim(s)
  PROVE  \/ CommitAdd(s) \/ CommitRebuild(s) \/ RemoveItem(s)
         \/ /\ item' = item /\ tracked' = tracked /\ ordered' = ordered
            /\ \A i \in Items : RowsOf(i)' = RowsOf(i)
<1>1. CASE Begin(s) \/ AbortVictim(s)
  BY <1>1 DEF Begin, LookUpItem, LookUpTrans, BeginRebuild, BeginDeleteItem,
     AbortVictim, GivesUp, Unpublished, RowsOf
<1>2. CASE InsertOrphan(s)
  <2>1. NoItem \notin Items
    BY PositionAssumption
  <2> QED BY <1>2, <2>1 DEF InsertOrphan, RowsOf, TransRow
<1>3. CASE InsertRow(s) \/ DeleteRow(s) \/ ClaimItem(s)
  BY <1>3 DEF InsertRow, DeleteRow, ClaimItem, Unpublished, RowsOf
<1>4. CASE RefreshItem(s) \/ ReplayRows(s) \/ LoadItem(s) \/ FailRebuild(s)
  BY <1>4 DEF RefreshItem, ReplayRows, LoadItem, FailRebuild, GivesUp, ReadsNow, Unpublished, RowsOf
<1> QED BY <1>1, <1>2, <1>3, <1>4 DEF Continue

\* What a committed addition changes.
LEMMA AddEffect ==
  ASSUME IInv, NEW s \in Sessions, CommitAdd(s), NEW i, i = sess[s].item,
         NEW row, row = TransRow(sess[s].tid, i, sess[s].order)
  PROVE  /\ sess[s].pc = "computed" /\ i \in Items /\ item[i].live
         /\ row.item = i /\ row.id = sess[s].tid
         /\ row \in TransRows /\ IsRow(row) /\ IsRow(sess[s].order)
         /\ Signed(row) = Signed(sess[s].order)
         /\ \A h : Apply(h, row) = Apply(h, sess[s].order)
         /\ trans' = trans \cup {row} /\ row \notin trans
         /\ \A j \in Items \ {i} : item'[j] = item[j] /\ RowsOf(j)' = RowsOf(j)
         /\ RowsOf(i)' = RowsOf(i) \cup {row}
         /\ \/ item'[i] = ItemRow(sess[s].value)
            \/ ~Dirty(s) /\ item'[i] = item[i]
<1> USE DEF IInv
<1>1. /\ sess[s].pc = "computed" /\ i \in Items /\ item[i].live
      /\ sess[s].order \in Inputs /\ sess[s].tid \in Nat
  BY DEF CommitAdd, Ready, Shaped, WellShaped, Adding, Locked, ParentsExist, TypeOK, Requests
<1>2. /\ row.item = i /\ row.id = sess[s].tid
      /\ row.kind = sess[s].order.kind /\ row.qty = sess[s].order.qty
      /\ row.rate = sess[s].order.rate /\ row.brokerage = sess[s].order.brokerage
  BY DEF TransRow
<1>3. row \in TransRows /\ IsRow(sess[s].order) /\ Signed(row) = Signed(sess[s].order)
  BY <1>1, TransRowType
<1>4. IsRow(row) /\ \A h : Apply(h, row) = Apply(h, sess[s].order)
  BY <1>2, <1>3 DEF IsRow, Apply, Buy, Sell, Turnover, Cost
<1>5. trans' = trans \cup {row} /\ row \notin trans
  BY <1>1, <1>2 DEF CommitAdd, Numbered
<1>6. \A j \in Items \ {i} : item'[j] = item[j] /\ RowsOf(j)' = RowsOf(j)
  <2>1. \A j \in Items \ {i} : item'[j] = item[j]
    BY DEF CommitAdd, TypeOK
  <2>2. \A j \in Items \ {i} : RowsOf(j)' = RowsOf(j)
    BY <1>2, <1>5 DEF RowsOf
  <2> QED BY <2>1, <2>2
<1>7. RowsOf(i)' = RowsOf(i) \cup {row}
  BY <1>2, <1>5 DEF RowsOf
<1>8. \/ item'[i] = ItemRow(sess[s].value)
      \/ ~Dirty(s) /\ item'[i] = item[i]
  BY <1>1 DEF CommitAdd, TypeOK
<1> QED BY <1>1, <1>2, <1>3, <1>4, <1>5, <1>6, <1>7, <1>8

\* What a committed rebuild changes.
LEMMA RebuildEffect ==
  ASSUME IInv, NEW s \in Sessions, CommitRebuild(s), NEW i, i = sess[s].item
  PROVE  /\ sess[s].pc = "loaded" /\ i \in Items
         /\ trans' = {q \in trans : q.id # sess[s].tid}
         /\ \A q \in trans : q.id = sess[s].tid => q.item = i
         /\ \A j \in Items \ {i} : item'[j] = item[j] /\ RowsOf(j)' = RowsOf(j)
         /\ RowsOf(i)' = Seen(s)
         /\ item'[i] = IF Dirty(s) THEN ItemRow(sess[s].value)
                                  ELSE item[i]
<1> USE DEF IInv
<1>1. /\ sess[s].pc = "loaded" /\ i \in Items
      /\ trans' = {q \in trans : q.id # sess[s].tid}
      /\ \A q \in trans : q.id = sess[s].tid => q.item = i
  BY DEF CommitRebuild, Ready, Shaped, WellShaped, Numbered, Removing
<1>2. \A j \in Items \ {i} : item'[j] = item[j] /\ RowsOf(j)' = RowsOf(j)
  <2>1. \A j \in Items \ {i} : item'[j] = item[j]
    BY DEF CommitRebuild, TypeOK
  <2> QED BY <1>1, <2>1 DEF RowsOf
<1>3. RowsOf(i)' = Seen(s)
  BY <1>1 DEF RowsOf, Seen
<1>4. item'[i] = IF Dirty(s) THEN ItemRow(sess[s].value)
                            ELSE item[i]
  BY <1>1 DEF CommitRebuild, TypeOK
<1> QED BY <1>1, <1>2, <1>3, <1>4

-----------------------------------------------------------------------------
(* The average rate *)

\* A step that changes one item at most keeps the rates right if that item's
\* rate is right after it.
LEMMA ChangeRate ==
  ASSUME IInv, RateMatchesLedger, NEW i \in Items,
         \A j \in Items \ {i} : item'[j] = item[j] /\ RowsOf(j)' = RowsOf(j),
         tracked' \subseteq tracked \cup {i}, ordered' \subseteq ordered \cup {i},
         i \in tracked' /\ i \in ordered' /\ item'[i].live
            => SameRate(item'[i].held.avg, Replay(RowsOf(i)').avg)
  PROVE  RateMatchesLedger'
BY DEF IInv, TypeOK, RateMatchesLedger

\* An addition in the order of dates averages as a rebuild would; a rebuild
\* that nobody outdated is one.
LEMMA RateStep ==
  ASSUME IInv, RateMatchesLedger, [Next]_vars
  PROVE  RateMatchesLedger'
<1> USE DEF IInv
<1>0. CASE UNCHANGED vars
  BY <1>0 DEF vars, RateMatchesLedger, RowsOf
<1> SUFFICES ASSUME NEW s \in Sessions, Begin(s) \/ Continue(s) \/ AbortVictim(s)
             PROVE  RateMatchesLedger'
  BY <1>0 DEF Next
<1>1. /\ sess[s] \in Requests
      /\ s \in fresh => Knows(s)
      /\ item \in [Items -> ItemRows]
  BY DEF TypeOK, Informed, Knows, Seen
<1>2. CASE /\ item' = item /\ tracked' = tracked /\ ordered' = ordered
           /\ \A i \in Items : RowsOf(i)' = RowsOf(i)
  BY <1>2 DEF TypeOK, RateMatchesLedger
<1>3. CASE CommitAdd(s)
  <2>0. PICK i : i = sess[s].item
    OBVIOUS
  <2> DEFINE row == TransRow(sess[s].tid, i, sess[s].order)
             rows == RowsOf(i)
  <2>1. /\ sess[s].pc = "computed" /\ i \in Items /\ item[i].live
        /\ row.item = i
        /\ IsRow(row) /\ \A h : Apply(h, row) = Apply(h, sess[s].order)
        /\ trans' = trans \cup {row} /\ row \notin trans
        /\ \A j \in Items \ {i} : item'[j] = item[j] /\ RowsOf(j)' = RowsOf(j)
        /\ RowsOf(i)' = rows \cup {row}
        /\ \/ item'[i] = ItemRow(sess[s].value)
           \/ ~Dirty(s) /\ item'[i] = item[i]
    BY <1>3, <2>0, AddEffect
  <2>2. /\ tracked' = IF s \in fresh THEN tracked ELSE tracked \ {i}
        /\ ordered' = IF IsLatest(row, rows \cup {row}) THEN ordered ELSE ordered \ {i}
    BY <1>3, <2>0 DEF CommitAdd, PublishesRow
  <2> HIDE DEF row, rows
  <2>4. ASSUME i \in tracked', i \in ordered'
        PROVE  SameRate(item'[i].held.avg, Replay(rows \cup {row}).avg)
    <3> DEFINE new == rows \cup {row}
               base == sess[s].base
               value == sess[s].value
    <3>1. s \in fresh /\ i \in tracked /\ i \in ordered /\ IsLatest(row, new)
      BY <2>2, <2>4
    <3>2. item[i] = ItemRow(base) /\ value = Apply(base, sess[s].order)
      BY <1>1, <2>0, <2>1, <3>1 DEF Knows
    <3>3. /\ base \in Holdings /\ value \in Holdings
          /\ Replay(rows) \in Holdings /\ Replay(new) \in Holdings
          /\ IsLedger(new) /\ new \ {row} = rows /\ new # {}
      <4>1. base \in Holdings /\ value \in Holdings
        BY <1>1 DEF Requests
      <4>2. rows \in SUBSET trans /\ new \in SUBSET trans'
        BY <2>1 DEF rows, RowsOf
      <4>3. IsLedger(new)
        BY <4>2, NextLedger
      <4>4. Replay(rows) \in Holdings
        BY <4>2, TransLedger
      <4>5. Replay(new) \in Holdings
        BY <4>3, ReplayType
      <4>6. new \ {row} = rows
        BY <2>1, <4>2
      <4> QED BY <4>1, <4>3, <4>4, <4>5, <4>6
    <3>4. Replay(new) = Apply(Replay(rows), row)
      <4>1. Latest(new) = row
        BY <3>1, <3>3, LatestUnique
      <4> QED BY <3>3, <4>1, ReplayUnfolds
    <3>5. SameHolding(base, Replay(rows))
      <4>1. item[i].live /\ item[i].held = base
        BY <2>1, <3>2 DEF ItemRow
      <4> QED BY <3>1, <4>1 DEF SihMatchesLedger, RateMatchesLedger, SameHolding, rows
    <3>6. SameHolding(value, Replay(new))
      <4>1. value = Apply(base, row)
        BY <2>1, <3>2
      <4> QED BY <2>1, <3>3, <3>4, <3>5, <4>1, ApplySame
    <3>7. CASE item'[i] = ItemRow(value)
      BY <3>6, <3>7 DEF ItemRow, SameHolding
    <3>8. CASE ~Dirty(s) /\ item'[i] = item[i]
      <4>1. SameRate(base.avg, value.avg) /\ SameRate(value.avg, Replay(new).avg)
        BY <3>6, <3>8 DEF Dirty, SameHolding
      <4>2. base.avg \in Rates /\ value.avg \in Rates /\ Replay(new).avg \in Rates
        BY <3>3 DEF Holdings
      <4>3. SameRate(base.avg, Replay(new).avg)
        BY <4>1, <4>2, SameRateEquivalence
      <4> QED BY <3>2, <3>8, <4>3 DEF ItemRow
    <3> QED BY <2>1, <3>7, <3>8
  <2>5. tracked' \subseteq tracked \cup {i} /\ ordered' \subseteq ordered \cup {i}
    BY <2>2
  <2> QED BY <2>1, <2>4, <2>5, ChangeRate DEF rows
<1>4. CASE CommitRebuild(s)
  <2>0. PICK i : i = sess[s].item
    OBVIOUS
  <2>1. /\ sess[s].pc = "loaded" /\ i \in Items
        /\ \A j \in Items \ {i} : item'[j] = item[j] /\ RowsOf(j)' = RowsOf(j)
        /\ RowsOf(i)' = Seen(s)
        /\ item'[i] = IF Dirty(s) THEN ItemRow(sess[s].value) ELSE item[i]
    BY <1>4, <2>0, RebuildEffect
  <2>2. /\ tracked' = IF s \in fresh THEN tracked \cup {i} ELSE tracked \ {i}
        /\ ordered' = IF s \in fresh THEN ordered \cup {i} ELSE ordered \ {i}
    BY <1>4, <2>0 DEF CommitRebuild, PublishesRebuild
  <2>3. ASSUME i \in tracked'
        PROVE  SameRate(item'[i].held.avg, Replay(RowsOf(i)').avg)
    <3>1. s \in fresh
      BY <2>2, <2>3
    <3>2. item[i] = ItemRow(sess[s].base) /\ sess[s].value = Replay(Seen(s))
      BY <1>1, <2>0, <2>1, <3>1 DEF Knows
    <3>3. CASE Dirty(s)
      <4>1. sess[s].value.avg \in Rates
        BY <1>1 DEF Requests, Holdings
      <4>2. SameRate(sess[s].value.avg, sess[s].value.avg)
        BY <4>1, SameRateEquivalence
      <4> QED BY <2>1, <3>2, <3>3, <4>2 DEF ItemRow
    <3>4. CASE ~Dirty(s)
      BY <2>1, <3>2, <3>4 DEF ItemRow, Dirty, SameHolding
    <3> QED BY <3>3, <3>4
  <2>4. tracked' \subseteq tracked \cup {i} /\ ordered' \subseteq ordered \cup {i}
    BY <2>2
  <2> QED BY <2>1, <2>3, <2>4, ChangeRate
<1>5. CASE RemoveItem(s)
  <2>0. PICK i : i = sess[s].item
    OBVIOUS
  <2>1. i \in Items /\ trans' = trans /\ tracked' = tracked /\ ordered' = ordered
    BY <1>5, <2>0 DEF RemoveItem, Ready, Shaped, WellShaped
  <2>2. /\ \A j \in Items \ {i} : item'[j] = item[j]
        /\ item'[i] = item[i] \/ ~item'[i].live
    BY <1>1, <1>5, <2>0, <2>1 DEF RemoveItem, NoRow
  <2>3. \A j \in Items : RowsOf(j)' = RowsOf(j)
    BY <2>1 DEF RowsOf
  <2>4. i \in tracked' /\ i \in ordered' /\ item'[i].live
          => SameRate(item'[i].held.avg, Replay(RowsOf(i)').avg)
    BY <2>1, <2>2, <2>3 DEF RateMatchesLedger
  <2> QED BY <2>1, <2>2, <2>3, <2>4, ChangeRate
<1> QED BY <1>2, <1>3, <1>4, <1>5, OnlyCommits

-----------------------------------------------------------------------------
(* Recorded rows *)

\* A step is one request's.
LEMMA OneMoves ==
  ASSUME IInv, NEW s \in Sessions, Begin(s) \/ Continue(s) \/ AbortVictim(s)
  PROVE  \A t \in Sessions \ {s} : sess'[t] = sess[t]
<1>1. \E r : Becomes(s, r)
  <2>1. CASE Begin(s) \/ AbortVictim(s)
    BY <2>1 DEF Begin, LookUpItem, LookUpTrans, BeginRebuild, BeginDeleteItem, AbortVictim, Finish
  <2>2. CASE Continue(s)
    BY <2>2 DEF Continue, InsertRow, InsertOrphan, RefreshItem, CommitAdd, DeleteRow, ReplayRows,
       LoadItem, CommitRebuild, FailRebuild, ClaimItem, RemoveItem, Finish
  <2> QED BY <2>1, <2>2
<1> QED BY <1>1 DEF IInv, TypeOK, Becomes

\* Where each statement takes a request.
LEMMA NextPoint ==
  ASSUME IInv, NEW s \in Sessions
  PROVE  /\ InsertRow(s) => sess'[s].pc \in {"inserted", "idle"}
         /\ RefreshItem(s) => sess'[s].pc = "computed"
         /\ DeleteRow(s) => sess'[s].pc = "replay"
         /\ ReplayRows(s) => sess'[s].pc = "replayed"
         /\ LoadItem(s) => sess'[s].pc \in {"loaded", "idle"}
         /\ ClaimItem(s) => sess'[s].pc \in {"claimed", "idle"}
         /\ InsertOrphan(s) \/ CommitAdd(s) \/ CommitRebuild(s) \/ FailRebuild(s)
               \/ RemoveItem(s) \/ AbortVictim(s) => sess'[s].pc = "idle"
<1>1. sess[s] \in Requests /\ sess \in [Sessions -> Requests]
  BY DEF IInv, TypeOK
<1>2. \A o, n : Becomes(s, Idle(o, n)) => sess'[s].pc = "idle"
  BY <1>1 DEF Becomes, Idle
<1>3. InsertRow(s) => sess'[s].pc \in {"inserted", "idle"}
  <2>1. Becomes(s, [sess[s] EXCEPT !.pc = "inserted", !.tid = nextTrans])
           => sess'[s].pc = "inserted"
    BY <1>1 DEF Becomes, Requests
  <2> QED BY <1>2, <2>1 DEF InsertRow
<1>4. RefreshItem(s) => sess'[s].pc = "computed"
  <2>1. ASSUME NEW b, NEW v, Becomes(s, [sess[s] EXCEPT !.pc = "computed", !.base = b, !.value = v])
        PROVE  sess'[s].pc = "computed"
    BY <1>1, <2>1 DEF Becomes, Requests
  <2> QED BY <2>1 DEF RefreshItem
<1>5. DeleteRow(s) => sess'[s].pc = "replay"
  <2> DEFINE n == IF \E q \in trans : q.id = sess[s].tid THEN sess[s].tid ELSE 0
  <2>1. DeleteRow(s) => Becomes(s, [sess[s] EXCEPT !.pc = "replay", !.tid = n])
    BY DEF DeleteRow
  <2> HIDE DEF n
  <2>2. Becomes(s, [sess[s] EXCEPT !.pc = "replay", !.tid = n]) => sess'[s].pc = "replay"
    BY <1>1 DEF Becomes, Requests
  <2> QED BY <2>1, <2>2
<1>6. ReplayRows(s) => sess'[s].pc = "replayed"
  <2>1. ASSUME NEW v, Becomes(s, [sess[s] EXCEPT !.pc = "replayed", !.value = v])
        PROVE  sess'[s].pc = "replayed"
    BY <1>1, <2>1 DEF Becomes, Requests
  <2> QED BY <2>1 DEF ReplayRows
<1>7. LoadItem(s) => sess'[s].pc \in {"loaded", "idle"}
  <2>1. ASSUME NEW b, Becomes(s, [sess[s] EXCEPT !.pc = "loaded", !.base = b])
        PROVE  sess'[s].pc = "loaded"
    BY <1>1, <2>1 DEF Becomes, Requests
  <2> QED BY <1>2, <2>1 DEF LoadItem, Finish
<1>8. ClaimItem(s) => sess'[s].pc \in {"claimed", "idle"}
  <2>1. Becomes(s, [sess[s] EXCEPT !.pc = "claimed"]) => sess'[s].pc = "claimed"
    BY <1>1 DEF Becomes, Requests
  <2> QED BY <1>2, <2>1 DEF ClaimItem, Finish
<1>9. InsertOrphan(s) \/ CommitAdd(s) \/ CommitRebuild(s) \/ FailRebuild(s)
         \/ RemoveItem(s) \/ AbortVictim(s) => sess'[s].pc = "idle"
  BY <1>2 DEF InsertOrphan, CommitAdd, CommitRebuild, FailRebuild, RemoveItem, AbortVictim, Finish
<1> QED BY <1>3, <1>4, <1>5, <1>6, <1>7, <1>8, <1>9

\* Steps that record no row.
LEMMA NothingRecorded ==
  ASSUME IInv, Recorded, NEW s \in Sessions, NEW r, Becomes(s, r),
         trans' \subseteq trans, recorded' = recorded,
         nextTrans' \in {nextTrans, nextTrans + 1},
         r.pc \in Inserted => \/ sess[s].pc \in Inserted /\ r.tid = sess[s].tid
                             \/ r.tid = nextTrans
  PROVE  Recorded'
<1>1. sess'[s] = r /\ \A t \in Sessions \ {s} : sess'[t] = sess[t]
  BY DEF IInv, Becomes, TypeOK
<1>2. nextTrans \in Nat /\ nextTrans <= nextTrans'
  BY DEF IInv, TypeOK
<1>3. \A q \in recorded : q.id \in 1..(nextTrans' - 1) /\ q.id # nextTrans
  BY <1>2 DEF Recorded
<1>4. ASSUME NEW t \in Sessions, sess'[t].pc \in Inserted
      PROVE  \A q \in recorded : q.id # sess'[t].tid
  BY <1>1, <1>3, <1>4 DEF Recorded
<1> QED BY <1>3, <1>4 DEF Recorded

\* A request that ends without recording a row.
LEMMA NothingRecordedFinish ==
  ASSUME IInv, Recorded, NEW s \in Sessions, NEW o, NEW n, Becomes(s, Idle(o, n)),
         trans' \subseteq trans, recorded' = recorded,
         nextTrans' \in {nextTrans, nextTrans + 1}
  PROVE  Recorded'
<1> DEFINE r == Idle(o, n)
<1>1. r.pc \notin Inserted
  BY DEF Idle, Inserted
<1> HIDE DEF r
<1>2. Becomes(s, r)
  BY DEF r
<1> QED BY <1>1, <1>2, NothingRecorded

\* The end of a request that records a row under an id of its own.
LEMMA OneRecorded ==
  ASSUME IInv, Recorded, NEW s \in Sessions, NEW row, NEW o, NEW n,
         Becomes(s, Idle(o, n)),
         row.id \in 1..(nextTrans' - 1), \A q \in recorded : q.id # row.id,
         \A t \in Sessions \ {s} : sess[t].pc \in Inserted => sess[t].tid # row.id,
         trans' = trans \cup {row}, recorded' = recorded \cup {row},
         nextTrans' \in {nextTrans, nextTrans + 1}
  PROVE  Recorded'
<1>1. /\ sess'[s].pc \notin Inserted
      /\ \A t \in Sessions \ {s} : sess'[t] = sess[t]
  BY DEF IInv, Becomes, TypeOK, Idle, Inserted
<1>2. nextTrans \in Nat /\ nextTrans <= nextTrans'
  BY DEF IInv, TypeOK
<1>3. IsFiniteSet(recorded')
  BY FS_AddElement DEF Recorded
<1>4. \A q \in recorded' : q.id \in 1..(nextTrans' - 1)
  BY <1>2 DEF Recorded
<1>5. \A t \in Sessions : sess'[t].pc \in Inserted => \A q \in recorded' : q.id # sess'[t].tid
  BY <1>1 DEF Recorded
<1>6. \A q, p \in recorded' : q.id = p.id => q = p
  BY DEF Recorded
<1>7. trans' \subseteq recorded'
  BY DEF Recorded
<1> QED BY <1>3, <1>4, <1>5, <1>6, <1>7 DEF Recorded

\* Every row is recorded once, under an id no other row ever has.
LEMMA RecordedStep ==
  ASSUME IInv, Recorded, [Next]_vars
  PROVE  Recorded'
<1>0. CASE UNCHANGED vars
  BY <1>0 DEF vars, Recorded
<1> SUFFICES ASSUME NEW s \in Sessions, Begin(s) \/ Continue(s) \/ AbortVictim(s)
             PROVE  Recorded'
  BY <1>0 DEF Next
<1>1. /\ sess[s] \in Requests /\ sess \in [Sessions -> Requests]
      /\ nextTrans \in Nat /\ 0 < nextTrans
      /\ \A t \in Sessions : sess[t].tid \in Nat /\ sess[t].tid < nextTrans
  BY DEF IInv, TypeOK, Numbered, Requests
<1>2. CASE Begin(s)
  <2>1. ASSUME NEW p \in {"found", "missing", "chosen", "replay", "removing"}, NEW i, NEW o,
               NEW n, Becomes(s, Start(p, i, o, n)), UNCHANGED <<trans, nextTrans, recorded>>
        PROVE  Recorded'
    <3> DEFINE r == Start(p, i, o, n)
    <3>1. r.pc \notin Inserted
      BY DEF Start, Inserted
    <3> HIDE DEF r
    <3>2. Becomes(s, r)
      BY <2>1 DEF r
    <3> QED BY <1>1, <2>1, <3>1, <3>2, NothingRecorded
  <2>2. ASSUME NEW slot \in Slots, NEW o \in Inputs, LookUpItem(s, slot, o) PROVE Recorded'
    BY <2>1, <2>2 DEF LookUpItem, Unpublished
  <2>3. ASSUME NEW n \in 1..MaxTrans, LookUpTrans(s, n) PROVE Recorded'
    BY <1>1, <2>1, <2>3, NothingRecordedFinish DEF LookUpTrans, Finish, Unpublished
  <2>4. ASSUME NEW i \in Items, BeginRebuild(s, i) \/ BeginDeleteItem(s, i) PROVE Recorded'
    BY <2>1, <2>4 DEF BeginRebuild, BeginDeleteItem, Unpublished
  <2> QED BY <1>2, <2>2, <2>3, <2>4 DEF Begin
<1>3. CASE InsertRow(s)
  <2>1. ASSUME Becomes(s, [sess[s] EXCEPT !.pc = "inserted", !.tid = nextTrans])
        PROVE  Recorded'
    <3> DEFINE r == [sess[s] EXCEPT !.pc = "inserted", !.tid = nextTrans]
    <3>1. r.tid = nextTrans
      BY <1>1 DEF Requests
    <3> HIDE DEF r
    <3>2. Becomes(s, r)
      BY <2>1 DEF r
    <3> QED BY <1>1, <1>3, <3>1, <3>2, NothingRecorded DEF InsertRow, Unpublished
  <2> QED BY <1>1, <1>3, <2>1, NothingRecordedFinish DEF InsertRow, Unpublished
<1>4. CASE InsertOrphan(s)
  <2> DEFINE row == TransRow(nextTrans, NoItem, sess[s].order)
  <2>1. CASE recorded' = recorded /\ trans' = trans
    BY <1>1, <1>4, <2>1, NothingRecordedFinish DEF InsertOrphan
  <2>2. CASE recorded' = recorded \cup {row} /\ trans' = trans \cup {row}
    <3>1. row.id = nextTrans
      BY DEF TransRow
    <3> HIDE DEF row
    <3>2. \A q \in recorded : q.id # row.id
      BY <1>1, <3>1 DEF Recorded
    <3>3. \A t \in Sessions \ {s} : sess[t].tid # row.id
      BY <1>1, <3>1
    <3>4. row.id \in 1..(nextTrans' - 1) /\ nextTrans' = nextTrans + 1
      BY <1>1, <1>4, <3>1 DEF InsertOrphan
    <3> QED BY <1>4, <2>2, <3>2, <3>3, <3>4, OneRecorded DEF InsertOrphan
  <2> QED BY <1>4, <2>1, <2>2 DEF InsertOrphan
<1>5. CASE CommitAdd(s)
  <2> DEFINE row == TransRow(sess[s].tid, sess[s].item, sess[s].order)
  <2>1. /\ sess[s].pc \in Inserted /\ nextTrans' = nextTrans
        /\ trans' = trans \cup {row} /\ recorded' = recorded \cup {row}
        /\ Becomes(s, Idle("added", sess[s].tid))
    BY <1>5 DEF CommitAdd, Ready, Inserted, PublishesRow
  <2>2. row.id = sess[s].tid
    BY DEF TransRow
  <2> HIDE DEF row
  <2>3. row.id \in 1..(nextTrans' - 1)
    BY <1>1, <2>1, <2>2 DEF IInv, Numbered, Inserted
  <2>4. \A q \in recorded : q.id # row.id
    BY <2>1, <2>2 DEF Recorded
  <2>5. \A t \in Sessions \ {s} : sess[t].pc \in Inserted => sess[t].tid # row.id
    BY <2>1, <2>2 DEF IInv, Numbered, Inserted
  <2> QED BY <2>1, <2>3, <2>4, <2>5, OneRecorded
<1>6. CASE RefreshItem(s)
  <2> DEFINE h == item[sess[s].item].held
             v == Apply(h, sess[s].order)
             r == [sess[s] EXCEPT !.pc = "computed", !.base = h, !.value = v]
  <2>1. Becomes(s, r) /\ sess[s].pc \in Inserted /\ UNCHANGED <<trans, nextTrans, recorded>>
    BY <1>6 DEF RefreshItem, Inserted, ReadsNow
  <2> HIDE DEF v
  <2>2. r.tid = sess[s].tid
    BY <1>1 DEF Requests
  <2> HIDE DEF r
  <2> QED BY <2>1, <2>2, NothingRecorded
<1>7. ASSUME NEW p \in {"replay", "replayed", "loaded", "claimed"}, NEW r, r.pc = p,
             Becomes(s, r), UNCHANGED <<trans, nextTrans, recorded>>
      PROVE  Recorded'
  <2>1. r.pc \notin Inserted
    BY <1>7 DEF Inserted
  <2> QED BY <1>7, <2>1, NothingRecorded
<1>8. CASE DeleteRow(s)
  <2> DEFINE n == IF \E q \in trans : q.id = sess[s].tid THEN sess[s].tid ELSE 0
             r == [sess[s] EXCEPT !.pc = "replay", !.tid = n]
  <2>1. Becomes(s, r) /\ UNCHANGED <<trans, nextTrans, recorded>>
    BY <1>8 DEF DeleteRow, Unpublished
  <2> HIDE DEF n
  <2>2. r.pc = "replay"
    BY <1>1 DEF Requests
  <2> HIDE DEF r
  <2> QED BY <1>7, <2>1, <2>2
<1>9. CASE ReplayRows(s)
  <2> DEFINE v == Replay({q \in RowsOf(sess[s].item) : q.id # sess[s].tid})
             r == [sess[s] EXCEPT !.pc = "replayed", !.value = v]
  <2>1. Becomes(s, r) /\ UNCHANGED <<trans, nextTrans, recorded>>
    BY <1>9 DEF ReplayRows, ReadsNow
  <2> HIDE DEF v
  <2>2. r.pc = "replayed"
    BY <1>1 DEF Requests
  <2> HIDE DEF r
  <2> QED BY <1>7, <2>1, <2>2
<1>10. CASE LoadItem(s)
  <2>1. ASSUME Becomes(s, [sess[s] EXCEPT !.pc = "loaded", !.base = item[sess[s].item].held]),
               Unpublished
        PROVE  Recorded'
    <3> DEFINE r == [sess[s] EXCEPT !.pc = "loaded", !.base = item[sess[s].item].held]
    <3>1. r.pc = "loaded"
      BY <1>1 DEF Requests
    <3> HIDE DEF r
    <3>2. Becomes(s, r)
      BY <2>1 DEF r
    <3> QED BY <1>7, <1>10, <2>1, <3>1, <3>2 DEF LoadItem, Unpublished
  <2> QED BY <1>10, <2>1, NothingRecordedFinish DEF LoadItem, Finish, GivesUp
<1>11. CASE CommitRebuild(s)
  BY <1>1, <1>11, NothingRecordedFinish DEF CommitRebuild, Finish, PublishesRebuild
<1>12. CASE FailRebuild(s) \/ RemoveItem(s) \/ AbortVictim(s)
  BY <1>12, NothingRecordedFinish DEF FailRebuild, RemoveItem, AbortVictim, Finish, GivesUp
<1>13. CASE ClaimItem(s)
  <2>1. ASSUME Becomes(s, [sess[s] EXCEPT !.pc = "claimed"])
        PROVE  Recorded'
    <3> DEFINE r == [sess[s] EXCEPT !.pc = "claimed"]
    <3>1. r.pc = "claimed"
      BY <1>1 DEF Requests
    <3> HIDE DEF r
    <3>2. Becomes(s, r)
      BY <2>1 DEF r
    <3> QED BY <1>7, <1>13, <3>1, <3>2 DEF ClaimItem, Unpublished
  <2> QED BY <1>13, <2>1, NothingRecordedFinish DEF ClaimItem, Finish, Unpublished
<1> QED BY <1>2, <1>3, <1>4, <1>5, <1>6, <1>8, <1>9, <1>10, <1>11, <1>12, <1>13 DEF Continue

-----------------------------------------------------------------------------
(* Stock in hand and recorded rows *)

\* Nothing recorded is forgotten.
LEMMA RecordedGrows ==
  ASSUME IInv, [Next]_vars
  PROVE  recorded \subseteq recorded'
<1>0. CASE UNCHANGED vars
  BY <1>0 DEF vars
<1> SUFFICES ASSUME NEW s \in Sessions, Begin(s) \/ Continue(s) \/ AbortVictim(s)
             PROVE  recorded \subseteq recorded'
  BY <1>0 DEF Next
<1>1. CASE Begin(s) \/ AbortVictim(s)
  BY <1>1 DEF Begin, LookUpItem, LookUpTrans, BeginRebuild, BeginDeleteItem,
     AbortVictim, GivesUp, Unpublished
<1>2. CASE Continue(s)
  BY <1>2 DEF Continue, InsertRow, InsertOrphan, RefreshItem, CommitAdd, PublishesRow, DeleteRow,
     ReplayRows, LoadItem, CommitRebuild, PublishesRebuild, FailRebuild, ClaimItem, RemoveItem,
     GivesUp, ReadsNow, Unpublished
<1> QED BY <1>1, <1>2

\* A step keeps what another request has computed.
LEMMA ComputedStays ==
  ASSUME NEW t, Computed(t), sess'[t] = sess[t], recorded \subseteq recorded'
  PROVE  Computed(t)'
<1>1. RecordedOf(sess[t].item) \subseteq RecordedOf(sess[t].item)'
  BY DEF RecordedOf
<1>2. Kept(t) \subseteq Kept(t)'
  BY DEF Kept, RecordedOf
<1>3. /\ SUBSET RecordedOf(sess[t].item) \subseteq SUBSET RecordedOf(sess[t].item)'
      /\ SUBSET Kept(t) \subseteq SUBSET Kept(t)'
  BY <1>1, <1>2
<1> QED BY <1>3 DEF Computed

\* The recorded rows form a ledger.
LEMMA RecordedLedger ==
  ASSUME IInv, Recorded, NEW R \in SUBSET recorded
  PROVE  IsLedger(R)
<1>1. IsLedger(recorded)
  BY DEF IInv, TypeOK, Recorded, TransRows, IsLedger
<1> QED BY <1>1, SubLedger

\* What a request computes, it computes from recorded rows.
LEMMA ComputedStep ==
  ASSUME IInv, Recorded, Explained, [Next]_vars
  PROVE  \A s \in Sessions : Computed(s)'
<1> USE DEF IInv
<1>0. CASE UNCHANGED vars
  BY <1>0 DEF vars, Explained, Computed, Kept, RecordedOf
<1> SUFFICES ASSUME NEW s \in Sessions, Begin(s) \/ Continue(s) \/ AbortVictim(s)
             PROVE  \A t \in Sessions : Computed(t)'
  BY <1>0 DEF Next
<1>1. \A t \in Sessions \ {s} : Computed(t)'
  BY OneMoves, RecordedGrows, ComputedStays DEF Explained
<1>2. /\ sess[s] \in Requests /\ sess \in [Sessions -> Requests]
      /\ Computed(s)
  BY DEF TypeOK, Explained
<1> SUFFICES Computed(s)'
  BY <1>1
<1>3. CASE Begin(s)
  BY <1>2, <1>3 DEF Begin, LookUpItem, LookUpTrans, BeginRebuild, BeginDeleteItem, Finish,
     Becomes, Idle, Start, Computed
<1>4. CASE AbortVictim(s) \/ (Continue(s) /\ ~RefreshItem(s) /\ ~ReplayRows(s) /\ ~LoadItem(s))
  <2>1. sess'[s].pc \notin {"computed", "replayed", "loaded"}
    BY <1>4, NextPoint DEF Continue
  <2> QED BY <2>1 DEF Computed
<1>5. CASE RefreshItem(s)
  <2> DEFINE h == item[sess[s].item].held
             v == Apply(h, sess[s].order)
             r == [sess[s] EXCEPT !.pc = "computed", !.base = h, !.value = v]
  <2>1. Becomes(s, r) /\ sess[s].pc = "inserted" /\ recorded' = recorded
    BY <1>5 DEF RefreshItem, ReadsNow
  <2>2. sess[s].item \in Items /\ item[sess[s].item].live
    BY <2>1 DEF Shaped, WellShaped, Locked, ParentsExist
  <2>3. PICK rows \in SUBSET RecordedOf(sess[s].item) : h.sih = Replay(rows).sih
    BY <2>2 DEF Explained, StockIsExplained, RecordedOf
  <2> HIDE DEF v
  <2>4. sess'[s] = r
    BY <1>2, <2>1 DEF Becomes
  <2>5. /\ sess'[s].pc = "computed" /\ sess'[s].item = sess[s].item
        /\ sess'[s].base = h /\ sess'[s].value = v /\ sess'[s].order = sess[s].order
    BY <1>2, <2>4 DEF Requests
  <2> HIDE DEF r, h
  <2>6. RecordedOf(sess[s].item)' = RecordedOf(sess[s].item)
    BY <2>1, <2>5 DEF RecordedOf
  <2> QED BY <2>3, <2>5, <2>6 DEF Computed, v
<1>6. CASE ReplayRows(s)
  <2> DEFINE rows == Seen(s)
             r == [sess[s] EXCEPT !.pc = "replayed", !.value = Replay(rows)]
  <2>1. Becomes(s, r) /\ recorded' = recorded
    BY <1>6 DEF ReplayRows, ReadsNow, Seen
  <2>2. rows \subseteq Kept(s)
    BY DEF Seen, Kept, RowsOf, RecordedOf, Recorded
  <2> HIDE DEF rows
  <2>3. sess'[s] = r
    BY <1>2, <2>1 DEF Becomes
  <2>4. /\ sess'[s].pc = "replayed" /\ sess'[s].item = sess[s].item
        /\ sess'[s].value = Replay(rows) /\ sess'[s].tid = sess[s].tid
    BY <1>2, <2>3 DEF Requests
  <2> HIDE DEF r
  <2>5. Kept(s)' = Kept(s)
    BY <2>1, <2>4 DEF Kept, RecordedOf
  <2> QED BY <2>2, <2>4, <2>5 DEF Computed
<1>7. CASE LoadItem(s)
  <2>1. CASE sess'[s].pc = "idle"
    BY <2>1 DEF Computed
  <2>2. CASE sess'[s] = [sess[s] EXCEPT !.pc = "loaded", !.base = item[sess[s].item].held]
    <3>1. /\ sess'[s].pc = "loaded" /\ sess'[s].item = sess[s].item
          /\ sess'[s].value = sess[s].value /\ sess'[s].tid = sess[s].tid
      BY <1>2, <2>2 DEF Requests
    <3>2. recorded' = recorded /\ sess[s].pc = "replayed"
      BY <1>7 DEF LoadItem, GivesUp, Unpublished
    <3>3. Kept(s)' = Kept(s)
      BY <3>1, <3>2 DEF Kept, RecordedOf
    <3> QED BY <1>2, <3>1, <3>2, <3>3 DEF Computed
  <2> QED BY <1>2, <1>7, <2>1, <2>2 DEF LoadItem, Becomes, Finish, Idle
<1> QED BY <1>3, <1>4, <1>5, <1>6, <1>7 DEF Continue

\* A stock in hand that is written is the sum of recorded rows, if not of those
\* that are there.
LEMMA ExplainedStep ==
  ASSUME IInv, Recorded, Explained, [Next]_vars
  PROVE  Explained'
<1> USE DEF IInv
<1>0. recorded \subseteq recorded'
  BY RecordedGrows
<1>1. \A i \in Items : SUBSET RecordedOf(i) \subseteq SUBSET (RecordedOf(i)')
  BY <1>0 DEF RecordedOf
<1>2. ASSUME NEW i \in Items, item'[i] = item[i], item'[i].live
      PROVE  \E rows \in SUBSET (RecordedOf(i)') : item'[i].held.sih = Replay(rows).sih
  <2>1. \E rows \in SUBSET RecordedOf(i) : item[i].held.sih = Replay(rows).sih
    BY <1>2 DEF Explained, StockIsExplained, RecordedOf
  <2> QED BY <1>1, <1>2, <2>1
<1>3. ASSUME NEW s \in Sessions, Begin(s) \/ Continue(s) \/ AbortVictim(s),
             NEW i \in Items, item'[i].live
      PROVE  \E rows \in SUBSET (RecordedOf(i)') : item'[i].held.sih = Replay(rows).sih
  <2>1. CASE item' = item
    BY <1>2, <1>3, <2>1
  <2>2. CASE CommitAdd(s)
    <3>0. PICK j : j = sess[s].item
      OBVIOUS
    <3> DEFINE row == TransRow(sess[s].tid, j, sess[s].order)
    <3>1. /\ sess[s].pc = "computed" /\ j \in Items
          /\ row.item = j /\ row.id = sess[s].tid
          /\ IsRow(sess[s].order) /\ Signed(row) = Signed(sess[s].order)
          /\ \A k \in Items \ {j} : item'[k] = item[k]
          /\ item'[j] = ItemRow(sess[s].value) \/ item'[j] = item[j]
      BY <2>2, <3>0, AddEffect
    <3>2. recorded' = recorded \cup {row}
      BY <2>2, <3>0 DEF CommitAdd, PublishesRow
    <3>3. IsLedger(recorded')
      <4>1. TypeOK' /\ Recorded'
        BY TypeStep, RecordedStep
      <4> QED BY <4>1 DEF TypeOK, Recorded, TransRows, IsLedger
    <3> HIDE DEF row
    <3>4. CASE i = j /\ item'[j] = ItemRow(sess[s].value)
      <4>1. PICK rows \in SUBSET RecordedOf(j) : sess[s].base.sih = Replay(rows).sih
        BY <3>0, <3>1 DEF Explained, Computed
      <4> DEFINE new == rows \cup {row}
      <4>2. row \notin rows
        BY <3>1 DEF RecordedOf, Recorded, Inserted
      <4>3. new \in SUBSET (RecordedOf(j)')
        BY <3>1, <3>2 DEF RecordedOf
      <4>4. Replay(new).sih = Replay(rows).sih + Signed(row)
        <5>1. IsLedger(new)
          BY <3>2, <3>3, SubLedger DEF RecordedOf
        <5>2. new \ {row} = rows
          BY <4>2
        <5> QED BY <5>1, <5>2, ReplayAdds
      <4>5. sess[s].value.sih = sess[s].base.sih + Signed(row)
        <5>1. sess[s].base \in Holdings
          BY DEF TypeOK, Requests
        <5>2. sess[s].value = Apply(sess[s].base, sess[s].order)
          BY <3>1 DEF Explained, Computed
        <5> QED BY <3>1, <5>1, <5>2, ApplyType
      <4>6. item'[i].held.sih = Replay(new).sih
        BY <3>4, <4>1, <4>4, <4>5 DEF ItemRow
      <4> QED BY <3>4, <4>3, <4>6
    <3> QED BY <1>2, <1>3, <3>1, <3>4
  <2>3. CASE CommitRebuild(s)
    <3>0. PICK j : j = sess[s].item
      OBVIOUS
    <3>1. /\ sess[s].pc = "loaded" /\ j \in Items
          /\ \A k \in Items \ {j} : item'[k] = item[k]
          /\ item'[j] = IF Dirty(s) THEN ItemRow(sess[s].value) ELSE item[j]
      BY <2>3, <3>0, RebuildEffect
    <3>2. CASE i = j /\ item'[j] = ItemRow(sess[s].value)
      <4>1. PICK rows \in SUBSET Kept(s) : sess[s].value = Replay(rows)
        BY <3>1 DEF Explained, Computed
      <4>2. rows \in SUBSET (RecordedOf(i)')
        BY <1>1, <3>0, <3>2 DEF Kept
      <4> QED BY <3>2, <4>1, <4>2 DEF ItemRow
    <3> QED BY <1>2, <1>3, <3>1, <3>2
  <2>4. CASE RemoveItem(s)
    <3>1. item'[i] = item[i]
      BY <1>3, <2>4 DEF RemoveItem, NoRow, TypeOK
    <3> QED BY <1>2, <1>3, <3>1
  <2> QED BY <1>3, <2>1, <2>2, <2>3, <2>4, OnlyCommits
<1>4. StockIsExplained'
  <2>1. CASE UNCHANGED vars
    BY <1>2, <2>1 DEF vars, StockIsExplained, RecordedOf
  <2> QED BY <1>3, <2>1 DEF Next, StockIsExplained, RecordedOf
<1> QED BY <1>4, ComputedStep DEF Explained

-----------------------------------------------------------------------------
(* Removals and ids *)

\* The item a request has locked for removal is removed by nobody else.
LEMMA OwnedStep ==
  ASSUME IInv, Owned, [Next]_vars
  PROVE  Owned'
<1> USE DEF IInv
<1>0. CASE UNCHANGED vars
  BY <1>0 DEF vars, Owned
<1> SUFFICES ASSUME NEW s \in Sessions, Begin(s) \/ Continue(s) \/ AbortVictim(s),
                    NEW t \in Sessions, sess'[t].pc = "claimed"
             PROVE  item'[sess'[t].item].live
  BY <1>0 DEF Next, Owned
<1>1. \A u \in Sessions \ {s} : sess'[u] = sess[u]
  BY OneMoves
<1>2. /\ sess[s] \in Requests /\ sess \in [Sessions -> Requests]
      /\ item \in [Items -> ItemRows]
  BY DEF TypeOK
<1>3. CASE CommitAdd(s) \/ CommitRebuild(s)
  <2>1. sess'[s].pc = "idle"
    BY <1>3, NextPoint
  <2>2. sess[t].pc = "claimed" /\ sess'[t] = sess[t] /\ item[sess[t].item].live
        /\ sess[t].item \in Items
    BY <1>1, <2>1 DEF Owned, Shaped, WellShaped
  <2>3. \A i \in Items : item[i].live => item'[i].live
    BY <1>2, <1>3 DEF CommitAdd, CommitRebuild, ItemRow
  <2> QED BY <2>2, <2>3
<1>4. CASE RemoveItem(s)
  <2>1. sess'[s].pc = "idle" /\ sess[s].pc = "claimed"
    BY <1>4, NextPoint DEF RemoveItem, Ready
  <2>2. /\ t # s /\ sess[t].pc = "claimed" /\ sess'[t] = sess[t]
        /\ item[sess[t].item].live /\ sess[t].item \in Items
    BY <1>1, <2>1 DEF Owned, Shaped, WellShaped
  <2>3. sess[t].item # sess[s].item
    BY <2>1, <2>2 DEF Locked
  <2>4. item'[sess[t].item] = item[sess[t].item]
    <3>1. item' = item \/ item' = [item EXCEPT ![sess[s].item] = NoRow]
      BY <1>4 DEF RemoveItem
    <3> QED BY <1>2, <2>2, <2>3, <3>1
  <2> QED BY <2>2, <2>4
<1>5. CASE item' = item /\ ~ClaimItem(s)
  <2>1. t # s
    <3> SUFFICES sess'[s].pc # "claimed"
      OBVIOUS
    <3>1. CASE Begin(s) \/ AbortVictim(s)
      BY <1>2, <3>1 DEF Begin, LookUpItem, LookUpTrans, BeginRebuild, BeginDeleteItem,
         AbortVictim, Finish, Becomes, Start, Idle
    <3>2. CASE Continue(s)
      BY <1>5, <3>2, NextPoint DEF Continue
    <3> QED BY <1>5, <3>1, <3>2
  <2> QED BY <1>1, <1>5, <2>1 DEF Owned
<1>6. CASE ClaimItem(s)
  <2>1. item' = item
    BY <1>6 DEF ClaimItem
  <2>2. CASE t = s
    <3>1. item[sess[s].item].live /\ sess'[s] = [sess[s] EXCEPT !.pc = "claimed"]
      BY <1>2, <1>6, <2>2 DEF ClaimItem, Becomes, Finish, Idle
    <3>2. sess'[s].item = sess[s].item
      BY <1>2, <3>1 DEF Requests
    <3> QED BY <2>1, <2>2, <3>1, <3>2
  <2>3. CASE t # s
    BY <1>1, <2>1, <2>3 DEF Owned
  <2> QED BY <2>2, <2>3
<1> QED BY <1>3, <1>4, <1>5, <1>6, OnlyCommits

\* Every request that has found its item, or found none, will find an id below
\* the bound: the guard that bounds the sequence counts those on their way.
LEMMA BudgetStep ==
  ASSUME IInv, Budget, [Next]_vars
  PROVE  Budget'
<1> USE DEF IInv
<1>1. IsFiniteSet(Unnumbered) /\ Cardinality(Unnumbered) \in Nat
  <2>1. IsFiniteSet(Unnumbered)
    BY PositionAssumption, FS_Subset DEF Unnumbered
  <2> QED BY <2>1, FS_CardinalityType
<1>2. nextTrans \in Nat /\ MaxTrans \in Nat
  BY PositionAssumption DEF TypeOK
<1>3. ASSUME Unnumbered' \subseteq Unnumbered, nextTrans' = nextTrans
      PROVE  Budget'
  <2>1. Cardinality(Unnumbered') <= Cardinality(Unnumbered) /\ Cardinality(Unnumbered') \in Nat
    BY <1>1, <1>3, FS_Subset, FS_CardinalityType
  <2> QED BY <1>1, <1>2, <1>3, <2>1 DEF Budget
<1>4. CASE UNCHANGED vars
  BY <1>3, <1>4 DEF vars, Unnumbered
<1> SUFFICES ASSUME NEW s \in Sessions, Begin(s) \/ Continue(s) \/ AbortVictim(s)
             PROVE  Budget'
  BY <1>4 DEF Next
<1>5. \A u \in Sessions \ {s} : sess'[u] = sess[u]
  BY OneMoves
<1>6. sess[s] \in Requests /\ sess \in [Sessions -> Requests]
  BY DEF TypeOK
<1>7. ASSUME sess'[s].pc \notin {"found", "missing"}, nextTrans' = nextTrans
      PROVE  Budget'
  <2>1. Unnumbered' \subseteq Unnumbered
    BY <1>5, <1>7 DEF Unnumbered
  <2> QED BY <1>3, <1>7, <2>1
<1>8. ASSUME NEW slot \in Slots, NEW o \in Inputs, LookUpItem(s, slot, o)
      PROVE  Budget'
  <2>1. s \notin Unnumbered /\ Unnumbered' = Unnumbered \cup {s}
    BY <1>5, <1>6, <1>8 DEF LookUpItem, Unnumbered, Becomes, Start
  <2>2. Cardinality(Unnumbered') = Cardinality(Unnumbered) + 1
    BY <1>1, <2>1, FS_AddElement
  <2>3. nextTrans' = nextTrans /\ nextTrans + Cardinality(Unnumbered) <= MaxTrans
    BY <1>8 DEF LookUpItem
  <2> QED BY <1>1, <1>2, <2>2, <2>3 DEF Budget
<1>9. CASE InsertRow(s) \/ InsertOrphan(s)
  <2>1. sess[s].pc \in {"found", "missing"} /\ nextTrans' = nextTrans + 1
    BY <1>9 DEF InsertRow, InsertOrphan, Ready
  <2>2. sess'[s].pc \notin {"found", "missing"}
    BY <1>9, NextPoint
  <2>3. s \in Unnumbered /\ Unnumbered' = Unnumbered \ {s}
    BY <1>5, <2>1, <2>2 DEF Unnumbered
  <2>4. Cardinality(Unnumbered') = Cardinality(Unnumbered) - 1
    BY <1>1, <2>3, FS_RemoveElement
  <2> QED BY <1>1, <1>2, <2>1, <2>4 DEF Budget
<1>10. CASE Begin(s)
  <2>1. ASSUME NEW n \in 1..MaxTrans, LookUpTrans(s, n) PROVE Budget'
    BY <1>6, <1>7, <2>1 DEF LookUpTrans, Finish, Becomes, Start, Idle
  <2>2. ASSUME NEW i \in Items, BeginRebuild(s, i) \/ BeginDeleteItem(s, i) PROVE Budget'
    BY <1>6, <1>7, <2>2 DEF BeginRebuild, BeginDeleteItem, Becomes, Start
  <2> QED BY <1>8, <1>10, <2>1, <2>2 DEF Begin
<1>11. CASE AbortVictim(s) \/ (Continue(s) /\ ~InsertRow(s) /\ ~InsertOrphan(s))
  <2>1. sess'[s].pc \notin {"found", "missing"}
    BY <1>11, NextPoint DEF Continue
  <2>2. nextTrans' = nextTrans
    BY <1>11 DEF Continue, RefreshItem, CommitAdd, DeleteRow, ReplayRows, LoadItem,
       CommitRebuild, FailRebuild, ClaimItem, RemoveItem, AbortVictim
  <2> QED BY <1>7, <2>1, <2>2
<1> QED BY <1>9, <1>10, <1>11

-----------------------------------------------------------------------------
(* Invariants *)

\* Before any request nothing is recorded, and nothing needs to be.
LEMMA InitLedger ==
  Init => LInv
<1> SUFFICES ASSUME Init PROVE LInv
  OBVIOUS
<1>1. IInv
  BY InitInv
<1> USE PositionAssumption DEF Init
<1>2. \A s \in Sessions : sess[s].pc = "idle"
  BY DEF Idle
<1>3. Recorded
  BY <1>2, FS_EmptySet DEF Recorded, Inserted
<1>4. Explained
  <2>1. {} \in SUBSET {r \in recorded : TRUE}
    OBVIOUS
  <2>2. StockIsExplained
    BY <2>1, ReplayEmpty DEF StockIsExplained, ItemRow
  <2> QED BY <1>2, <2>2 DEF Explained, Computed
<1>5. Owned
  BY <1>2 DEF Owned
<1>6. Budget
  <2>1. Unnumbered = {}
    BY <1>2 DEF Unnumbered
  <2> QED BY <2>1, FS_EmptySet DEF Budget
<1>7. RateMatchesLedger
  BY ReplayEmpty DEF RateMatchesLedger, RowsOf, ItemRow, NoStock, ZeroRate, SameRate
<1> QED BY <1>1, <1>3, <1>4, <1>5, <1>6, <1>7 DEF LInv

\* LInv is inductive.
LEMMA LedgerStep ==
  LInv /\ [Next]_vars => LInv'
BY InvStep, RecordedStep, ExplainedStep, OwnedStep, BudgetStep, RateStep DEF LInv

\* LInv holds in every reachable state.
LEMMA LedgerInvariance ==
  Spec => []LInv
BY InitLedger, LedgerStep, PTL DEF Spec

\* For any number of concurrent requests, items and transactions: the average
\* buying rate is what a rebuild would compute, where no request wrote it from
\* an outdated read and the transactions were added in the order of their dates,
\* whether or not it is finite.
THEOREM RateCorrect == Spec => []RateMatchesLedger
<1>1. LInv => RateMatchesLedger
  BY DEF LInv
<1> QED BY <1>1, LedgerInvariance, PTL

\* Whatever races, whether or not the parent lock blocks updates: a stock in
\* hand never counts a transaction twice or one nobody recorded.
THEOREM StockExplained == Spec => []StockIsExplained
<1>1. LInv => StockIsExplained
  BY DEF LInv, Explained
<1> QED BY <1>1, LedgerInvariance, PTL

-----------------------------------------------------------------------------
(* Position implements Ledger *)

\* Ledger computes with its own instance of Holding: the same arithmetic.
LEMMA SameArithmetic ==
  /\ Committed!NoStock = NoStock
  /\ \A h, o : Committed!Apply(h, o) = Apply(h, o)
  /\ \A g, h : Committed!SameHolding(g, h) = SameHolding(g, h)
  /\ \A rows : Committed!Replay(rows) = Replay(rows)
<1>1. Committed!NoStock = NoStock
  BY DEF Committed!NoStock, Committed!ZeroRate, NoStock, ZeroRate
<1>2. ASSUME NEW h, NEW o PROVE Committed!Apply(h, o) = Apply(h, o)
  BY DEF Committed!Apply, Committed!Buy, Committed!Sell, Committed!Turnover, Committed!Cost,
     Committed!Divide, Committed!ZeroRate, Apply, Buy, Sell, Turnover, Cost, Divide, ZeroRate
<1>3. ASSUME NEW g, NEW h PROVE Committed!SameHolding(g, h) = SameHolding(g, h)
  BY DEF Committed!SameHolding, Committed!SameRate, Committed!Sign, SameHolding, SameRate, Sign
<1>4. ASSUME NEW rows PROVE Committed!Replay(rows) = Replay(rows)
  <2>1. ASSUME NEW S PROVE Committed!Latest(S) = Latest(S)
    BY DEF Committed!Latest, Committed!IsLatest, Committed!Before, Latest, IsLatest, Before
  <2> QED BY <1>1, <1>2, <2>1 DEF Committed!Replay, Replay
<1> QED BY <1>1, <1>2, <1>3, <1>4

\* The steps that Ledger shows are the commits.
LEMMA OthersStutter ==
  ASSUME NEW s \in Sessions, Begin(s) \/ Continue(s) \/ AbortVictim(s)
  PROVE  \/ CommitAdd(s) \/ CommitRebuild(s) \/ RemoveItem(s) \/ InsertOrphan(s)
         \/ UNCHANGED <<item, trans, recorded>>
<1>1. CASE Begin(s) \/ AbortVictim(s)
  BY <1>1 DEF Begin, LookUpItem, LookUpTrans, BeginRebuild, BeginDeleteItem,
     AbortVictim, GivesUp, Unpublished
<1>2. CASE Continue(s)
  BY <1>2 DEF Continue, InsertRow, RefreshItem, DeleteRow, ReplayRows, LoadItem, FailRebuild,
     ClaimItem, GivesUp, ReadsNow, Unpublished
<1> QED BY <1>1, <1>2

\* Ids that are drawn stay below the bound.
LEMMA IdsInBound ==
  ASSUME IInv, Budget
  PROVE  /\ nextTrans - 1 <= MaxTrans
         /\ \A s \in Unnumbered : nextTrans <= MaxTrans
<1>1. IsFiniteSet(Unnumbered)
  BY PositionAssumption, FS_Subset DEF Unnumbered
<1>2. Cardinality(Unnumbered) \in Nat /\ nextTrans \in Nat /\ MaxTrans \in Nat
  BY <1>1, PositionAssumption, FS_CardinalityType DEF IInv, TypeOK
<1>3. ASSUME NEW s \in Unnumbered PROVE Cardinality(Unnumbered) # 0
  BY <1>1, FS_EmptySet
<1> QED BY <1>2, <1>3 DEF Budget

\* An orphan is recorded in one step.
LEMMA OrphanMaps ==
  ASSUME LInv, NEW s \in Sessions, InsertOrphan(s)
  PROVE  Committed!LedgerNext \/ UNCHANGED <<item, trans, recorded>>
<1> DEFINE row == TransRow(nextTrans, NoItem, sess[s].order)
<1>1. CASE trans' = trans /\ recorded' = recorded
  BY <1>1 DEF InsertOrphan
<1>2. CASE trans' = trans \cup {row} /\ recorded' = recorded \cup {row}
  <2>1. row \in Entries
    <3>1. nextTrans \in 1..MaxTrans
      BY IdsInBound, PositionAssumption DEF LInv, IInv, TypeOK, InsertOrphan, Unnumbered
    <3>2. sess[s].order \in Inputs
      BY DEF LInv, IInv, Shaped, WellShaped, Adding, InsertOrphan
    <3> QED BY <3>1, <3>2 DEF Entries
  <2>2. row.item = NoItem /\ row.id = nextTrans
    BY DEF TransRow
  <2> HIDE DEF row
  <2>3. Committed!Unused(row)
    BY <2>2 DEF LInv, Recorded, IInv, TypeOK, Committed!Unused
  <2>4. Committed!RecordOrphan(row)
    BY <1>2, <2>2, <2>3 DEF InsertOrphan, Committed!RecordOrphan
  <2> QED BY <2>1, <2>4 DEF Committed!LedgerNext
<1> QED BY <1>1, <1>2 DEF InsertOrphan

\* The commit of an addition is its one step: nobody has written the row since
\* the request refreshed it.
LEMMA AddMaps ==
  ASSUME ForShare, LInv, NEW s \in Sessions, CommitAdd(s)
  PROVE  Committed!LedgerNext
<1> USE DEF LInv
<1>0. PICK i : i = sess[s].item
  OBVIOUS
<1> DEFINE row == TransRow(sess[s].tid, i, sess[s].order)
<1>1. /\ sess[s].pc = "computed" /\ i \in Items /\ item[i].live
      /\ row.item = i /\ row.id = sess[s].tid
      /\ \A h : Apply(h, row) = Apply(h, sess[s].order)
      /\ trans' = trans \cup {row}
  BY <1>0, AddEffect
<1>2. recorded' = recorded \cup {row}
  BY <1>0 DEF CommitAdd, PublishesRow
<1>3. row \in Entries
  <2>1. sess[s].tid \in 1..MaxTrans
    BY <1>1, IdsInBound, PositionAssumption DEF IInv, TypeOK, Numbered, Requests
  <2>2. sess[s].order \in Inputs
    BY <1>1 DEF IInv, Shaped, WellShaped, Adding
  <2> QED BY <1>1, <2>1, <2>2 DEF Entries
<1> HIDE DEF row
<1>4. Committed!Unused(row)
  BY <1>1 DEF Recorded, Inserted, Committed!Unused
<1>5. sess[s].base = item[i].held /\ sess[s].value = Apply(sess[s].base, sess[s].order)
  BY <1>0, <1>1 DEF IInv, Locked, AddsSeeCurrentRow, Explained, Computed
<1>6. sess[s].value = Apply(item[i].held, row)
  BY <1>1, <1>5
<1>7. \/ Committed!Shows(i, Apply(item[i].held, row))
      \/ SameHolding(item[i].held, Apply(item[i].held, row)) /\ UNCHANGED item
  <2>1. PICK dirty \in {TRUE, Dirty(s)} :
               item' = [item EXCEPT ![i] = IF dirty THEN ItemRow(sess[s].value) ELSE @]
    BY <1>0 DEF CommitAdd
  <2>2. CASE dirty
    BY <1>6, <2>1, <2>2 DEF Committed!Shows, ItemRow
  <2>3. CASE ~dirty
    <3>1. SameHolding(item[i].held, Apply(item[i].held, row))
      BY <1>5, <1>6, <2>1, <2>3 DEF Dirty
    <3>2. item' = item
      BY <2>1, <2>3 DEF IInv, TypeOK
    <3> QED BY <3>1, <3>2
  <2> QED BY <2>2, <2>3
<1>8. Committed!Record(i, row)
  BY <1>1, <1>2, <1>4, <1>7, SameArithmetic DEF Committed!Record
<1> QED BY <1>1, <1>3, <1>8 DEF Committed!LedgerNext

\* So is the commit of a rebuild, which shows the replay of recorded rows.
LEMMA RebuildMaps ==
  ASSUME LInv, NEW s \in Sessions, CommitRebuild(s)
  PROVE  Committed!LedgerNext
<1> USE DEF LInv
<1>0. PICK i : i = sess[s].item
  OBVIOUS
<1> DEFINE gone == {q \in trans : q.id = sess[s].tid}
<1>1. /\ sess[s].pc = "loaded" /\ i \in Items
      /\ trans' = {q \in trans : q.id # sess[s].tid}
      /\ \A q \in trans : q.id = sess[s].tid => q.item = i
  BY <1>0, RebuildEffect
<1>2. /\ gone \in SUBSET trans /\ gone \subseteq Committed!Of(i, trans)
      /\ \A r, t \in gone : r = t
      /\ trans' = trans \ gone
  BY <1>1 DEF IInv, Numbered, Committed!Of
<1>3. \/ \E rows \in SUBSET (Committed!Of(i, recorded) \ gone) :
            item[i].live /\ Committed!Shows(i, Replay(rows))
      \/ UNCHANGED item
  <2>1. CASE Dirty(s)
    <3>1. item[i].live /\ item' = [item EXCEPT ![i] = ItemRow(sess[s].value)]
      BY <1>0, <2>1 DEF CommitRebuild
    <3>2. PICK rows \in SUBSET Kept(s) : sess[s].value = Replay(rows)
      BY <1>1 DEF Explained, Computed
    <3>3. rows \in SUBSET (Committed!Of(i, recorded) \ gone)
      BY <1>0, <3>2 DEF Kept, RecordedOf, Committed!Of
    <3> QED BY <3>1, <3>2, <3>3 DEF Committed!Shows, ItemRow
  <2>2. CASE ~Dirty(s)
    BY <2>2 DEF CommitRebuild, IInv, TypeOK
  <2> QED BY <2>1, <2>2
<1>4. recorded' = recorded
  BY DEF CommitRebuild, PublishesRebuild
<1> HIDE DEF gone
<1>5. Committed!Rebuild(i, gone)
  BY <1>2, <1>3, <1>4, SameArithmetic DEF Committed!Rebuild
<1> QED BY <1>1, <1>2, <1>5 DEF Committed!LedgerNext

\* So is the commit of an item's removal.
LEMMA RemoveMaps ==
  ASSUME LInv, NEW s \in Sessions, RemoveItem(s)
  PROVE  Committed!LedgerNext \/ UNCHANGED <<item, trans, recorded>>
<1>0. PICK i : i = sess[s].item
  OBVIOUS
<1>1. i \in Items /\ item[i].live /\ UNCHANGED <<trans, recorded>>
  BY <1>0 DEF LInv, IInv, Owned, Shaped, WellShaped, RemoveItem, Ready
<1>2. CASE RowsOf(i) = {} /\ item' = [item EXCEPT ![i] = NoRow]
  <2>1. Committed!Remove(i)
    BY <1>1, <1>2, SameArithmetic DEF Committed!Remove, Committed!Of, RowsOf, NoRow
  <2> QED BY <1>1, <2>1 DEF Committed!LedgerNext
<1>3. CASE item' = item
  BY <1>1, <1>3
<1> QED BY <1>0, <1>2, <1>3 DEF RemoveItem

\* Seen from outside, every request is one step of Ledger, whatever the
\* interleaving, where an insertion's lock on its parent blocks updates.
THEOREM LedgerImplemented ==
  ASSUME ForShare
  PROVE  Spec => ImplementsLedger
<1>1. Init => Committed!LedgerInit
  BY SameArithmetic DEF Init, ItemRow, Committed!LedgerInit
<1>2. LInv /\ [Next]_vars => [Committed!LedgerNext]_(Committed!ledgerVars)
  <2> SUFFICES ASSUME LInv, [Next]_vars
               PROVE  Committed!LedgerNext \/ UNCHANGED <<item, trans, recorded>>
    BY DEF Committed!ledgerVars
  <2>1. CASE UNCHANGED vars
    BY <2>1 DEF vars
  <2>2. ASSUME NEW s \in Sessions, Begin(s) \/ Continue(s) \/ AbortVictim(s)
        PROVE  Committed!LedgerNext \/ UNCHANGED <<item, trans, recorded>>
    BY <2>2, OthersStutter, OrphanMaps, AddMaps, RebuildMaps, RemoveMaps
  <2> QED BY <2>1, <2>2 DEF Next
<1> QED BY <1>1, <1>2, LedgerInvariance, PTL DEF Spec, ImplementsLedger, Committed!LedgerSpec
=============================================================================
