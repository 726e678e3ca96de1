---------------------------- MODULE SamplerProofs ----------------------------
(***************************************************************************)
(* Facts about the operators of Sampler, for every number of masks and     *)
(* steps and every row.                                                    *)
(***************************************************************************)
EXTENDS Sampler, FiniteSetTheorems, TLAPS

\* Integer division, in the form the proofs below use.
LEMMA DivMod ==
  ASSUME NEW a \in Nat, NEW b \in Nat \ {0}
  PROVE  /\ a = b * (a \div b) + (a % b)
         /\ a % b \in 0 .. b - 1
         /\ a \div b \in Nat
  OBVIOUS

\* Every step of a schedule commits a number of tokens.
LEMMA ScheduleType ==
  ASSUME NEW m \in Nat, NEW steps \in Nat \ {0}
  PROVE  TransferSchedule(m, steps) \in [0 .. steps - 1 -> Nat]
  BY DivMod DEF TransferSchedule

\* A schedule starts with all the masks to commit ...
LEMMA BudgetStart ==
  ASSUME NEW m \in Nat, NEW steps \in Nat \ {0}
  PROVE  Budget(m, steps, 0) = m
  <1> DEFINE q == m \div steps
             t == m % steps
  <1>1. m = steps * q + t /\ t \in 0 .. steps - 1 /\ q \in Nat
    BY DivMod
  <1>2. (steps - 0) * q = steps * q
    BY <1>1
  <1>3. (IF 0 < t THEN t - 0 ELSE 0) = t
    BY <1>1
  <1> QED
    BY <1>1, <1>2, <1>3 DEF Budget

\* ... each step takes its commits off ...
LEMMA BudgetStep ==
  ASSUME NEW m \in Nat, NEW steps \in Nat \ {0}, NEW i \in 0 .. steps - 1
  PROVE  /\ Budget(m, steps, i) = TransferSchedule(m, steps)[i] + Budget(m, steps, i + 1)
         /\ Budget(m, steps, i + 1) \in Nat
  <1> DEFINE q == m \div steps
             t == m % steps
  <1>1. t \in 0 .. steps - 1 /\ q \in Nat
    BY DivMod
  <1>2. TransferSchedule(m, steps)[i] = q + (IF i < t THEN 1 ELSE 0)
    BY DEF TransferSchedule
  <1> HIDE DEF q, t
  <1>3. /\ (steps - i) * q = (steps - (i + 1)) * q + q
        /\ (steps - (i + 1)) * q \in Nat
    BY <1>1
  <1>4. (IF i < t THEN t - i ELSE 0)
          = (IF i < t THEN 1 ELSE 0) + (IF i + 1 < t THEN t - (i + 1) ELSE 0)
    BY <1>1
  <1>5. (IF i + 1 < t THEN t - (i + 1) ELSE 0) \in Nat
    BY <1>1
  <1>6. /\ Budget(m, steps, i) = (steps - i) * q + (IF i < t THEN t - i ELSE 0)
        /\ Budget(m, steps, i + 1)
             = (steps - (i + 1)) * q + (IF i + 1 < t THEN t - (i + 1) ELSE 0)
    BY DEF Budget, q, t
  <1> DEFINE x == (steps - (i + 1)) * q
             y == IF i + 1 < t THEN t - (i + 1) ELSE 0
             z == IF i < t THEN 1 ELSE 0
  <1>7. /\ Budget(m, steps, i) = (x + q) + (z + y)
        /\ Budget(m, steps, i + 1) = x + y
        /\ TransferSchedule(m, steps)[i] = q + z
    BY <1>2, <1>3, <1>4, <1>6
  <1>8. x \in Nat /\ y \in Nat /\ z \in Nat /\ q \in Nat
    BY <1>1, <1>3, <1>5
  <1> HIDE DEF x, y, z
  <1> QED
    BY <1>7, <1>8

\* ... and after the last one there is nothing left to commit.
LEMMA BudgetEnd ==
  ASSUME NEW m \in Nat, NEW steps \in Nat \ {0}
  PROVE  Budget(m, steps, steps) = 0
  <1>1. m % steps \in 0 .. steps - 1 /\ m \div steps \in Nat
    BY DivMod
  <1>2. (steps - steps) * (m \div steps) = 0
    BY <1>1
  <1> QED
    BY <1>1, <1>2 DEF Budget

\* A step never commits more than all the masks ...
LEMMA ScheduleBound ==
  ASSUME NEW m \in Nat, NEW steps \in Nat \ {0}, NEW i \in 0 .. steps - 1
  PROVE  TransferSchedule(m, steps)[i] <= m
  <1>1. m = Budget(m, steps, 0)
    BY BudgetStart
  <1> DEFINE q == m \div steps
             t == m % steps
  <1>2. m = steps * q + t /\ t \in 0 .. steps - 1 /\ q \in Nat
    BY DivMod
  <1>3. TransferSchedule(m, steps)[i] = q + (IF i < t THEN 1 ELSE 0)
    BY DEF TransferSchedule
  <1> HIDE DEF q, t
  <1>4. q <= steps * q
    BY <1>2
  <1>5. (IF i < t THEN 1 ELSE 0) \in Nat /\ (IF i < t THEN 1 ELSE 0) <= t
    BY <1>2
  <1>6. steps * q \in Nat
    BY <1>2
  <1> QED
    BY <1>2, <1>3, <1>4, <1>5, <1>6

\* ... and once nothing is left to commit, the steps that remain commit nothing.
LEMMA NothingLeft ==
  ASSUME NEW m \in Nat, NEW steps \in Nat \ {0}, NEW i \in 0 .. steps,
         Budget(m, steps, i) = 0, NEW j \in i .. steps - 1
  PROVE  TransferSchedule(m, steps)[j] = 0
  <1> DEFINE q == m \div steps
             t == m % steps
  <1>1. t \in 0 .. steps - 1 /\ q \in Nat
    BY DivMod
  <1>2. TransferSchedule(m, steps)[j] = q + (IF j < t THEN 1 ELSE 0)
    BY DEF TransferSchedule
  <1>3. (steps - i) * q + (IF i < t THEN t - i ELSE 0) = 0
    BY DEF Budget
  <1> HIDE DEF q, t
  <1>4. steps - i \in Nat \ {0} /\ j \in Nat /\ i <= j
    OBVIOUS
  <1>5. (steps - i) * q \in Nat /\ (steps - i) * q >= q
    BY <1>1, <1>4
  <1>6. q = 0 /\ ~(i < t)
    BY <1>1, <1>3, <1>4, <1>5
  <1> QED
    BY <1>1, <1>2, <1>4, <1>6

-----------------------------------------------------------------------------
\* Counting by an injection.
LEMMA CountByInjection ==
  ASSUME NEW S, NEW T, IsFiniteSet(T), NEW f \in [S -> T],
         \A a, b \in S : f[a] = f[b] => a = b
  PROVE  /\ IsFiniteSet(S)
         /\ Cardinality(S) <= Cardinality(T)
  <1>1. f \in Injection(S, T)
    BY DEF Injection, IsInjective
  <1> QED
    BY <1>1, FS_Injection

\* Counting by injections both ways.
LEMMA SameCount ==
  ASSUME NEW S, NEW T, IsFiniteSet(S), IsFiniteSet(T),
         NEW f \in [S -> T], \A a, b \in S : f[a] = f[b] => a = b,
         NEW g \in [T -> S], \A a, b \in T : g[a] = g[b] => a = b
  PROVE  Cardinality(S) = Cardinality(T)
  <1>1. Cardinality(S) <= Cardinality(T) /\ Cardinality(T) <= Cardinality(S)
    BY CountByInjection
  <1>2. Cardinality(S) \in Nat /\ Cardinality(T) \in Nat
    BY FS_CardinalityType
  <1> QED
    BY <1>1, <1>2

\* A finite set has subsets of every smaller size.
LEMMA SubsetOfSize ==
  ASSUME NEW S, IsFiniteSet(S), NEW n \in Nat, n <= Cardinality(S)
  PROVE  \E T \in SUBSET S : IsFiniteSet(T) /\ Cardinality(T) = n
  <1>1. Cardinality(S) \in Nat /\ ExistsBijection(1 .. Cardinality(S), S)
    BY FS_CardinalityType
  <1>2. PICK f \in Bijection(1 .. Cardinality(S), S) : TRUE
    BY <1>1 DEF ExistsBijection
  <1>3. /\ f \in [1 .. Cardinality(S) -> S]
        /\ \A a, b \in 1 .. Cardinality(S) : f[a] = f[b] => a = b
    BY <1>2 DEF Bijection, Injection, IsInjective
  <1> DEFINE T == {f[a] : a \in 1 .. n}
             g == [a \in 1 .. n |-> f[a]]
  <1>4. 1 .. n \subseteq 1 .. Cardinality(S)
    BY <1>1
  <1>5. T \in SUBSET S
    BY <1>3, <1>4
  <1>6. g \in [1 .. n -> T]
    OBVIOUS
  <1>7. \A a, b \in 1 .. n : g[a] = g[b] => a = b
    BY <1>3, <1>4
  <1>8. \A y \in T : \E a \in 1 .. n : g[a] = y
    OBVIOUS
  <1> HIDE DEF T, g
  <1>9. g \in Bijection(1 .. n, T)
    BY <1>6, <1>7, <1>8 DEF Bijection, Injection, Surjection, IsInjective
  <1>10. IsFiniteSet(1 .. n) /\ Cardinality(1 .. n) = n
    BY FS_Interval
  <1>11. IsFiniteSet(T) /\ Cardinality(T) = n
    BY <1>9, <1>10, FS_Bijection DEF ExistsBijection
  <1> QED
    BY <1>5, <1>11

\* topk leaves no finite position out, or takes all its k from them.
LEMMA TopKCovers ==
  ASSUME NEW positions, IsFiniteSet(positions),
         NEW finite \in SUBSET positions,
         NEW k \in Nat, NEW C \in TopK(positions, finite, k)
  PROVE  /\ C \subseteq positions
         /\ IsFiniteSet(finite \ C)
         /\ \/ finite \ C = {}
            \/ Cardinality(finite \ C) = Cardinality(finite) - k
  <1>1. C \subseteq positions /\ Cardinality(C) = k
    BY DEF TopK, kSubset
  <1>2. IsFiniteSet(finite) /\ IsFiniteSet(C) /\ IsFiniteSet(finite \ C)
    BY <1>1, FS_Subset
  <1>3. CASE finite \subseteq C
    BY <1>1, <1>2, <1>3
  <1>4. CASE C \subseteq finite
    <2>1. finite \cap C = C
      BY <1>4
    <2>2. Cardinality(finite \ C) = Cardinality(finite) - Cardinality(finite \cap C)
      BY <1>2, FS_Difference
    <2> QED
      BY <1>1, <1>2, <2>1, <2>2
  <1> QED
    BY <1>3, <1>4 DEF TopK

\* Both commit rules write a topk set, LocalLeap perhaps more.
LEMMA CommitsCoverTopK ==
  ASSUME NEW positions, NEW finite \in SUBSET positions, NEW k, NEW radius,
         NEW W, W \in TopKCommits(positions, finite, k)
                   \cup LeapCommits(positions, finite, k, radius)
  PROVE  \E C \in TopK(positions, finite, k) : C \subseteq W
  <1>1. CASE W \in TopKCommits(positions, finite, k)
    BY <1>1 DEF TopKCommits
  <1>2. CASE W \in LeapCommits(positions, finite, k, radius)
    <2>1. PICK C \in TopK(positions, finite, k) :
            W \in {C \cup E : E \in SUBSET Neighbours(C \cap finite, finite, radius)}
      BY <1>2 DEF LeapCommits
    <2> QED
      BY <2>1
  <1> QED
    BY <1>1, <1>2
=============================================================================
