------------------------------ MODULE RowProofs -------------------------------
(***************************************************************************)
(* Proofs about DenoiseLoop that follow one row through its batches: the   *)
(* step a batch makes of it is a step the row could have made alone.       *)
(***************************************************************************)
EXTENDS DenoiseLoopProofs

-----------------------------------------------------------------------------
(***************************************************************************)
(* What a commit is, position by position.                                 *)
(***************************************************************************)

\* t is s with predictions at the masked positions of W.
Writes(s, W, temperature, t) ==
  /\ t = [x \in DOMAIN s |-> t[x]]
  /\ \A x \in DOMAIN s :
       IF x \in W /\ s[x] = Mask THEN t[x] \in Predictions(temperature) ELSE t[x] = s[x]

\* The positions LocalLeap may add to the set C that topk returned.
Leaps(C, finite, leap, radius) ==
  IF leap THEN Neighbours(C \cap finite, finite, radius) ELSE {}

\* A commit overwrites the masks of a topk set and of some leaps from it.
LEMMA CommitsAre ==
  ASSUME NEW s, NEW k, NEW end, NEW leap, NEW radius, NEW temperature, NEW t
  PROVE  t \in Commits(s, k, end, leap, radius, temperature) <=>
           \E C \in TopK(DOMAIN s, FinitePositions(s, end), k) :
           \E E \in SUBSET Leaps(C, FinitePositions(s, end), leap, radius) :
             Writes(s, C \cup E, temperature, t)
  <1> DEFINE finite == FinitePositions(s, end)
             chosen == IF leap THEN LeapCommits(DOMAIN s, finite, k, radius)
                               ELSE TopKCommits(DOMAIN s, finite, k)
             pred == Predictions(temperature)
  <1>1. t \in Commits(s, k, end, leap, radius, temperature)
          <=> \E W \in chosen : t \in CommitAt(s, W, temperature)
    BY DEF Commits
  <1>2. \A W : W \in chosen <=>
          \E C \in TopK(DOMAIN s, finite, k) :
          \E E \in SUBSET Leaps(C, finite, leap, radius) : W = C \cup E
    <2> HIDE DEF finite
    <2>1. CASE leap
      <3>1. chosen = UNION {{C \cup E : E \in SUBSET Neighbours(C \cap finite, finite, radius)} :
                              C \in TopK(DOMAIN s, finite, k)}
        BY <2>1 DEF LeapCommits
      <3>2. \A C : Leaps(C, finite, leap, radius) = Neighbours(C \cap finite, finite, radius)
        BY <2>1 DEF Leaps
      <3> HIDE DEF chosen
      <3>3. \A W : W \in chosen <=>
              \E C \in TopK(DOMAIN s, finite, k) :
                W \in {C \cup E : E \in SUBSET Neighbours(C \cap finite, finite, radius)}
        BY <3>1
      <3>4. \A W, C :
              W \in {C \cup E : E \in SUBSET Neighbours(C \cap finite, finite, radius)}
                <=> \E E \in SUBSET Leaps(C, finite, leap, radius) : W = C \cup E
        BY <3>2
      <3> DEFINE tops == TopK(DOMAIN s, finite, k)
                 member(W, C) == \E E \in SUBSET Leaps(C, finite, leap, radius) : W = C \cup E
      <3>5. \A W, C :
              W \in {C \cup E : E \in SUBSET Neighbours(C \cap finite, finite, radius)}
                <=> member(W, C)
        BY <3>4
      <3>6. \A W : W \in chosen <=> \E C \in tops : member(W, C)
        <4> HIDE DEF member
        <4> QED
          BY <3>3, <3>5
      <3> QED
        BY <3>6
    <2>2. CASE ~leap
      BY <2>2 DEF TopKCommits, Leaps
    <2> QED
      BY <2>1, <2>2
  <1>3. finite \subseteq DOMAIN s
    BY DEF FinitePositions, MaskedIn
  <1>4. ASSUME NEW C \in TopK(DOMAIN s, finite, k),
               NEW E \in SUBSET Leaps(C, finite, leap, radius)
        PROVE  C \cup E \subseteq DOMAIN s
    <2> HIDE DEF finite
    <2> QED
      BY <1>3, <1>4 DEF TopK, kSubset, Leaps, Neighbours
  <1>5. ASSUME NEW W, W \subseteq DOMAIN s
        PROVE  t \in CommitAt(s, W, temperature) <=> Writes(s, W, temperature, t)
    <2>1. ASSUME t \in CommitAt(s, W, temperature) PROVE Writes(s, W, temperature, t)
      <3>1. PICK x0 \in [MaskedIn(s, W) -> pred] :
              t = [x \in DOMAIN s |-> IF x \in DOMAIN x0 THEN x0[x] ELSE s[x]]
        BY <2>1 DEF CommitAt
      <3>2. \A x : x \in DOMAIN x0 <=> x \in W /\ s[x] = Mask
        BY DEF MaskedIn
      <3> HIDE DEF pred
      <3>3. \A x \in DOMAIN x0 : x0[x] \in pred
        OBVIOUS
      <3>4. \A x \in DOMAIN s : t[x] = IF x \in DOMAIN x0 THEN x0[x] ELSE s[x]
        BY <3>1
      <3>5. t = [x \in DOMAIN s |-> t[x]]
        BY <3>1
      <3> QED
        BY <3>2, <3>3, <3>4, <3>5 DEF Writes, pred
    <2>2. ASSUME Writes(s, W, temperature, t) PROVE t \in CommitAt(s, W, temperature)
      <3> DEFINE x0 == [x \in MaskedIn(s, W) |-> t[x]]
      <3>1. \A x : x \in DOMAIN x0 <=> x \in W /\ s[x] = Mask
        BY DEF MaskedIn
      <3>2. \A x \in MaskedIn(s, W) : t[x] \in pred
        BY <1>5, <2>2 DEF Writes, MaskedIn
      <3>3. x0 \in [MaskedIn(s, W) -> pred]
        BY <3>2
      <3>4. \A x \in DOMAIN s : t[x] = IF x \in DOMAIN x0 THEN x0[x] ELSE s[x]
        BY <2>2, <3>1 DEF Writes
      <3>5. t = [x \in DOMAIN s |-> t[x]]
        BY <2>2 DEF Writes
      <3>6. t = [x \in DOMAIN s |-> IF x \in DOMAIN x0 THEN x0[x] ELSE s[x]]
        <4> HIDE DEF x0
        <4> QED
          BY <3>4, <3>5
      <3> HIDE DEF x0, pred
      <3> QED
        BY <3>3, <3>6 DEF CommitAt, pred
    <2> QED
      BY <2>1, <2>2
  <1> HIDE DEF chosen, pred, finite
  <1> QED
    BY <1>1, <1>2, <1>4, <1>5 DEF finite

-----------------------------------------------------------------------------
(***************************************************************************)
(* The step of a row in a batch is a step of the row alone: the padding    *)
(* moves the ranking with it, and every commit topk may spend on a pad, it *)
(* may as well spend on a token of the row's own block.                    *)
(***************************************************************************)
LEMMA RowStepAlone ==
  ASSUME NEW r \in Rows, NEW leader \in Rows, NEW maxPromptLen, NEW maxTotal,
         RowFits(r, maxPromptLen, maxTotal), params[leader] \in ValidParams,
         blockIdx[r] \in Nat, blockIdx[r] < NumBlocks(params[r]),
         schedule[r][stepInBlock[r]] \in 0 .. BlockLength(params[r]),
         NEW new \in RowResults(r, leader, maxPromptLen, maxTotal)
  PROVE  new \in Commits(seq[r], schedule[r][stepInBlock[r]],
                         BlockEnd(params[r], blockIdx[r]),
                         params[leader].leap, params[leader].radius,
                         params[leader].temperature)
  <1> DEFINE p == params[r]
             b == blockIdx[r]
             s == seq[r]
             k == schedule[r][stepInBlock[r]]
             end == BlockEnd(p, b)
             o == Offset(r, maxPromptLen)
             c == Padded(r, maxPromptLen, maxTotal)
             D == 0 .. maxTotal - 1
             P == Positions(p)
             F == FinitePositions(s, end)
             Fc == FinitePositions(c, o + end)
             leap == params[leader].leap
             radius == params[leader].radius
             temp == params[leader].temperature
  <1>1. /\ p \in ValidParams
        /\ s \in [P -> Token]
        /\ maxTotal \in Nat
        /\ BlockLength(p) \in Nat
        /\ k \in Nat /\ k <= BlockLength(p)
        /\ end \in Nat
        /\ Block(p, b) \subseteq P
        /\ \A x \in Block(p, b) : x < end
        /\ IsFiniteSet(Block(p, b))
        /\ Cardinality(Block(p, b)) = BlockLength(p)
    <2>1. p \in ValidParams /\ s \in [P -> Token] /\ maxTotal \in Nat
      BY DEF RowFits
    <2>2. BlockLength(p) \in Nat \ {0}
      BY <2>1, Shape
    <2>3. BlockStart(p, b) \in Nat /\ end = BlockStart(p, b) + BlockLength(p)
      BY <2>1, BlockBounds
    <2>4. /\ Block(p, b) \subseteq P
          /\ IsFiniteSet(Block(p, b))
          /\ Cardinality(Block(p, b)) = BlockLength(p)
      BY <2>1, BlockFinite
    <2>5. \A x \in Block(p, b) : x < end
      <3>1. Block(p, b) = BlockStart(p, b) .. end - 1
        BY DEF Block
      <3> HIDE DEF end, p, b
      <3> QED
        BY <2>2, <2>3, <3>1
    <2>6. k \in Nat /\ k <= BlockLength(p)
      BY <2>2
    <2>7. end \in Nat
      BY <2>2, <2>3
    <2> HIDE DEF p, b, s, end, P, k
    <2> QED
      BY <2>1, <2>2, <2>4, <2>5, <2>6, <2>7
  <1>2. (\A x \in P : x \in Int) /\ IsFiniteSet(P) /\ IsFiniteSet(D)
    <2>1. TotalLen(p) \in Nat /\ maxTotal \in Nat
      BY <1>1, Shape
    <2>2. P = 0 .. TotalLen(p) - 1
      BY DEF Positions
    <2> HIDE DEF P, p
    <2> QED
      BY <2>1, <2>2, PrefixFinite
  <1>3. /\ o \in Nat
        /\ DOMAIN c = D
        /\ \A x \in P : x + o \in D /\ c[x + o] = s[x]
        /\ \A y \in D : c[y] = Mask => y - o \in P
    BY Padding
  <1>4. PICK canvas \in Commits(c, k, o + end, leap, radius, temp) :
          new = Unpadded(r, maxPromptLen, canvas)
    BY DEF RowResults
  <1>5. new = [x \in P |-> canvas[x + o]]
    BY <1>4 DEF Unpadded
  <1>6. PICK C \in TopK(D, Fc, k) :
           \E E \in SUBSET Leaps(C, Fc, leap, radius) : Writes(c, C \cup E, temp, canvas)
    <2> HIDE DEF c, k, end, o, D, leap, radius, temp, Fc
    <2>1. \E C \in TopK(D, FinitePositions(c, o + end), k) :
          \E E \in SUBSET Leaps(C, FinitePositions(c, o + end), leap, radius) :
            Writes(c, C \cup E, temp, canvas)
      BY <1>3, <1>4, CommitsAre
    <2> QED
      BY <2>1 DEF Fc
  <1>7. PICK E \in SUBSET Leaps(C, Fc, leap, radius) : Writes(c, C \cup E, temp, canvas)
    BY <1>6
  <1>8. /\ \A x \in F : x \in P /\ s[x] = Mask /\ x < end
        /\ \A x \in P : s[x] = Mask /\ x < end => x \in F
    BY <1>1 DEF FinitePositions, MaskedIn
  <1>9. /\ \A y \in Fc : y \in D /\ c[y] = Mask /\ y < o + end
        /\ \A y \in D : c[y] = Mask /\ y < o + end => y \in Fc
    BY <1>3 DEF FinitePositions, MaskedIn
  <1>10. /\ C \subseteq D /\ Cardinality(C) = k
         /\ C \subseteq Fc \/ Fc \subseteq C
    BY DEF TopK, kSubset
  <1>11. \A y \in E : y \in Leaps(C, Fc, leap, radius)
    OBVIOUS
  <1>12. /\ \A y \in D : y \in C \cup E /\ c[y] = Mask => canvas[y] \in Predictions(temp)
         /\ \A y \in D : ~(y \in C \cup E /\ c[y] = Mask) => canvas[y] = c[y]
    BY <1>3, <1>7 DEF Writes
  <1>13. k \in Nat /\ end \in Nat /\ radius \in Nat
    BY <1>1, Shape DEF ParamType
  <1> DEFINE M == {x \in P : x + o \in C /\ s[x] = Mask}
             U == {x \in P : s[x] # Mask}
             E2 == {x \in P : x + o \in E}
  <1> HIDE DEF p, b, s, k, end, o, c, D, P, F, Fc, leap, radius, temp
  \* Columns and positions: the finite ones are the same.
  <1>14. ASSUME NEW y \in Fc PROVE y - o \in F /\ (y - o) + o = y /\ y \in Int
    <2>1. y \in D /\ c[y] = Mask /\ y < o + end /\ y \in Int
      BY <1>9 DEF D
    <2>2. y - o \in P /\ (y - o) + o = y /\ y - o < end
      BY <1>3, <1>13, <2>1
    <2>3. s[y - o] = Mask
      BY <1>3, <2>1, <2>2
    <2> QED
      BY <1>8, <2>1, <2>2, <2>3
  <1>15. ASSUME NEW x \in F PROVE x + o \in Fc
    <2>1. /\ x \in P /\ s[x] = Mask
          /\ x < end /\ x \in Int
      BY <1>2, <1>8
    <2>2. x + o \in D /\ c[x + o] = Mask /\ x + o < o + end
      BY <1>3, <1>13, <2>1
    <2> QED
      BY <1>9, <2>2
  <1>16. /\ IsFiniteSet(C) /\ IsFiniteSet(M) /\ IsFiniteSet(U)
         /\ Cardinality(M) \in Nat /\ Cardinality(U) \in Nat
    BY <1>2, <1>10, FS_Subset, FS_CardinalityType
  <1>17. Cardinality(M) <= k
    <2> DEFINE f == [x \in M |-> x + o]
    <2>1. f \in [M -> C]
      OBVIOUS
    <2>2. \A x, z \in M : x \in Int /\ z \in Int /\ f[x] = x + o /\ f[z] = z + o
      BY <1>2
    <2> HIDE DEF f, M
    <2>3. \A x, z \in M : f[x] = f[z] => x = z
      BY <1>3, <2>2
    <2> QED
      BY <1>10, <1>16, <2>1, <2>3, CountByInjection
  \* The topk set of the row alone: the masks, and fillers instead of pads.
  <1>18. PICK Z \in SUBSET U :
           /\ IsFiniteSet(Z)
           /\ Cardinality(Z) = k - Cardinality(M)
           /\ M \cup Z \subseteq F \/ F \subseteq M
    <2>1. CASE C \subseteq Fc
      <3> DEFINE f == [x \in M |-> x + o]
                 g == [y \in C |-> y - o]
      <3>1. f \in [M -> C] /\ \A x, z \in M : f[x] = f[z] => x = z
        <4>1. f \in [M -> C]
          OBVIOUS
        <4>2. \A x, z \in M : x \in Int /\ z \in Int /\ f[x] = x + o /\ f[z] = z + o
          BY <1>2
        <4> HIDE DEF f, M
        <4> QED
          BY <1>3, <4>1, <4>2
      <3>2. \A y \in C : y - o \in M
        BY <1>8, <1>14, <2>1
      <3>3. g \in [C -> M] /\ \A y, z \in C : g[y] = g[z] => y = z
        <4>1. \A y \in C : y \in Int
          BY <1>14, <2>1
        <4> QED
          BY <1>3, <3>2, <4>1
      <3>4. Cardinality(M) = Cardinality(C)
        <4> HIDE DEF f, g, M
        <4> QED
          BY <1>16, <3>1, <3>3, SameCount
      <3>5. M \subseteq F
        <4> SUFFICES ASSUME NEW x \in M PROVE x \in F
          OBVIOUS
        <4>1. x + o \in Fc /\ x \in Int
          BY <1>2, <2>1
        <4>2. (x + o) - o = x
          BY <1>3, <4>1
        <4> QED
          BY <1>14, <4>1, <4>2
      <3>6. IsFiniteSet({}) /\ Cardinality({}) = k - Cardinality(M)
        BY <1>10, <1>13, <3>4, FS_EmptySet
      <3>7. {} \in SUBSET U /\ M \cup {} \subseteq F
        BY <3>5
      <3> HIDE DEF M, U
      <3> QED
        BY <3>6, <3>7
    <2>2. CASE Fc \subseteq C
      <3>1. F \subseteq M
        BY <1>8, <1>15, <2>2
      <3>2. Block(p, b) \subseteq U \cup M
        BY <1>1, <1>8, <3>1
      <3>3. /\ IsFiniteSet(U \cup M)
            /\ Cardinality(U \cup M) = Cardinality(U) + Cardinality(M)
        <4>1. U \cap M = {}
          OBVIOUS
        <4> HIDE DEF M, U
        <4>2. Cardinality(U \cup M) = Cardinality(U) + Cardinality(M) - Cardinality({})
          BY <1>16, <4>1, FS_Union
        <4>3. Cardinality({}) = 0
          BY FS_EmptySet
        <4>4. IsFiniteSet(U \cup M)
          BY <1>16, FS_Union
        <4> QED
          BY <1>16, <4>2, <4>3, <4>4
      <3>4. Cardinality(Block(p, b)) <= Cardinality(U \cup M)
        BY <3>2, <3>3, FS_Subset
      <3>5. k - Cardinality(M) \in Nat /\ k - Cardinality(M) <= Cardinality(U)
        BY <1>1, <1>16, <1>17, <3>3, <3>4
      <3>6. PICK Z \in SUBSET U : IsFiniteSet(Z) /\ Cardinality(Z) = k - Cardinality(M)
        <4> HIDE DEF M, U
        <4> QED
          BY <1>16, <3>5, SubsetOfSize
      <3> QED
        BY <3>1, <3>6
    <2> QED
      BY <1>10, <2>1, <2>2
  <1>19. M \cup Z \in TopK(P, F, k)
    <2>1. M \cap Z = {} /\ M \cup Z \subseteq P
      OBVIOUS
    <2> HIDE DEF M, U
    <2>2. Cardinality(M \cup Z) = Cardinality(M) + Cardinality(Z) - Cardinality({})
      BY <1>16, <1>18, <2>1, FS_Union
    <2>3. Cardinality(Z) \in Nat
      BY <1>18, FS_CardinalityType
    <2>4. Cardinality(M \cup Z) = k
      BY <1>13, <1>16, <1>18, <2>2, <2>3, FS_EmptySet
    <2>5. M \cup Z \subseteq F \/ F \subseteq M \cup Z
      BY <1>18
    <2> QED
      BY <2>1, <2>4, <2>5 DEF TopK, kSubset
  <1>20. E2 \in SUBSET Leaps(M \cup Z, F, leap, radius)
    <2> SUFFICES ASSUME NEW x \in E2 PROVE x \in Leaps(M \cup Z, F, leap, radius)
      OBVIOUS
    <2>1. x \in P /\ x \in Int /\ x + o \in Leaps(C, Fc, leap, radius)
      BY <1>2, <1>11
    <2>2. leap
      BY <2>1 DEF Leaps
    <2>3. x + o \in Neighbours(C \cap Fc, Fc, radius)
      BY <2>1, <2>2 DEF Leaps
    <2>4. x + o \in Fc
      BY <2>3 DEF Neighbours
    <2>5. PICK y \in C \cap Fc : y - radius <= x + o /\ x + o <= y + radius
      BY <2>3 DEF Neighbours
    <2>6. x \in F
      <3>1. (x + o) - o = x
        BY <1>3, <2>1
      <3> QED
        BY <1>14, <2>4, <3>1
    <2>7. y - o \in F /\ (y - o) + o = y /\ y \in Int
      BY <1>14
    <2>8. y - o \in (M \cup Z) \cap F
      BY <1>8, <2>7
    <2>9. (y - o) - radius <= x /\ x <= (y - o) + radius
      BY <1>3, <1>13, <2>1, <2>5, <2>7
    <2>10. x \in Neighbours((M \cup Z) \cap F, F, radius)
      BY <2>6, <2>8, <2>9 DEF Neighbours
    <2> QED
      BY <2>2, <2>10 DEF Leaps
  <1>21. Writes(s, (M \cup Z) \cup E2, temp, new)
    <2>1. DOMAIN s = P
      BY <1>1
    <2>2. new = [x \in DOMAIN s |-> new[x]]
      BY <1>5, <2>1
    <2>3. ASSUME NEW x \in P, x \in (M \cup Z) \cup E2, s[x] = Mask
          PROVE  new[x] \in Predictions(temp)
      <3>1. x + o \in C \cup E /\ x + o \in D /\ c[x + o] = Mask
        BY <1>3, <2>3
      <3> QED
        BY <1>5, <1>12, <3>1
    <2>4. ASSUME NEW x \in P, ~(x \in (M \cup Z) \cup E2 /\ s[x] = Mask)
          PROVE  new[x] = s[x]
      <3>1. x + o \in D /\ c[x + o] = s[x] /\ new[x] = canvas[x + o]
        BY <1>3, <1>5
      <3>2. ~(x + o \in C \cup E /\ c[x + o] = Mask)
        BY <2>4, <3>1
      <3> QED
        BY <1>12, <3>1, <3>2
    <2> HIDE DEF M, E2
    <2> QED
      BY <2>1, <2>2, <2>3, <2>4 DEF Writes
  <1>22. new \in Commits(s, k, end, leap, radius, temp)
    <2>1. DOMAIN s = P
      BY <1>1
    <2>2. \E C2 \in TopK(DOMAIN s, FinitePositions(s, end), k) :
          \E D2 \in SUBSET Leaps(C2, FinitePositions(s, end), leap, radius) :
            Writes(s, C2 \cup D2, temp, new)
      <3> HIDE DEF M, E2
      <3> QED
        BY <1>19, <1>20, <1>21, <2>1 DEF F
    <2> HIDE DEF M, U, E2
    <2> QED
      BY <2>2, CommitsAre
  <1> QED
    BY <1>22 DEF s, k, end, leap, radius, temp, p, b

-----------------------------------------------------------------------------
(***************************************************************************)
(* Isolation.                                                              *)
(***************************************************************************)

(***************************************************************************)
(* engine.py: requests of a batch share temperature.  Nothing in the code  *)
(* makes them: it holds when the requests that can meet at a group key ask *)
(* for the same sampling, and isolation then follows.                      *)
(***************************************************************************)
OneSampling ==
  \A p, q \in ValidParams :
    /\ BlockBucket(BlockLength(p)) = BlockBucket(BlockLength(q))
    /\ p.leap = q.leap
    => p.temperature = q.temperature /\ (p.leap => p.radius = q.radius)

\* The schedule of an unfinished request is one for masks of its own block.
Scheduled(r) ==
  r \in Unfinished =>
    \E m \in 0 .. BlockLength(params[r]) :
      schedule[r] = TransferSchedule(m, StepsPerBlock(params[r]))

ScheduledInv == CountersInv /\ \A r \in Rows : Scheduled(r)

\* The invariant holds of the empty engine ...
LEMMA ScheduledInit == Init => ScheduledInv
  BY TypeInit DEF Init, ScheduledInv, CountersInv, Counted, Scheduled, Unfinished

\* ... and every step keeps it.
LEMMA ScheduledStep == ScheduledInv /\ [Next]_vars => ScheduledInv'
  <1> SUFFICES ASSUME ScheduledInv, [Next]_vars PROVE ScheduledInv'
    OBVIOUS
  <1>1. CountersInv /\ LoopTypeOK /\ CountersInv'
    BY CountersStep DEF ScheduledInv, CountersInv
  <1>2. ASSUME NEW q \in Rows, Submit(q), NEW r \in Rows PROVE Scheduled(r)'
    <2>1. CASE r = q
      <3>1. PICK p \in ValidParams : \E prompt :
              /\ params' = [params EXCEPT ![r] = p]
              /\ schedule' = [schedule EXCEPT ![r] = ScheduleOf(p, InitSeq(p, prompt), 0)]
        BY <1>2, <2>1 DEF Submit, ValidParams
      <3>2. params'[r] = p /\ \E s : schedule'[r] = ScheduleOf(p, s, 0)
        BY <1>1, <3>1 DEF LoopTypeOK
      <3>3. 0 \in Nat /\ 0 < NumBlocks(p)
        BY <3>1, Shape
      <3> QED
        BY <3>1, <3>2, <3>3, FreshSchedule DEF Scheduled
    <2>2. CASE r # q
      <3>1. /\ params'[r] = params[r] /\ schedule'[r] = schedule[r]
            /\ blockIdx'[r] = blockIdx[r]
        BY <1>2, <2>2 DEF Submit
      <3>2. r \in Unfinished' => r \in Unfinished
        BY <3>1 DEF Unfinished
      <3> QED
        BY <3>1, <3>2 DEF Scheduled, ScheduledInv
    <2> QED
      BY <2>1, <2>2
  <1>3. ASSUME NEW B \in Batches, NEW leader \in B, StepBatch(B, leader), NEW r \in Rows
        PROVE  Scheduled(r)'
    <2> SUFFICES ASSUME r \in Unfinished' PROVE Scheduled(r)'
      BY DEF Scheduled
    <2>1. params'[r] = params[r]
      BY <1>1, <1>3, CountersOfBatch
    <2>2. PICK new : Advance(B, new)
      BY <1>1, <1>3, BatchStep
    <2>3. CASE r \in B /\ BlockOver(r, new[r])
      <3>1. blockIdx'[r] = blockIdx[r] + 1
        BY <2>2, <2>3 DEF Advance
      <3>2. ~Done(params[r], blockIdx[r] + 1)
        BY <2>1, <3>1 DEF Unfinished
      <3>3. schedule'[r] = ScheduleOf(params[r], new[r], blockIdx[r] + 1)
        BY <2>2, <2>3, <3>2 DEF Advance
      <3>4. /\ params[r] \in ValidParams
            /\ blockIdx[r] + 1 \in Nat
            /\ NumBlocks(params[r]) \in Nat
        BY <1>1, <1>3, <2>3, CountersOfBatch, Shape
      <3>5. blockIdx[r] + 1 < NumBlocks(params[r])
        BY <3>2, <3>4 DEF Done
      <3> QED
        BY <2>1, <3>3, <3>4, <3>5, FreshSchedule DEF Scheduled
    <2>4. CASE ~(r \in B /\ BlockOver(r, new[r]))
      <3>1. blockIdx'[r] = blockIdx[r] /\ schedule'[r] = schedule[r]
        BY <2>2, <2>4 DEF Advance
      <3>2. r \in Unfinished
        BY <2>1, <3>1 DEF Unfinished
      <3> QED
        BY <2>1, <3>1, <3>2 DEF Scheduled, ScheduledInv
    <2> QED
      BY <2>3, <2>4
  <1>4. CASE UNCHANGED vars
    BY <1>1, <1>4 DEF ScheduledInv, Scheduled, Unfinished, vars
  <1> QED
    BY <1>1, <1>2, <1>3, <1>4 DEF Next, Step, ScheduledInv

(***************************************************************************)
(* What a step of a batch does to one of its rows: a commit of the row     *)
(* alone, at some radius and temperature, and its counters move on.        *)
(***************************************************************************)
RowCommit(r, new, radius, temperature) ==
  /\ new \in Commits(seq[r], schedule[r][stepInBlock[r]],
                     BlockEnd(params[r], blockIdx[r]),
                     params[r].leap, radius, temperature)
  /\ params'[r] = params[r]
  /\ seq'[r] = new
  /\ IF BlockOver(r, new)
     THEN /\ stepInBlock'[r] = 0
          /\ blockIdx'[r] = blockIdx[r] + 1
          /\ schedule'[r] = IF Done(params[r], blockIdx[r] + 1) THEN schedule[r]
                            ELSE ScheduleOf(params[r], new, blockIdx[r] + 1)
     ELSE /\ stepInBlock'[r] = stepInBlock[r] + 1
          /\ blockIdx'[r] = blockIdx[r]
          /\ schedule'[r] = schedule[r]

\* A row that is in no batch.
RowRests(r) ==
  /\ params'[r] = params[r]
  /\ seq'[r] = seq[r]
  /\ blockIdx'[r] = blockIdx[r]
  /\ stepInBlock'[r] = stepInBlock[r]
  /\ schedule'[r] = schedule[r]

\* Without LocalLeap the radius has no part in a commit.
LEMMA RadiusUnused ==
  ASSUME NEW s, NEW k, NEW end, NEW leap, ~leap, NEW radius, NEW other, NEW temperature,
         NEW t \in Commits(s, k, end, leap, radius, temperature)
  PROVE  t \in Commits(s, k, end, leap, other, temperature)
  BY DEF Commits

\* The requests of a batch agree on LocalLeap, and when OneSampling holds on
\* the rest of their sampling.
LEMMA SamplingOfLeader ==
  ASSUME LoopTypeOK, NEW B \in Batches, NEW leader \in B, NEW r \in B
  PROVE  /\ params[leader] \in ValidParams
         /\ params[leader].leap = params[r].leap
         /\ OneSampling => /\ params[r].leap => params[leader].radius = params[r].radius
                           /\ params[leader].temperature = params[r].temperature
  <1>1. /\ params[leader] # None /\ params[r] # None
        /\ leader \in Rows /\ r \in Rows
        /\ GroupKey(leader) = GroupKey(r)
    BY DEF Batches, Unfinished
  <1>2. params[leader] \in ValidParams /\ params[r] \in ValidParams
    BY <1>1 DEF LoopTypeOK, ValidParams
  <1>3. /\ BlockBucket(BlockLength(params[leader])) = BlockBucket(BlockLength(params[r]))
        /\ params[leader].leap = params[r].leap
    BY <1>1 DEF GroupKey
  <1> QED
    BY <1>2, <1>3 DEF OneSampling

\* The commits of a step are tokens of the row's block, in number.
LEMMA CommitsOfStep ==
  ASSUME ScheduledInv, NEW B \in Batches, NEW leader \in B, StepBatch(B, leader),
         NEW r \in B
  PROVE  /\ r \in Rows
         /\ params[r] \in ValidParams
         /\ blockIdx[r] \in Nat /\ blockIdx[r] < NumBlocks(params[r])
         /\ schedule[r][stepInBlock[r]] \in 0 .. BlockLength(params[r])
  <1>1. r \in Unfinished /\ r \in Rows
    BY DEF Batches, Unfinished
  <1>2. /\ params[r] \in ValidParams
        /\ blockIdx[r] \in Nat /\ blockIdx[r] < NumBlocks(params[r])
        /\ stepInBlock[r] \in Nat /\ stepInBlock[r] < StepsPerBlock(params[r])
    BY <1>1, CountersOfBatch DEF ScheduledInv
  <1>3. PICK m \in 0 .. BlockLength(params[r]) :
          schedule[r] = TransferSchedule(m, StepsPerBlock(params[r]))
    BY <1>1 DEF ScheduledInv, Scheduled
  <1>4. BlockLength(params[r]) \in Nat /\ StepsPerBlock(params[r]) \in Nat \ {0}
    BY <1>2, Shape
  <1>5. m \in Nat /\ stepInBlock[r] \in 0 .. StepsPerBlock(params[r]) - 1
    BY <1>2, <1>4
  <1>6. /\ schedule[r][stepInBlock[r]] \in Nat
        /\ schedule[r][stepInBlock[r]] <= m
    BY <1>3, <1>4, <1>5, ScheduleType, ScheduleBound
  <1> QED
    BY <1>1, <1>2, <1>4, <1>6

\* The rows of a batch each make a step of their own, the others none.
LEMMA RowOfBatch ==
  ASSUME ScheduledInv, NEW B \in Batches, NEW leader \in B,
         StepBatch(B, leader), NEW r \in Rows
  PROVE  /\ r \in B =>
              /\ r \in Unfinished
              /\ \E new : RowCommit(r, new, params[leader].radius, params[leader].temperature)
         /\ r \notin B => RowRests(r)
  <1>1. LoopTypeOK /\ CountersInv
    BY DEF ScheduledInv, CountersInv
  <1>2. B \subseteq Rows /\ params' = params
    BY <1>1, BatchStep
  <1>3. PICK new, maxPromptLen, maxTotal :
          /\ \A q \in B : /\ RowFits(q, maxPromptLen, maxTotal)
                          /\ new[q] \in RowResults(q, leader, maxPromptLen, maxTotal)
          /\ seq' = [q \in Rows |-> IF q \in B THEN new[q] ELSE seq[q]]
          /\ Advance(B, new)
    BY <1>1, BatchStep
  <1>4. ASSUME r \in B
        PROVE  /\ r \in Unfinished
               /\ RowCommit(r, new[r], params[leader].radius, params[leader].temperature)
    <2>1. r \in Unfinished
      BY <1>4 DEF Batches
    <2>2. new[r] \in Commits(seq[r], schedule[r][stepInBlock[r]],
                             BlockEnd(params[r], blockIdx[r]),
                             params[leader].leap, params[leader].radius,
                             params[leader].temperature)
      BY <1>1, <1>2, <1>3, <1>4, CommitsOfStep, SamplingOfLeader, RowStepAlone
    <2>3. params[leader].leap = params[r].leap
      BY <1>1, <1>4, SamplingOfLeader
    <2>4. /\ stepInBlock'[r] = IF BlockOver(r, new[r]) THEN 0 ELSE stepInBlock[r] + 1
          /\ blockIdx'[r] = IF BlockOver(r, new[r]) THEN blockIdx[r] + 1 ELSE blockIdx[r]
          /\ schedule'[r] = IF BlockOver(r, new[r]) /\ ~Done(params[r], blockIdx[r] + 1)
                            THEN ScheduleOf(params[r], new[r], blockIdx[r] + 1)
                            ELSE schedule[r]
      BY <1>3, <1>4 DEF Advance
    <2>5. seq'[r] = new[r] /\ params'[r] = params[r]
      BY <1>2, <1>3, <1>4
    <2> QED
      BY <2>1, <2>2, <2>3, <2>4, <2>5 DEF RowCommit
  <1>5. r \notin B => RowRests(r)
    BY <1>2, <1>3 DEF Advance, RowRests
  <1> QED
    BY <1>4, <1>5

\* Where requests that meet ask for one sampling, the step is at their own.
LEMMA OwnSampling ==
  ASSUME OneSampling, LoopTypeOK, NEW B \in Batches, NEW leader \in B, NEW r \in B, NEW new,
         RowCommit(r, new, params[leader].radius, params[leader].temperature)
  PROVE  RowCommit(r, new, params[r].radius, params[r].temperature)
  <1>1. /\ params[r].leap => params[leader].radius = params[r].radius
        /\ params[leader].temperature = params[r].temperature
    BY SamplingOfLeader
  <1>2. CASE params[r].leap
    BY <1>1, <1>2
  <1>3. CASE ~params[r].leap
    BY <1>1, <1>3, RadiusUnused DEF RowCommit
  <1> QED
    BY <1>2, <1>3

\* What denoise() computes for a request is what the batched loop's operators
\* compute for its row.
LEMMA AloneCommits ==
  ASSUME NEW r \in Rows, NEW s, NEW k, NEW end, NEW leap, NEW radius, NEW temperature
  PROVE  Alone(r)!Commits(s, k, end, leap, radius, temperature)
           = Commits(s, k, end, leap, radius, temperature)
  BY DEF Commits, Alone!Commits, FinitePositions, Alone!FinitePositions,
         MaskedIn, Alone!MaskedIn, LeapCommits, Alone!LeapCommits,
         TopKCommits, Alone!TopKCommits, CommitAt, Alone!CommitAt,
         TopK, Alone!TopK, Neighbours, Alone!Neighbours, kSubset, Alone!kSubset,
         Cardinality, Alone!Cardinality, Predictions, Alone!Predictions,
         Predicted, Alone!Predicted

\* The same, for the shape of a request.
LEMMA AloneShape ==
  ASSUME NEW r \in Rows, NEW p, NEW b, NEW s
  PROVE  /\ Alone(r)!Valid(p) <=> Valid(p)
         /\ Alone(r)!Done(p, b) <=> Done(p, b)
         /\ Alone(r)!StepsPerBlock(p) = StepsPerBlock(p)
         /\ Alone(r)!BlockEnd(p, b) = BlockEnd(p, b)
         /\ Alone(r)!MaskedIn(s, Alone(r)!Block(p, b)) = MaskedIn(s, Block(p, b))
         /\ Alone(r)!InitSeq(p, s) = InitSeq(p, s)
         /\ Alone(r)!ScheduleOf(p, s, b) = ScheduleOf(p, s, b)
  BY DEF Valid, Alone!Valid, Done, Alone!Done, InitSeq, Alone!InitSeq,
         Positions, Alone!Positions, TotalLen, Alone!TotalLen,
         ScheduleOf, Alone!ScheduleOf, TransferSchedule, Alone!TransferSchedule,
         StepsPerBlock, Alone!StepsPerBlock, MaskedIn, Alone!MaskedIn,
         Cardinality, Alone!Cardinality, Block, Alone!Block,
         BlockStart, Alone!BlockStart, BlockEnd, Alone!BlockEnd,
         NumBlocks, Alone!NumBlocks, BlockLength, Alone!BlockLength

\* A new request starts denoise().
LEMMA SubmitAlone ==
  ASSUME LoopTypeOK, NEW r \in Rows, Submit(r)
  PROVE  Alone(r)!Start
  <1>1. PICK p \in ParamSpace :
          /\ Valid(p)
          /\ params' = [params EXCEPT ![r] = p]
          /\ \E prompt \in [0 .. p.promptLen - 1 -> PromptTokens] :
               /\ seq' = [seq EXCEPT ![r] = InitSeq(p, prompt)]
               /\ schedule' = [schedule EXCEPT ![r] = ScheduleOf(p, InitSeq(p, prompt), 0)]
    BY DEF Submit
  <1>2. PICK prompt \in [0 .. p.promptLen - 1 -> PromptTokens] :
          /\ seq' = [seq EXCEPT ![r] = InitSeq(p, prompt)]
          /\ schedule' = [schedule EXCEPT ![r] = ScheduleOf(p, InitSeq(p, prompt), 0)]
    BY <1>1
  <1>3. /\ params[r] = None
        /\ params'[r] = p
        /\ seq'[r] = InitSeq(p, prompt)
        /\ schedule'[r] = ScheduleOf(p, seq'[r], 0)
        /\ blockIdx'[r] = blockIdx[r]
        /\ stepInBlock'[r] = stepInBlock[r]
    BY <1>1, <1>2 DEF LoopTypeOK, Submit
  <1>4. /\ Alone(r)!Valid(p)
        /\ Alone(r)!InitSeq(p, prompt) = InitSeq(p, prompt)
        /\ Alone(r)!ScheduleOf(p, seq'[r], 0) = ScheduleOf(p, seq'[r], 0)
    BY <1>1, AloneShape
  <1> QED
    BY <1>1, <1>3, <1>4 DEF Alone!Start

\* A row's step in a batch is an iteration of denoise().
LEMMA CommitAlone ==
  ASSUME CountersInv, NEW r \in Rows, r \in Unfinished, NEW new,
         RowCommit(r, new, params[r].radius, params[r].temperature)
  PROVE  Alone(r)!NextStep \/ Alone(r)!NextBlock
  <1>1. /\ params[r] # None /\ ~Done(params[r], blockIdx[r])
        /\ params'[r] = params[r]
        /\ seq'[r] = new
        /\ seq'[r] \in Alone(r)!Commits(seq[r], schedule[r][stepInBlock[r]],
                                        Alone(r)!BlockEnd(params[r], blockIdx[r]),
                                        params[r].leap, params[r].radius,
                                        params[r].temperature)
    BY AloneCommits, AloneShape DEF RowCommit, Unfinished
  <1>2. Alone(r)!Commit
    BY <1>1, AloneShape DEF Alone!Commit, Alone!Running
  <1>3. params[r] \in ValidParams
    BY <1>1 DEF CountersInv, LoopTypeOK, ValidParams
  <1>4. /\ StepsPerBlock(params[r]) \in Nat
        /\ stepInBlock[r] \in Nat /\ stepInBlock[r] < StepsPerBlock(params[r])
    BY <1>1, <1>3, Shape DEF CountersInv, LoopTypeOK, Counted
  <1>5. Alone(r)!LastOfBlock <=> BlockOver(r, new)
    <2>1. Alone(r)!LastOfBlock
            <=> \/ stepInBlock[r] + 1 = StepsPerBlock(params[r])
                \/ MaskedIn(new, Block(params[r], blockIdx[r])) = {}
      BY <1>1, AloneShape DEF Alone!LastOfBlock
    <2>2. stepInBlock[r] + 1 = StepsPerBlock(params[r])
            <=> stepInBlock[r] + 1 >= StepsPerBlock(params[r])
      BY <1>4
    <2> QED
      BY <2>1, <2>2 DEF BlockOver
  <1>6. CASE BlockOver(r, new)
    <2>1. /\ stepInBlock'[r] = 0
          /\ blockIdx'[r] = blockIdx[r] + 1
          /\ schedule'[r] = IF Done(params[r], blockIdx'[r]) THEN schedule[r]
                            ELSE ScheduleOf(params[r], seq'[r], blockIdx'[r])
      BY <1>1, <1>6 DEF RowCommit
    <2> QED
      BY <1>2, <1>5, <1>6, <2>1, AloneShape DEF Alone!NextBlock
  <1>7. CASE ~BlockOver(r, new)
    <2>1. /\ stepInBlock'[r] = stepInBlock[r] + 1
          /\ blockIdx'[r] = blockIdx[r]
          /\ schedule'[r] = schedule[r]
      BY <1>7 DEF RowCommit
    <2> QED
      BY <1>2, <1>5, <1>7, <2>1 DEF Alone!NextStep
  <1> QED
    BY <1>6, <1>7

\* Every step of the batched loop is, for each row, a step of denoise() or none.
LEMMA IsolatedStep ==
  ASSUME OneSampling
  PROVE  ScheduledInv /\ [Next]_vars
           => [\A r \in Rows : [Alone(r)!Next]_(Alone(r)!dvars)]_vars
  <1> SUFFICES ASSUME ScheduledInv, Next, NEW r \in Rows
               PROVE  Alone(r)!Next \/ UNCHANGED Alone(r)!dvars
    OBVIOUS
  <1>1. CountersInv /\ LoopTypeOK
    BY DEF ScheduledInv, CountersInv
  <1>2. ASSUME NEW q \in Rows, Submit(q) PROVE Alone(r)!Next \/ UNCHANGED Alone(r)!dvars
    <2>1. CASE r = q
      BY <1>1, <1>2, <2>1, SubmitAlone DEF Alone!Next
    <2>2. CASE r # q
      BY <1>2, <2>2 DEF Submit, Alone!dvars
    <2> QED
      BY <2>1, <2>2
  <1>3. ASSUME NEW B \in Batches, NEW leader \in B, StepBatch(B, leader)
        PROVE  Alone(r)!Next \/ UNCHANGED Alone(r)!dvars
    <2>1. CASE r \in B
      <3>1. /\ r \in Unfinished
            /\ \E new : RowCommit(r, new, params[r].radius, params[r].temperature)
        BY <1>1, <1>3, <2>1, RowOfBatch, OwnSampling
      <3> QED
        BY <1>1, <3>1, CommitAlone DEF Alone!Next
    <2>2. CASE r \notin B
      BY <1>3, <2>2, RowOfBatch DEF RowRests, Alone!dvars
    <2> QED
      BY <2>1, <2>2
  <1> QED
    BY <1>2, <1>3 DEF Next, Step

(***************************************************************************)
(* Isolation: whatever requests share its batches, in whatever order, with *)
(* and without LocalLeap, every request makes a run of denoise() on its    *)
(* own parameters, as long as requests that can meet ask for one sampling. *)
(***************************************************************************)
THEOREM Isolation == ASSUME OneSampling PROVE Spec => RowsIsolated
  <1>1. Init => ScheduledInv
    BY ScheduledInit
  <1>2. ScheduledInv /\ [Next]_vars => ScheduledInv'
    BY ScheduledStep
  <1>3. ScheduledInv /\ [Next]_vars
          => [\A r \in Rows : [Alone(r)!Next]_(Alone(r)!dvars)]_vars
    BY IsolatedStep
  <1>4. Init => \A r \in Rows : Alone(r)!Init
    BY DEF Init, Alone!Init
  <1> QED
    BY <1>1, <1>2, <1>3, <1>4, PTL DEF Spec, RowsIsolated

-----------------------------------------------------------------------------
(***************************************************************************)
(* Requests without LocalLeap.                                             *)
(***************************************************************************)

(***************************************************************************)
(* PlainRowsOnSchedule counts the masks of the current block.  It needs    *)
(* the schedule itself, which is that of a block of masks, because every   *)
(* block is still whole when it is entered.                                *)
(***************************************************************************)
OnSchedule(r) ==
  LET p == params[r]
      b == blockIdx[r]
  IN  r \in Unfinished /\ ~p.leap =>
        /\ schedule[r] = TransferSchedule(BlockLength(p), StepsPerBlock(p))
        /\ Cardinality(MaskedIn(seq[r], Block(p, b))) =
             Budget(BlockLength(p), StepsPerBlock(p), stepInBlock[r])
        /\ \A x \in BlockEnd(p, b) .. TotalLen(p) - 1 : seq[r][x] = Mask

PlainInv ==
  /\ BudgetInv
  /\ ScheduledInv
  /\ \A r \in Rows : OnSchedule(r)

\* A block of masks has a full schedule and budget.
LEMMA WholeBlock ==
  ASSUME NEW p \in ValidParams, NEW b \in Nat, b < NumBlocks(p), NEW s,
         \A x \in Block(p, b) : s[x] = Mask
  PROVE  /\ ScheduleOf(p, s, b) = TransferSchedule(BlockLength(p), StepsPerBlock(p))
         /\ Cardinality(MaskedIn(s, Block(p, b))) =
              Budget(BlockLength(p), StepsPerBlock(p), 0)
  <1>1. MaskedIn(s, Block(p, b)) = Block(p, b)
    BY DEF MaskedIn
  <1>2. Cardinality(Block(p, b)) = BlockLength(p)
    BY BlockFinite
  <1>3. BlockLength(p) \in Nat /\ StepsPerBlock(p) \in Nat \ {0}
    BY Shape
  <1> QED
    BY <1>1, <1>2, <1>3, BudgetStart DEF ScheduleOf

\* Without LocalLeap the set overwritten is the topk set.
LEMMA PlainCommitsAre ==
  ASSUME NEW s, NEW k, NEW end, NEW leap, ~leap, NEW radius, NEW temperature,
         NEW t \in Commits(s, k, end, leap, radius, temperature)
  PROVE  \E C \in TopK(DOMAIN s, FinitePositions(s, end), k) : Writes(s, C, temperature, t)
  <1>1. PICK C \in TopK(DOMAIN s, FinitePositions(s, end), k) :
          \E E \in SUBSET Leaps(C, FinitePositions(s, end), leap, radius) :
            Writes(s, C \cup E, temperature, t)
    BY CommitsAre
  <1>2. Leaps(C, FinitePositions(s, end), leap, radius) = {}
    BY DEF Leaps
  <1>3. Writes(s, C \cup {}, temperature, t)
    BY <1>1, <1>2
  <1>4. C \cup {} = C
    OBVIOUS
  <1> QED
    BY <1>3, <1>4

\* Without LocalLeap a commit takes exactly k masks off its block, when there
\* are as many, and leaves the blocks after it alone.
LEMMA PlainCommit ==
  ASSUME NEW p \in ValidParams, NEW b \in Nat, b < NumBlocks(p),
         NEW s \in [Positions(p) -> Token], NEW k \in Nat,
         MaskedIn(s, 0 .. BlockStart(p, b) - 1) = {},
         k <= Cardinality(MaskedIn(s, Block(p, b))),
         Mask \notin Predicted,
         NEW leap, ~leap, NEW radius, NEW temperature,
         NEW new \in Commits(s, k, BlockEnd(p, b), leap, radius, temperature)
  PROVE  /\ Cardinality(MaskedIn(new, Block(p, b))) =
              Cardinality(MaskedIn(s, Block(p, b))) - k
         /\ \A x \in Positions(p) : x >= BlockEnd(p, b) => new[x] = s[x]
  <1> DEFINE P == Positions(p)
             end == BlockEnd(p, b)
             start == BlockStart(p, b)
             F == FinitePositions(s, end)
             old == MaskedIn(s, Block(p, b))
             left == MaskedIn(new, Block(p, b))
  <1>1. /\ start \in Nat /\ end \in Nat
        /\ end <= TotalLen(p) /\ TotalLen(p) \in Nat
        /\ P = 0 .. TotalLen(p) - 1
        /\ Block(p, b) = start .. end - 1
        /\ Block(p, b) \subseteq P
        /\ IsFiniteSet(old)
    <2>1. /\ start \in Nat /\ end = start + BlockLength(p)
          /\ end <= TotalLen(p) /\ TotalLen(p) \in Nat /\ BlockLength(p) \in Nat
      BY BlockBounds, Shape
    <2>2. Block(p, b) \subseteq P /\ IsFiniteSet(old)
      BY BlockFinite, MasksOfBlock
    <2>3. P = 0 .. TotalLen(p) - 1 /\ Block(p, b) = start .. end - 1
      BY DEF Positions, Block
    <2> HIDE DEF P, start, end, old
    <2> QED
      BY <2>1, <2>2, <2>3
  <1>2. PICK C \in TopK(P, F, k) : Writes(s, C, temperature, new)
    <2>1. DOMAIN s = P
      OBVIOUS
    <2> QED
      BY <2>1, PlainCommitsAre
  <1>3. F = old
    <2>1. \A x : x \in F <=> x \in P /\ s[x] = Mask /\ x < end
      BY DEF FinitePositions, MaskedIn
    <2>2. \A x : x \in old <=> x \in Block(p, b) /\ s[x] = Mask
      BY DEF MaskedIn
    <2>3. \A x \in 0 .. start - 1 : s[x] # Mask
      BY DEF MaskedIn
    <2>4. ASSUME NEW x \in P, s[x] = Mask
          PROVE  x < end <=> x \in Block(p, b)
      <3>1. x \in Int /\ 0 <= x
        BY <1>1, <2>4
      <3>2. ~(x < start)
        <4> HIDE DEF P, start
        <4> QED
          BY <1>1, <2>3, <2>4, <3>1
      <3> HIDE DEF P, start, end
      <3> QED
        BY <1>1, <3>1, <3>2
    <2>5. \A x \in Block(p, b) : x \in P
      BY <1>1
    <2> HIDE DEF P, F, old, start, end
    <2> QED
      BY <2>1, <2>2, <2>4, <2>5
  <1>4. C \subseteq P /\ Cardinality(C) = k /\ (C \subseteq old \/ old \subseteq C)
    BY <1>2, <1>3 DEF TopK, kSubset
  <1>5. IsFiniteSet(P)
    BY <1>1, PrefixFinite
  <1>6. IsFiniteSet(C) /\ Cardinality(old) \in Nat
    BY <1>1, <1>4, <1>5, FS_Subset, FS_CardinalityType
  <1>7. C \subseteq old
    <2>1. CASE old \subseteq C
      <3>1. Cardinality(old) <= Cardinality(C)
        BY <1>6, <2>1, FS_Subset
      <3>2. Cardinality(old) = Cardinality(C)
        BY <1>4, <1>6, <3>1
      <3> HIDE DEF old
      <3> QED
        BY <1>6, <2>1, <3>2, FS_Subset
    <2> QED
      BY <1>4, <2>1
  <1>8. /\ \A x \in P : x \in C /\ s[x] = Mask => new[x] \in Predicted
        /\ \A x \in P : ~(x \in C /\ s[x] = Mask) => new[x] = s[x]
    BY <1>2 DEF Writes, Predictions, Predicted
  <1>9. left = old \ C
    <2>1. \A x : x \in left <=> x \in Block(p, b) /\ new[x] = Mask
      BY DEF MaskedIn
    <2>2. \A x : x \in old <=> x \in Block(p, b) /\ s[x] = Mask
      BY DEF MaskedIn
    <2> HIDE DEF left, old, P
    <2> QED
      BY <1>1, <1>8, <2>1, <2>2
  <1>10. Cardinality(old \ C) = Cardinality(old) - k
    <2>1. Cardinality(old \ C) = Cardinality(old) - Cardinality(old \cap C)
      BY <1>1, FS_Difference
    <2>2. old \cap C = C
      BY <1>7
    <2> QED
      BY <1>4, <2>1, <2>2
  <1>11. \A x \in P : x >= end => new[x] = s[x]
    <2>1. \A x \in C : x \in start .. end - 1
      BY <1>1, <1>7 DEF MaskedIn
    <2> HIDE DEF P, end, start
    <2>2. \A x \in P : x >= end => x \notin C
      BY <1>1, <2>1
    <2> QED
      BY <1>8, <2>2
  <1> QED
    BY <1>9, <1>10, <1>11

\* A request without LocalLeap stays on schedule, and its step leaves in the
\* block what the schedule has still to commit.
LEMMA PlainRowStep ==
  ASSUME NoStrayMask, PlainInv, NEW r \in Rows, r \in Unfinished, ~params[r].leap,
         NEW new, NEW radius, NEW temperature, RowCommit(r, new, radius, temperature)
  PROVE  /\ OnSchedule(r)'
         /\ Cardinality(MaskedIn(new, Block(params[r], blockIdx[r]))) =
              Budget(BlockLength(params[r]), StepsPerBlock(params[r]), stepInBlock[r] + 1)
  <1> DEFINE p == params[r]
             b == blockIdx[r]
             i == stepInBlock[r]
             S == StepsPerBlock(p)
             m == BlockLength(p)
             k == schedule[r][i]
             old == MaskedIn(seq[r], Block(p, b))
             left == MaskedIn(new, Block(p, b))
  <1>1. /\ p \in ValidParams
        /\ b \in Nat /\ b < NumBlocks(p) /\ NumBlocks(p) \in Nat
        /\ i \in 0 .. S - 1
        /\ S \in Nat \ {0} /\ m \in Nat
        /\ MaskedIn(seq[r], 0 .. BlockStart(p, b) - 1) = {}
        /\ seq[r] \in [Positions(p) -> Token]
    <2>1. p # None /\ ~Done(p, b)
      BY DEF Unfinished
    <2>2. p \in ValidParams
      BY <2>1 DEF PlainInv, BudgetInv, LoopTypeOK, ValidParams
    <2>3. b \in Nat /\ i \in Nat /\ seq[r] \in [Positions(p) -> Token]
      BY <2>1 DEF PlainInv, BudgetInv, LoopTypeOK
    <2>4. i < S /\ MaskedIn(seq[r], 0 .. BlockStart(p, b) - 1) = {}
      BY <2>1 DEF PlainInv, BudgetInv, RowInv, OnTrack
    <2>5. S \in Nat \ {0} /\ NumBlocks(p) \in Nat /\ m \in Nat
      BY <2>2, Shape
    <2> HIDE DEF p, b, i, S, m
    <2> QED
      BY <2>1, <2>2, <2>3, <2>4, <2>5 DEF Done
  <1>2. /\ schedule[r] = TransferSchedule(m, S)
        /\ Cardinality(old) = Budget(m, S, i)
        /\ \A x \in BlockEnd(p, b) .. TotalLen(p) - 1 : seq[r][x] = Mask
    BY DEF PlainInv, OnSchedule
  <1>3. /\ k \in Nat
        /\ Budget(m, S, i) = k + Budget(m, S, i + 1)
        /\ Budget(m, S, i + 1) \in Nat
    <2>1. k = TransferSchedule(m, S)[i]
      BY <1>2
    <2> HIDE DEF k, S, i, m
    <2> QED
      BY <1>1, <2>1, ScheduleType, BudgetStep
  <1>4. /\ Cardinality(left) = Cardinality(old) - k
        /\ \A x \in Positions(p) : x >= BlockEnd(p, b) => new[x] = seq[r][x]
    <2>1. k <= Cardinality(old)
      BY <1>2, <1>3
    <2>2. new \in Commits(seq[r], k, BlockEnd(p, b), p.leap, radius, temperature)
      BY DEF RowCommit
    <2> HIDE DEF p, b, k, i, S, m
    <2> QED
      BY <1>1, <1>3, <2>1, <2>2, PlainCommit DEF NoStrayMask, p
  <1>5. Cardinality(left) = Budget(m, S, i + 1)
    <2> HIDE DEF left, old, k, S, i, m
    <2> QED
      BY <1>2, <1>3, <1>4
  <1>6. /\ BlockStart(p, b) \in Nat /\ BlockEnd(p, b) \in Nat
        /\ BlockStart(p, b) <= BlockEnd(p, b)
        /\ TotalLen(p) \in Nat
        /\ BlockStart(p, b + 1) = BlockEnd(p, b)
    BY <1>1, BlockBounds, Shape
  <1>7. \A x \in BlockEnd(p, b) .. TotalLen(p) - 1 : new[x] = Mask
    <2>1. \A x \in BlockEnd(p, b) .. TotalLen(p) - 1 :
            x \in Positions(p) /\ x >= BlockEnd(p, b)
      BY <1>6 DEF Positions
    <2> HIDE DEF p, b
    <2> QED
      BY <1>2, <1>4, <2>1
  <1>8. params'[r] = p /\ seq'[r] = new
    BY DEF RowCommit
  <1>9. CASE ~BlockOver(r, new)
    <2>1. stepInBlock'[r] = i + 1 /\ blockIdx'[r] = b /\ schedule'[r] = schedule[r]
      BY <1>9 DEF RowCommit
    <2>2. OnSchedule(r)'
      BY <1>2, <1>5, <1>7, <1>8, <2>1 DEF OnSchedule
    <2> QED
      BY <1>5, <2>2
  <1>10. CASE BlockOver(r, new)
    <2>1. /\ stepInBlock'[r] = 0 /\ blockIdx'[r] = b + 1
          /\ schedule'[r] = IF Done(p, b + 1) THEN schedule[r] ELSE ScheduleOf(p, new, b + 1)
      BY <1>10 DEF RowCommit
    <2>2. CASE Done(p, b + 1)
      <3>1. r \notin Unfinished'
        BY <1>8, <2>1, <2>2 DEF Unfinished
      <3> QED
        BY <1>5, <3>1 DEF OnSchedule
    <2>3. CASE ~Done(p, b + 1)
      <3>1. b + 1 \in Nat /\ b + 1 < NumBlocks(p)
        BY <1>1, <2>3 DEF Done
      <3>2. /\ BlockEnd(p, b + 1) = BlockStart(p, b + 1) + m
            /\ BlockEnd(p, b + 1) <= TotalLen(p)
        BY <1>1, <3>1, BlockBounds
      <3>3. /\ \A x \in Block(p, b + 1) : new[x] = Mask
            /\ \A x \in BlockEnd(p, b + 1) .. TotalLen(p) - 1 : new[x] = Mask
        <4>1. Block(p, b + 1) = BlockStart(p, b + 1) .. BlockEnd(p, b + 1) - 1
          BY DEF Block
        <4>2. /\ BlockEnd(p, b + 1) \in Nat
              /\ BlockEnd(p, b) <= BlockEnd(p, b + 1)
          BY <1>1, <1>6, <3>2
        <4> HIDE DEF p, b, m
        <4> QED
          BY <1>6, <1>7, <3>2, <4>1, <4>2
      <3>4. /\ ScheduleOf(p, new, b + 1) = TransferSchedule(m, S)
            /\ Cardinality(MaskedIn(new, Block(p, b + 1))) = Budget(m, S, 0)
        BY <1>1, <3>1, <3>3, WholeBlock
      <3>5. OnSchedule(r)'
        BY <1>8, <2>1, <2>3, <3>3, <3>4 DEF OnSchedule
      <3> QED
        BY <1>5, <3>5
    <2> QED
      BY <2>2, <2>3
  <1> QED
    BY <1>9, <1>10

\* A new request has all its masks before it.
LEMMA PlainSubmit ==
  ASSUME PlainInv, NEW r \in Rows, Submit(r)
  PROVE  OnSchedule(r)'
  <1>1. PICK p \in ValidParams : \E prompt \in [0 .. p.promptLen - 1 -> PromptTokens] :
          /\ params' = [params EXCEPT ![r] = p]
          /\ seq' = [seq EXCEPT ![r] = InitSeq(p, prompt)]
          /\ schedule' = [schedule EXCEPT ![r] = ScheduleOf(p, InitSeq(p, prompt), 0)]
    BY DEF Submit, ValidParams
  <1>2. PICK prompt \in [0 .. p.promptLen - 1 -> PromptTokens] :
          /\ params' = [params EXCEPT ![r] = p]
          /\ seq' = [seq EXCEPT ![r] = InitSeq(p, prompt)]
          /\ schedule' = [schedule EXCEPT ![r] = ScheduleOf(p, InitSeq(p, prompt), 0)]
    BY <1>1
  <1> DEFINE s == InitSeq(p, prompt)
  <1>3. /\ params'[r] = p
        /\ seq'[r] = s
        /\ schedule'[r] = ScheduleOf(p, s, 0)
        /\ blockIdx'[r] = 0
        /\ stepInBlock'[r] = 0
    <2>1. LoopTypeOK /\ CountersInv
      BY DEF PlainInv, BudgetInv, ScheduledInv
    <2>2. params[r] = None /\ blockIdx' = blockIdx /\ stepInBlock' = stepInBlock
      BY DEF Submit
    <2>3. blockIdx[r] = 0 /\ stepInBlock[r] = 0
      BY <2>1, <2>2 DEF CountersInv, Counted
    <2> QED
      BY <1>2, <2>1, <2>2, <2>3 DEF LoopTypeOK
  <1>4. /\ 0 \in Nat /\ 0 < NumBlocks(p) /\ 0 + 1 \in Nat
        /\ p.promptLen \in Nat /\ TotalLen(p) \in Nat /\ BlockLength(p) \in Nat \ {0}
    BY Shape
  <1>5. /\ BlockStart(p, 0) = p.promptLen
        /\ BlockEnd(p, 0) = p.promptLen + BlockLength(p)
        /\ BlockEnd(p, 0) <= TotalLen(p)
    <2>1. BlockStart(p, 0) = p.promptLen
      BY <1>4 DEF BlockStart
    <2> QED
      BY <1>4, <2>1, BlockBounds
  <1>6. \A x \in Positions(p) : x >= p.promptLen => s[x] = Mask
    BY <1>4 DEF InitSeq, Positions
  <1>7. \A x \in Block(p, 0) : s[x] = Mask
    <2>1. \A x \in Block(p, 0) : x \in Positions(p) /\ x >= p.promptLen
      BY <1>4, <1>5 DEF Block, Positions
    <2> HIDE DEF s
    <2> QED
      BY <1>6, <2>1
  <1>8. \A x \in BlockEnd(p, 0) .. TotalLen(p) - 1 : s[x] = Mask
    <2>1. \A x \in BlockEnd(p, 0) .. TotalLen(p) - 1 : x \in Positions(p) /\ x >= p.promptLen
      BY <1>4, <1>5 DEF Positions
    <2> HIDE DEF s
    <2> QED
      BY <1>6, <2>1
  <1>9. /\ ScheduleOf(p, s, 0) = TransferSchedule(BlockLength(p), StepsPerBlock(p))
        /\ Cardinality(MaskedIn(s, Block(p, 0))) = Budget(BlockLength(p), StepsPerBlock(p), 0)
    BY <1>4, <1>7, WholeBlock
  <1> QED
    BY <1>3, <1>8, <1>9 DEF OnSchedule

\* A row that rests stays on schedule.
LEMMA PlainRest ==
  ASSUME NEW r \in Rows, OnSchedule(r), RowRests(r)
  PROVE  OnSchedule(r)'
  BY DEF OnSchedule, RowRests, Unfinished

\* Every step keeps the requests without LocalLeap on schedule.
LEMMA PlainNext == ASSUME NoStrayMask PROVE PlainInv /\ [Next]_vars => PlainInv'
  <1> SUFFICES ASSUME PlainInv, [Next]_vars PROVE PlainInv'
    OBVIOUS
  <1>1. BudgetInv' /\ ScheduledInv' /\ ScheduledInv
    BY BudgetNext, ScheduledStep DEF PlainInv
  <1>2. ASSUME NEW q \in Rows, Submit(q), NEW r \in Rows PROVE OnSchedule(r)'
    <2>1. r # q => RowRests(r)
      BY <1>2 DEF Submit, RowRests
    <2> QED
      BY <1>2, <2>1, PlainSubmit, PlainRest DEF PlainInv
  <1>3. ASSUME NEW B \in Batches, NEW leader \in B, StepBatch(B, leader), NEW r \in Rows
        PROVE  OnSchedule(r)'
    <2>1. CASE r \notin B
      BY <1>1, <1>3, <2>1, RowOfBatch, PlainRest DEF PlainInv
    <2>2. CASE r \in B
      <3>1. /\ r \in Unfinished
            /\ \E new : RowCommit(r, new, params[leader].radius, params[leader].temperature)
        BY <1>1, <1>3, <2>2, RowOfBatch
      <3>2. params'[r] = params[r]
        BY <3>1 DEF RowCommit
      <3>3. CASE params[r].leap
        BY <3>2, <3>3 DEF OnSchedule
      <3>4. CASE ~params[r].leap
        BY <3>1, <3>4, PlainRowStep
      <3> QED
        BY <3>3, <3>4
    <2> QED
      BY <2>1, <2>2
  <1>4. CASE UNCHANGED vars
    <2>1. \A r \in Rows : RowRests(r)
      BY <1>4 DEF RowRests, vars
    <2> QED
      BY <1>1, <2>1, PlainRest DEF PlainInv
  <1> QED
    BY <1>1, <1>2, <1>3, <1>4 DEF Next, Step, PlainInv

\* The invariant holds of the empty engine.
LEMMA PlainInit == Init => PlainInv
  BY BudgetInit, ScheduledInit DEF Init, PlainInv, OnSchedule, Unfinished

(***************************************************************************)
(* A request without LocalLeap is never touched by a LocalLeap request's   *)
(* parameters: at every step it has exactly as many masks left in its      *)
(* block as its own schedule commits from there on, and whole blocks after *)
(* it.                                                                     *)
(***************************************************************************)
THEOREM PlainOnSchedule == ASSUME NoStrayMask PROVE Spec => []PlainRowsOnSchedule
  <1>1. Init => PlainInv
    BY PlainInit
  <1>2. PlainInv /\ [Next]_vars => PlainInv'
    BY PlainNext
  <1>3. PlainInv => PlainRowsOnSchedule
    BY DEF PlainInv, OnSchedule, PlainRowsOnSchedule, Unfinished
  <1> QED
    BY <1>1, <1>2, <1>3, PTL DEF Spec

-----------------------------------------------------------------------------
(***************************************************************************)
(* The published reference.                                                *)
(***************************************************************************)

\* get_num_transfer_tokens and compute_transfer_schedule agree.
LEMMA SameSchedule ==
  ASSUME NEW r \in Rows, NEW p \in ValidParams, NEW b \in Nat, b < NumBlocks(p), NEW s
  PROVE  /\ Published(r)!BlockStop(p, b) = BlockEnd(p, b)
         /\ Published(r)!TransfersOf(p, s, b) = ScheduleOf(p, s, b)
  <1> DEFINE m == Cardinality(MaskedIn(s, Block(p, b)))
             S == StepsPerBlock(p)
  <1>1. /\ Published(r)!BlockStop(p, b) = BlockEnd(p, b)
        /\ Published(r)!BlockLength(p) = BlockLength(p)
        /\ Published(r)!StepsPerBlock(p) = S
    BY DEF Published!BlockStop, BlockEnd, Published!BlockLength, BlockLength,
           Published!StepsPerBlock, StepsPerBlock, Published!NumBlocks, NumBlocks
  <1>2. m \in Nat /\ S \in Nat \ {0}
    BY MasksOfBlock, Shape
  <1>3. BlockEnd(p, b) - BlockLength(p) = BlockStart(p, b)
    BY BlockBounds, Shape
  <1>4. {q \in BlockEnd(p, b) - BlockLength(p) .. BlockEnd(p, b) - 1 : s[q] = Mask}
          = MaskedIn(s, Block(p, b))
    BY <1>3 DEF MaskedIn, Block
  <1>5. \A T : Published(r)!Cardinality(T) = Cardinality(T)
    BY DEF Published!Cardinality, Cardinality
  <1>6. Published(r)!TransfersOf(p, s, b) = Published(r)!NumTransferTokens(m, S)
    BY <1>1, <1>4, <1>5 DEF Published!TransfersOf
  <1>7. Published(r)!NumTransferTokens(m, S)
          = [k \in 0 .. S - 1 |-> IF k < m % S THEN m \div S + 1 ELSE m \div S]
    BY DEF Published!NumTransferTokens
  <1>8. TransferSchedule(m, S)
          = [k \in 0 .. S - 1 |-> m \div S + (IF k < m % S THEN 1 ELSE 0)]
    BY DEF TransferSchedule
  <1>9. \A k \in 0 .. S - 1 :
          (IF k < m % S THEN m \div S + 1 ELSE m \div S)
            = m \div S + (IF k < m % S THEN 1 ELSE 0)
    <2>1. m \div S \in Nat /\ m % S \in Nat
      BY <1>2, DivMod
    <2> HIDE DEF m, S
    <2> QED
      BY <2>1
  <1>10. Published(r)!NumTransferTokens(m, S) = TransferSchedule(m, S)
    <2> HIDE DEF m, S
    <2> QED
      BY <1>7, <1>8, <1>9
  <1> QED
    BY <1>1, <1>6, <1>10 DEF ScheduleOf

\* A new request without LocalLeap is a call of generate(); one with
\* LocalLeap is none of its business.
LEMMA SubmitPublished ==
  ASSUME CountersInv, NEW r \in Rows, Submit(r)
  PROVE  Published(r)!Call \/ UNCHANGED Published(r)!rvars
  <1>1. PICK p \in ValidParams : \E prompt \in [0 .. p.promptLen - 1 -> PromptTokens] :
          /\ params' = [params EXCEPT ![r] = p]
          /\ seq' = [seq EXCEPT ![r] = InitSeq(p, prompt)]
          /\ schedule' = [schedule EXCEPT ![r] = ScheduleOf(p, InitSeq(p, prompt), 0)]
    BY DEF Submit, ValidParams
  <1>2. PICK prompt \in [0 .. p.promptLen - 1 -> PromptTokens] :
          /\ params' = [params EXCEPT ![r] = p]
          /\ seq' = [seq EXCEPT ![r] = InitSeq(p, prompt)]
          /\ schedule' = [schedule EXCEPT ![r] = ScheduleOf(p, InitSeq(p, prompt), 0)]
    BY <1>1
  <1>3. params[r] = None /\ blockIdx' = blockIdx /\ stepInBlock' = stepInBlock
    BY DEF Submit
  <1>4. /\ params'[r] = p
        /\ seq'[r] = InitSeq(p, prompt)
        /\ schedule'[r] = ScheduleOf(p, InitSeq(p, prompt), 0)
        /\ blockIdx'[r] = 0
        /\ stepInBlock'[r] = 0
    BY <1>2, <1>3 DEF CountersInv, Counted, LoopTypeOK
  <1>5. p \in ParamSpace /\ Valid(p) /\ p # None
    BY ParamAssumption DEF ValidParams
  <1>6. ~Plain(r)
    BY <1>3 DEF Plain
  <1>7. CASE p.leap
    <2>1. ~Plain(r)'
      BY <1>4, <1>7 DEF Plain
    <2> QED
      BY <1>6, <2>1 DEF Published!rvars
  <1>8. CASE ~p.leap
    <2>1. Plain(r)'
      BY <1>4, <1>5, <1>8 DEF Plain
    <2>2. Published(r)!Valid(p)
      BY <1>5 DEF Valid, Published!Valid, NumBlocks, Published!NumBlocks,
                  BlockLength, Published!BlockLength
    <2>3. seq'[r] = [q \in 0 .. p.promptLen + p.genLength - 1 |->
                       IF q < p.promptLen THEN prompt[q] ELSE Mask]
      <3>1. InitSeq(p, prompt) = [q \in 0 .. p.promptLen + p.genLength - 1 |->
                                    IF q < p.promptLen THEN prompt[q] ELSE Mask]
        <4>1. Positions(p) = 0 .. p.promptLen + p.genLength - 1
          BY Shape DEF Positions, TotalLen, ParamType
        <4> QED
          BY <4>1 DEF InitSeq
      <3> QED
        BY <1>4, <3>1
    <2>4. schedule'[r] = Published(r)!TransfersOf(p, seq'[r], 0)
      <3>1. 0 \in Nat /\ 0 < NumBlocks(p)
        BY Shape
      <3> QED
        BY <1>4, <3>1, SameSchedule
    <2>5. Published(r)!Call
      BY <1>4, <1>5, <1>6, <1>8, <2>1, <2>2, <2>3, <2>4 DEF Published!Call
    <2> QED
      BY <2>5
  <1> QED
    BY <1>7, <1>8

\* A step without LocalLeap transfers what generate() transfers.
LEMMA CommitPublished ==
  ASSUME LoopTypeOK, NEW r \in Rows, r \in Unfinished, ~params[r].leap, NEW new,
         RowCommit(r, new, params[r].radius, params[r].temperature)
  PROVE  Published(r)!Transfer
  <1> DEFINE p == params[r]
             b == blockIdx[r]
             k == schedule[r][stepInBlock[r]]
             end == BlockEnd(p, b)
             F == FinitePositions(seq[r], end)
  <1>1. p # None /\ ~Done(p, b)
    BY DEF Unfinished
  <1>2. /\ p \in ValidParams
        /\ seq[r] \in [Positions(p) -> Token]
        /\ b \in Nat
    BY <1>1 DEF LoopTypeOK, ValidParams
  <1>3. b < NumBlocks(p)
    BY <1>1, <1>2, Shape DEF Done
  <1>4. /\ new \in Commits(seq[r], k, end, p.leap, p.radius, p.temperature)
        /\ params'[r] = p
        /\ seq'[r] = new
    BY DEF RowCommit
  <1>5. PICK C \in TopK(DOMAIN seq[r], F, k) : Writes(seq[r], C, p.temperature, new)
    BY <1>4, PlainCommitsAre
  <1>6. Plain(r) /\ Plain(r)'
    BY <1>1, <1>4 DEF Plain
  <1>7. F = {q \in DOMAIN seq[r] : seq[r][q] = Mask /\ q < Published(r)!BlockStop(p, b)}
    BY <1>2, <1>3, SameSchedule DEF FinitePositions, MaskedIn
  <1>8. C \in Published(r)!kSubset(k, DOMAIN seq[r])
    <2>1. \A T : Published(r)!Cardinality(T) = Cardinality(T)
      BY DEF Published!Cardinality, Cardinality
    <2> QED
      BY <1>5, <2>1 DEF TopK, kSubset, Published!kSubset
  <1>9. C \subseteq F \/ F \subseteq C
    BY <1>5 DEF TopK
  <1>10. Predictions(p.temperature)
           = ArgmaxTokens \cup (IF p.temperature = 0 THEN {} ELSE SampledTokens)
    <2>1. p.temperature \in Nat
      BY <1>2, Shape DEF ParamType
    <2> QED
      BY <2>1 DEF Predictions, Predicted
  <1>11. DOMAIN seq'[r] = DOMAIN seq[r]
    BY <1>4, <1>5 DEF Writes
  <1>12. \A q \in DOMAIN seq[r] :
           IF q \in C /\ seq[r][q] = Mask THEN seq'[r][q] \in Predictions(p.temperature)
           ELSE seq'[r][q] = seq[r][q]
    BY <1>4, <1>5 DEF Writes
  <1> HIDE DEF F, k
  <1>13. Published(r)!X0
           = ArgmaxTokens \cup (IF p.temperature = 0 THEN {} ELSE SampledTokens)
    BY <1>6 DEF Published!X0
  <1> QED
    BY <1>6, <1>7, <1>8, <1>9, <1>10, <1>11, <1>12, <1>13 DEF Published!Transfer, k

\* The counters of generate(): when the block ends early, the iterations that
\* are left transfer nothing.
LEMMA IteratePublished ==
  ASSUME NoStrayMask, PlainInv, NEW r \in Rows, r \in Unfinished, ~params[r].leap, NEW new,
         RowCommit(r, new, params[r].radius, params[r].temperature)
  PROVE  Published(r)!Iterate
  <1> DEFINE p == params[r]
             b == blockIdx[r]
             i == stepInBlock[r]
             S == StepsPerBlock(p)
  <1>1. LoopTypeOK /\ CountersInv
    BY DEF PlainInv, ScheduledInv, CountersInv
  <1>2. p # None /\ ~Done(p, b)
    BY DEF Unfinished
  <1>3. p \in ValidParams /\ b \in Nat /\ i \in Nat /\ i < S
    BY <1>1, <1>2 DEF LoopTypeOK, ValidParams, CountersInv, Counted
  <1>4. S \in Nat \ {0} /\ NumBlocks(p) \in Nat /\ BlockLength(p) \in Nat
    BY <1>3, Shape
  <1>5. b < NumBlocks(p)
    BY <1>2, <1>3, <1>4 DEF Done
  <1>6. params'[r] = p /\ seq'[r] = new
    BY DEF RowCommit
  <1>7. Plain(r) /\ Plain(r)'
    BY <1>2, <1>6 DEF Plain
  <1>8. Published(r)!Transfer
    BY <1>1, CommitPublished
  <1>9. Published(r)!StepsPerBlock(p) = S /\ Published(r)!NumBlocks(p) = NumBlocks(p)
    BY DEF Published!StepsPerBlock, StepsPerBlock, Published!NumBlocks, NumBlocks,
           Published!BlockLength, BlockLength
  <1> DEFINE Reaches(next) ==
               /\ \A k \in i + 1 .. next - 1 : schedule[r][k] = 0
               /\ IF next < S
                  THEN /\ stepInBlock'[r] = next
                       /\ blockIdx'[r] = b /\ schedule'[r] = schedule[r]
                  ELSE /\ stepInBlock'[r] = 0
                       /\ blockIdx'[r] = b + 1
                       /\ schedule'[r] = IF b + 1 < NumBlocks(p)
                                         THEN Published(r)!TransfersOf(p, seq'[r], b + 1)
                                         ELSE schedule[r]
  <1>10. \E next \in i + 1 .. S : Reaches(next)
    <2>1. CASE ~BlockOver(r, new)
      <3>1. stepInBlock'[r] = i + 1 /\ blockIdx'[r] = b /\ schedule'[r] = schedule[r]
        BY <2>1 DEF RowCommit
      <3>2. i + 1 < S
        BY <1>3, <1>4, <2>1 DEF BlockOver
      <3>3. i + 1 \in i + 1 .. S /\ (i + 1) .. (i + 1) - 1 = {}
        BY <1>3, <1>4, <3>2
      <3>4. Reaches(i + 1)
        BY <3>1, <3>2, <3>3
      <3> QED
        BY <3>3, <3>4
    <2>2. CASE BlockOver(r, new)
      <3>1. /\ stepInBlock'[r] = 0
            /\ blockIdx'[r] = b + 1
            /\ schedule'[r] = IF Done(p, b + 1) THEN schedule[r]
                              ELSE ScheduleOf(p, new, b + 1)
        BY <2>2 DEF RowCommit
      <3>2. b + 1 \in Nat /\ (Done(p, b + 1) <=> ~(b + 1 < NumBlocks(p)))
        BY <1>3, <1>4 DEF Done
      <3>3. schedule'[r] = IF b + 1 < NumBlocks(p)
                           THEN Published(r)!TransfersOf(p, seq'[r], b + 1)
                           ELSE schedule[r]
        BY <1>3, <1>6, <3>1, <3>2, SameSchedule
      <3>4. \A k \in i + 1 .. S - 1 : schedule[r][k] = 0
        <4>1. CASE i + 1 >= S
          BY <1>3, <1>4, <4>1
        <4>2. CASE MaskedIn(new, Block(p, b)) = {}
          <5>1. Cardinality(MaskedIn(new, Block(p, b))) = Budget(BlockLength(p), S, i + 1)
            BY PlainRowStep
          <5>2. Budget(BlockLength(p), S, i + 1) = 0
            BY <4>2, <5>1, FS_EmptySet
          <5>3. schedule[r] = TransferSchedule(BlockLength(p), S)
            BY DEF PlainInv, OnSchedule
          <5>4. i + 1 \in 0 .. S
            BY <1>3, <1>4
          <5> HIDE DEF p, S, i
          <5> QED
            BY <1>4, <5>2, <5>3, <5>4, NothingLeft
        <4> QED
          BY <2>2, <4>1, <4>2 DEF BlockOver
      <3>5. S \in i + 1 .. S /\ ~(S < S)
        BY <1>3, <1>4
      <3>6. Reaches(S)
        BY <3>1, <3>3, <3>4, <3>5
      <3> QED
        BY <3>5, <3>6
    <2> QED
      BY <2>1, <2>2
  <1> HIDE DEF p, b, i, S
  <1> QED
    BY <1>2, <1>5, <1>6, <1>7, <1>8, <1>9, <1>10 DEF Published!Iterate, p, b, i

\* Every step is, for each row without LocalLeap, a step of generate() or none.
LEMMA PublishedStep ==
  ASSUME NoStrayMask, OneSampling
  PROVE  PlainInv /\ [Next]_vars
           => [\A r \in Rows : [Published(r)!Next]_(Published(r)!rvars)]_vars
  <1> SUFFICES ASSUME PlainInv, Next, NEW r \in Rows
               PROVE  Published(r)!Next \/ UNCHANGED Published(r)!rvars
    OBVIOUS
  <1>1. LoopTypeOK /\ CountersInv /\ ScheduledInv
    BY DEF PlainInv, ScheduledInv, CountersInv
  <1>2. ASSUME RowRests(r) PROVE UNCHANGED Published(r)!rvars
    BY <1>2 DEF RowRests, Published!rvars, Plain
  <1>3. ASSUME NEW q \in Rows, Submit(q)
        PROVE  Published(r)!Next \/ UNCHANGED Published(r)!rvars
    <2>1. CASE r = q
      BY <1>1, <1>3, <2>1, SubmitPublished DEF Published!Next
    <2>2. CASE r # q
      BY <1>2, <1>3, <2>2 DEF Submit, RowRests
    <2> QED
      BY <2>1, <2>2
  <1>4. ASSUME NEW B \in Batches, NEW leader \in B, StepBatch(B, leader)
        PROVE  Published(r)!Next \/ UNCHANGED Published(r)!rvars
    <2>1. CASE r \notin B
      BY <1>1, <1>2, <1>4, <2>1, RowOfBatch
    <2>2. CASE r \in B
      <3>1. PICK new : RowCommit(r, new, params[r].radius, params[r].temperature)
        BY <1>1, <1>4, <2>2, RowOfBatch, OwnSampling
      <3>2. r \in Unfinished /\ params'[r] = params[r]
        BY <1>1, <1>4, <2>2, <3>1, RowOfBatch DEF RowCommit
      <3>3. CASE params[r].leap
        BY <3>2, <3>3 DEF Published!rvars, Plain
      <3>4. CASE ~params[r].leap
        BY <3>1, <3>2, <3>4, IteratePublished DEF Published!Next
      <3> QED
        BY <3>3, <3>4
    <2> QED
      BY <2>1, <2>2
  <1> QED
    BY <1>3, <1>4 DEF Next, Step

(***************************************************************************)
(* Without LocalLeap, every request makes a run of the generate() that was *)
(* published with the model, in whatever batches: the same tokens in the   *)
(* same iterations, those that transfer nothing left out.                  *)
(***************************************************************************)
THEOREM MatchesReference ==
  ASSUME NoStrayMask, OneSampling PROVE Spec => RowsMatchReference
  <1>1. Init => PlainInv
    BY PlainInit
  <1>2. PlainInv /\ [Next]_vars => PlainInv'
    BY PlainNext
  <1>3. PlainInv /\ [Next]_vars
          => [\A r \in Rows : [Published(r)!Next]_(Published(r)!rvars)]_vars
    BY PublishedStep
  <1>4. Init => \A r \in Rows : Published(r)!Init
    BY DEF Init, Published!Init, Plain
  <1> QED
    BY <1>1, <1>2, <1>3, <1>4, PTL DEF Spec, RowsMatchReference
=============================================================================
