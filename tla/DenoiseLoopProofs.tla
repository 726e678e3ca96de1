-------------------------- MODULE DenoiseLoopProofs --------------------------
(***************************************************************************)
(* Proofs about DenoiseLoop, for any set of requests, any parameters and   *)
(* any batches: types, the block budget and the filled canvas.             *)
(***************************************************************************)
EXTENDS DenoiseLoop, SamplerProofs

ValidParams == {p \in ParamSpace : Valid(p)}

-----------------------------------------------------------------------------
(***************************************************************************)
(* The arithmetic of blocks.                                               *)
(***************************************************************************)

\* An accepted request is cut into whole blocks, each of whole steps.
LEMMA Shape ==
  ASSUME NEW p \in ValidParams
  PROVE  /\ p \in ParamType
         /\ BlockLength(p) \in Nat \ {0}
         /\ NumBlocks(p) \in Nat \ {0}
         /\ StepsPerBlock(p) \in Nat \ {0}
         /\ p.genLength = NumBlocks(p) * BlockLength(p)
         /\ p.numSteps = NumBlocks(p) * StepsPerBlock(p)
         /\ p.promptLen \in Nat
         /\ TotalLen(p) \in Nat
  <1>1. /\ p \in ParamType
        /\ p.genLength % BlockLength(p) = 0
        /\ p.numSteps % NumBlocks(p) = 0
    BY ParamAssumption DEF ValidParams, Valid
  <1>2. /\ p.genLength \in Nat \ {0}
        /\ p.numSteps \in Nat \ {0}
        /\ p.promptLen \in Nat
        /\ BlockLength(p) \in Nat \ {0}
    BY <1>1, NoneAssumption DEF ParamType, BlockLength
  <1>3. \A a, b \in Nat \ {0} :
          a % b = 0 => a = b * (a \div b) /\ a \div b \in Nat \ {0}
    OBVIOUS
  <1>4. /\ p.genLength = BlockLength(p) * NumBlocks(p)
        /\ NumBlocks(p) \in Nat \ {0}
    BY <1>1, <1>2, <1>3 DEF NumBlocks
  <1>5. /\ StepsPerBlock(p) \in Nat \ {0}
        /\ p.numSteps = NumBlocks(p) * StepsPerBlock(p)
    BY <1>1, <1>2, <1>3, <1>4 DEF StepsPerBlock
  <1>6. BlockLength(p) * NumBlocks(p) = NumBlocks(p) * BlockLength(p)
    BY <1>2, <1>4
  <1> QED
    BY <1>1, <1>2, <1>4, <1>5, <1>6 DEF TotalLen

\* The positions of a sequence are finite in number.
LEMMA PrefixFinite ==
  ASSUME NEW n \in Nat
  PROVE  IsFiniteSet(0 .. n - 1)
  <1>1. 0 \in Int /\ n - 1 \in Int
    OBVIOUS
  <1> QED
    BY <1>1, FS_Interval

\* Blocks follow each other, and the last one ends with the sequence.
LEMMA BlockBounds ==
  ASSUME NEW p \in ValidParams, NEW b \in Nat, b < NumBlocks(p)
  PROVE  /\ BlockStart(p, b) \in Nat
         /\ BlockEnd(p, b) = BlockStart(p, b) + BlockLength(p)
         /\ BlockStart(p, b + 1) = BlockEnd(p, b)
         /\ BlockEnd(p, b) <= TotalLen(p)
         /\ b + 1 >= NumBlocks(p) => BlockEnd(p, b) = TotalLen(p)
  <1> DEFINE B == BlockLength(p)
             n == NumBlocks(p)
             g == p.genLength
             l == p.promptLen
  <1>1. B \in Nat \ {0} /\ n \in Nat \ {0} /\ g = n * B /\ l \in Nat
    BY Shape
  <1>2. /\ BlockStart(p, b) = l + b * B
        /\ BlockStart(p, b + 1) = l + (b + 1) * B
        /\ BlockEnd(p, b) = l + (b + 1) * B
        /\ TotalLen(p) = l + g
    BY DEF BlockStart, BlockEnd, TotalLen
  <1>3. b < n
    OBVIOUS
  <1> HIDE DEF B, n, g, l
  <1>4. /\ b * B \in Nat
        /\ (b + 1) * B = b * B + B
        /\ (b + 1) * B <= n * B
    BY <1>1, <1>3
  <1>5. b + 1 >= n => (b + 1) * B = n * B
    BY <1>1, <1>3
  <1>6. n * B \in Nat
    BY <1>1
  <1>7. /\ BlockEnd(p, b) = BlockStart(p, b) + B
        /\ BlockStart(p, b + 1) = BlockEnd(p, b)
    BY <1>1, <1>2, <1>4
  <1>8. /\ BlockStart(p, b) \in Nat
        /\ BlockEnd(p, b) <= TotalLen(p)
    BY <1>1, <1>2, <1>4, <1>6
  <1>9. b + 1 >= n => BlockEnd(p, b) = TotalLen(p)
    BY <1>1, <1>2, <1>5
  <1> QED
    BY <1>7, <1>8, <1>9 DEF B, n

\* A block is a finite range of BlockLength positions.
LEMMA BlockFinite ==
  ASSUME NEW p \in ValidParams, NEW b \in Nat, b < NumBlocks(p)
  PROVE  /\ Block(p, b) \subseteq Positions(p)
         /\ IsFiniteSet(Block(p, b))
         /\ Cardinality(Block(p, b)) = BlockLength(p)
  <1>1. /\ BlockStart(p, b) \in Nat
        /\ BlockLength(p) \in Nat \ {0}
        /\ BlockEnd(p, b) = BlockStart(p, b) + BlockLength(p)
        /\ BlockEnd(p, b) <= TotalLen(p)
        /\ TotalLen(p) \in Nat
    BY Shape, BlockBounds
  <1>2. Block(p, b) \subseteq Positions(p)
    BY <1>1 DEF Block, Positions
  <1>3. /\ IsFiniteSet(BlockStart(p, b) .. BlockEnd(p, b) - 1)
        /\ Cardinality(BlockStart(p, b) .. BlockEnd(p, b) - 1) = BlockLength(p)
    <2>1. \A a \in Nat, n \in Nat \ {0} :
            IsFiniteSet(a .. a + n - 1) /\ Cardinality(a .. a + n - 1) = n
      BY FS_Interval
    <2>2. BlockEnd(p, b) - 1 = BlockStart(p, b) + BlockLength(p) - 1
      BY <1>1
    <2>3. LET top == BlockStart(p, b) + BlockLength(p) - 1
          IN  /\ IsFiniteSet(BlockStart(p, b) .. top)
              /\ Cardinality(BlockStart(p, b) .. top) = BlockLength(p)
      BY <1>1, <2>1
    <2> QED
      BY <2>2, <2>3
  <1> QED
    BY <1>2, <1>3 DEF Block

\* The masks of a block are countable, and no more than the block is long.
LEMMA MasksOfBlock ==
  ASSUME NEW p \in ValidParams, NEW b \in Nat, b < NumBlocks(p), NEW s
  PROVE  /\ IsFiniteSet(MaskedIn(s, Block(p, b)))
         /\ Cardinality(MaskedIn(s, Block(p, b))) \in 0 .. BlockLength(p)
  <1>1. /\ IsFiniteSet(Block(p, b))
        /\ Cardinality(Block(p, b)) = BlockLength(p)
        /\ BlockLength(p) \in Nat
    BY BlockFinite, Shape
  <1>2. MaskedIn(s, Block(p, b)) \subseteq Block(p, b)
    BY DEF MaskedIn
  <1>3. /\ IsFiniteSet(MaskedIn(s, Block(p, b)))
        /\ Cardinality(MaskedIn(s, Block(p, b))) <= Cardinality(Block(p, b))
    BY <1>1, <1>2, FS_Subset
  <1>4. Cardinality(MaskedIn(s, Block(p, b))) \in Nat
    BY <1>3, FS_CardinalityType
  <1> QED
    BY <1>1, <1>3, <1>4

\* A new block's schedule is a schedule for exactly its masks.
LEMMA FreshSchedule ==
  ASSUME NEW p \in ValidParams, NEW b \in Nat, b < NumBlocks(p), NEW s
  PROVE  /\ ScheduleOf(p, s, b) \in [0 .. StepsPerBlock(p) - 1 -> Nat]
         /\ \E m \in 0 .. BlockLength(p) :
              /\ ScheduleOf(p, s, b) = TransferSchedule(m, StepsPerBlock(p))
              /\ Cardinality(MaskedIn(s, Block(p, b))) <= Budget(m, StepsPerBlock(p), 0)
  <1> DEFINE m == Cardinality(MaskedIn(s, Block(p, b)))
  <1>1. /\ m \in 0 .. BlockLength(p)
        /\ m \in Nat
        /\ StepsPerBlock(p) \in Nat \ {0}
    BY MasksOfBlock, Shape
  <1>2. ScheduleOf(p, s, b) = TransferSchedule(m, StepsPerBlock(p))
    BY DEF ScheduleOf
  <1>3. TransferSchedule(m, StepsPerBlock(p)) \in [0 .. StepsPerBlock(p) - 1 -> Nat]
    BY <1>1, ScheduleType
  <1>4. m <= Budget(m, StepsPerBlock(p), 0)
    BY <1>1, BudgetStart
  <1> QED
    BY <1>1, <1>2, <1>3, <1>4

-----------------------------------------------------------------------------
(***************************************************************************)
(* One commit on one row.                                                  *)
(***************************************************************************)

\* W holds a topk set of k positions of s below end.
Covers(W, s, k, end) ==
  \E C \in TopK(DOMAIN s, FinitePositions(s, end), k) : C \subseteq W

\* A commit writes predictions at the masked positions of a set that holds
\* a topk set, and nothing else.
LEMMA CommitEffect ==
  ASSUME NEW s, NEW k, NEW end, NEW leap, NEW radius, NEW temperature,
         NEW t \in Commits(s, k, end, leap, radius, temperature)
  PROVE  \E W :
           /\ Covers(W, s, k, end)
           /\ t = [x \in DOMAIN s |-> t[x]]
           /\ \A x \in DOMAIN s :
                IF x \in W /\ s[x] = Mask THEN t[x] \in Predicted ELSE t[x] = s[x]
  <1> DEFINE finite == FinitePositions(s, end)
             chosen == IF leap THEN LeapCommits(DOMAIN s, finite, k, radius)
                               ELSE TopKCommits(DOMAIN s, finite, k)
  <1>1. PICK W \in chosen : t \in CommitAt(s, W, temperature)
    BY DEF Commits
  <1>2. finite \in SUBSET DOMAIN s
    BY DEF MaskedIn, FinitePositions
  <1>3. W \in TopKCommits(DOMAIN s, finite, k) \cup LeapCommits(DOMAIN s, finite, k, radius)
    BY <1>1
  <1>4. \E C \in TopK(DOMAIN s, finite, k) : C \subseteq W
    <2> HIDE DEF finite, chosen
    <2> QED
      BY <1>2, <1>3, CommitsCoverTopK
  <1>5. PICK x0 \in [MaskedIn(s, W) -> Predictions(temperature)] :
          t = [x \in DOMAIN s |-> IF x \in DOMAIN x0 THEN x0[x] ELSE s[x]]
    BY <1>1 DEF CommitAt
  <1>6. Predictions(temperature) \subseteq Predicted
    BY DEF Predictions, Predicted
  <1>7. \A x : x \in DOMAIN x0 <=> x \in W /\ s[x] = Mask
    BY DEF MaskedIn
  <1>8. \A x \in DOMAIN s :
          IF x \in W /\ s[x] = Mask THEN t[x] \in Predicted ELSE t[x] = s[x]
    BY <1>5, <1>6, <1>7
  <1>9. t = [x \in DOMAIN s |-> t[x]]
    BY <1>5
  <1> QED
    BY <1>4, <1>8, <1>9 DEF Covers

(***************************************************************************)
(* The facts about row r and its batch under which step_batch treats it.   *)
(***************************************************************************)
RowFits(r, maxPromptLen, maxTotal) ==
  /\ params[r] \in ValidParams
  /\ seq[r] \in [Positions(params[r]) -> Token]
  /\ maxPromptLen \in Nat
  /\ maxTotal \in Nat
  /\ params[r].promptLen <= maxPromptLen
  /\ maxPromptLen + params[r].genLength <= maxTotal

\* Padding only moves the row: position x is column x + Offset, and every
\* other column holds Pad.
LEMMA Padding ==
  ASSUME NEW r \in Rows, NEW maxPromptLen, NEW maxTotal,
         RowFits(r, maxPromptLen, maxTotal)
  PROVE  LET o == Offset(r, maxPromptLen)
             c == Padded(r, maxPromptLen, maxTotal)
         IN  /\ o \in Nat
             /\ DOMAIN c = 0 .. maxTotal - 1
             /\ \A x \in Positions(params[r]) :
                  x + o \in 0 .. maxTotal - 1 /\ c[x + o] = seq[r][x]
             /\ \A y \in 0 .. maxTotal - 1 :
                  c[y] = Mask => y - o \in Positions(params[r])
  <1> DEFINE p == params[r]
             o == Offset(r, maxPromptLen)
             c == Padded(r, maxPromptLen, maxTotal)
  <1>1. /\ p \in ValidParams
        /\ maxPromptLen \in Nat /\ maxTotal \in Nat
        /\ p.promptLen <= maxPromptLen
        /\ maxPromptLen + p.genLength <= maxTotal
    BY DEF RowFits
  <1>2. p.promptLen \in Nat /\ p.genLength \in Nat
    BY <1>1, Shape DEF ParamType
  <1>3. o = maxPromptLen - p.promptLen
    BY DEF Offset
  <1>4. o \in Nat
    BY <1>1, <1>2, <1>3
  <1>5. /\ Positions(p) = 0 .. TotalLen(p) - 1
        /\ TotalLen(p) = p.promptLen + p.genLength
    BY DEF Positions, TotalLen
  <1>6. c = [x \in 0 .. maxTotal - 1 |->
               IF x - o \in Positions(p) THEN seq[r][x - o] ELSE Pad]
    BY DEF Padded
  <1> HIDE DEF p, o, c
  <1>7. ASSUME NEW x \in Positions(p)
        PROVE  x + o \in 0 .. maxTotal - 1 /\ c[x + o] = seq[r][x]
    <2>1. x \in Int /\ x + o \in 0 .. maxTotal - 1 /\ (x + o) - o = x
      BY <1>1, <1>2, <1>3, <1>4, <1>5
    <2> QED
      BY <1>6, <2>1
  <1>8. \A y \in 0 .. maxTotal - 1 : c[y] = Mask => y - o \in Positions(p)
    BY <1>6, PadAssumption
  <1> QED
    BY <1>4, <1>6, <1>7, <1>8 DEF p, o, c

\* A step keeps what is committed, in the row's own positions, and writes
\* predictions at some of its masks.
LEMMA RowStepShape ==
  ASSUME NEW r \in Rows, NEW leader \in Rows, NEW maxPromptLen, NEW maxTotal,
         RowFits(r, maxPromptLen, maxTotal),
         NEW new \in RowResults(r, leader, maxPromptLen, maxTotal)
  PROVE  /\ new \in [Positions(params[r]) -> Token]
         /\ \A x \in Positions(params[r]) :
              \/ new[x] = seq[r][x]
              \/ seq[r][x] = Mask /\ new[x] \in Predicted
  <1> DEFINE p == params[r]
             o == Offset(r, maxPromptLen)
             c == Padded(r, maxPromptLen, maxTotal)
  <1>1. PICK canvas \in Commits(c, schedule[r][stepInBlock[r]],
                                o + BlockEnd(p, blockIdx[r]),
                                params[leader].leap, params[leader].radius,
                                params[leader].temperature) :
          new = Unpadded(r, maxPromptLen, canvas)
    BY DEF RowResults
  <1>2. \A y \in DOMAIN c :
          canvas[y] = c[y] \/ (c[y] = Mask /\ canvas[y] \in Predicted)
    BY <1>1, CommitEffect
  <1>3. /\ DOMAIN c = 0 .. maxTotal - 1
        /\ \A x \in Positions(p) : x + o \in 0 .. maxTotal - 1 /\ c[x + o] = seq[r][x]
    BY Padding
  <1>4. new = [x \in Positions(p) |-> canvas[x + o]]
    BY <1>1 DEF Unpadded
  <1>5. \A x \in Positions(p) :
          new[x] = seq[r][x] \/ (seq[r][x] = Mask /\ new[x] \in Predicted)
    BY <1>2, <1>3, <1>4
  <1>6. \A x \in Positions(p) : new[x] \in Token
    BY <1>5 DEF RowFits, Token
  <1> QED
    BY <1>4, <1>5, <1>6

\* A step takes its k commits off the masks of the row's block, or leaves
\* none of them: the pads never compete for the commits.
LEMMA RowStepCount ==
  ASSUME NEW r \in Rows, NEW leader \in Rows, NEW maxPromptLen, NEW maxTotal,
         RowFits(r, maxPromptLen, maxTotal),
         NEW new \in RowResults(r, leader, maxPromptLen, maxTotal),
         Mask \notin Predicted,
         blockIdx[r] \in Nat, blockIdx[r] < NumBlocks(params[r]),
         schedule[r][stepInBlock[r]] \in Nat,
         MaskedIn(seq[r], 0 .. BlockStart(params[r], blockIdx[r]) - 1) = {}
  PROVE  LET old  == MaskedIn(seq[r], Block(params[r], blockIdx[r]))
             left == MaskedIn(new, Block(params[r], blockIdx[r]))
         IN  \/ left = {}
             \/ Cardinality(left) <= Cardinality(old) - schedule[r][stepInBlock[r]]
  <1> DEFINE p == params[r]
             b == blockIdx[r]
             k == schedule[r][stepInBlock[r]]
             o == Offset(r, maxPromptLen)
             c == Padded(r, maxPromptLen, maxTotal)
             D == 0 .. maxTotal - 1
             finite == FinitePositions(c, o + BlockEnd(p, b))
             old  == MaskedIn(seq[r], Block(p, b))
             left == MaskedIn(new, Block(p, b))
  <1>1. /\ p \in ValidParams /\ maxTotal \in Nat /\ TotalLen(p) \in Nat
        /\ b \in Nat /\ b < NumBlocks(p)
    BY Shape DEF RowFits
  <1>2. /\ o \in Nat
        /\ DOMAIN c = D
        /\ \A x \in Positions(p) : x + o \in D /\ c[x + o] = seq[r][x]
        /\ \A y \in D : c[y] = Mask => y - o \in Positions(p)
    BY Padding
  <1>3. /\ BlockStart(p, b) \in Nat
        /\ BlockEnd(p, b) \in Nat
        /\ BlockEnd(p, b) <= TotalLen(p)
    BY <1>1, BlockBounds, Shape
  <1>4. PICK canvas \in Commits(c, k, o + BlockEnd(p, b),
                                params[leader].leap, params[leader].radius,
                                params[leader].temperature) :
          new = Unpadded(r, maxPromptLen, canvas)
    BY DEF RowResults
  <1>5. PICK W :
          /\ Covers(W, c, k, o + BlockEnd(p, b))
          /\ \A y \in DOMAIN c :
               IF y \in W /\ c[y] = Mask THEN canvas[y] \in Predicted ELSE canvas[y] = c[y]
    <2> DEFINE end == o + BlockEnd(p, b)
               le == params[leader].leap
               ra == params[leader].radius
               te == params[leader].temperature
    <2>1. canvas \in Commits(c, k, end, le, ra, te)
      BY <1>4
    <2> HIDE DEF c, k, end, le, ra, te
    <2>2. \E W :
            /\ Covers(W, c, k, end)
            /\ canvas = [y \in DOMAIN c |-> canvas[y]]
            /\ \A y \in DOMAIN c :
                 IF y \in W /\ c[y] = Mask THEN canvas[y] \in Predicted ELSE canvas[y] = c[y]
      BY <2>1, CommitEffect
    <2> QED
      BY <2>2 DEF end
  <1>6. PICK C \in TopK(DOMAIN c, finite, k) : C \subseteq W
    BY <1>5 DEF Covers
  <1>7. new = [x \in Positions(p) |-> canvas[x + o]]
    BY <1>4 DEF Unpadded
  <1>8. /\ Block(p, b) \subseteq Positions(p)
        /\ Block(p, b) = BlockStart(p, b) .. BlockEnd(p, b) - 1
        /\ Positions(p) = 0 .. TotalLen(p) - 1
        /\ IsFiniteSet(old)
    BY <1>1, BlockFinite, MasksOfBlock DEF Block, Positions
  <1>9. IsFiniteSet(D)
    <2>1. maxTotal \in Nat
      BY <1>1
    <2> HIDE DEF p, b, k, o, c, finite, old, left
    <2> QED
      BY <2>1, PrefixFinite
  <1>10. finite = {y \in D : c[y] = Mask /\ y < o + BlockEnd(p, b)}
    BY <1>2 DEF MaskedIn, FinitePositions
  <1>11. old = {x \in Block(p, b) : seq[r][x] = Mask}
    BY DEF MaskedIn
  <1>12. left = {x \in Block(p, b) : new[x] = Mask}
    BY DEF MaskedIn
  <1>13. \A x \in 0 .. BlockStart(p, b) - 1 : seq[r][x] # Mask
    BY DEF MaskedIn
  <1>14. k \in Nat /\ Mask \notin Predicted
    OBVIOUS
  <1> HIDE DEF p, b, k, o, c, finite, old, left
  <1>15. ASSUME NEW y \in finite PROVE y - o \in old
    <2>1. y \in D /\ c[y] = Mask /\ y < o + BlockEnd(p, b) /\ y \in Int
      BY <1>1, <1>10
    <2>2. y - o \in Positions(p) /\ (y - o) + o = y
      BY <1>2, <2>1
    <2>3. seq[r][y - o] = Mask
      BY <1>2, <2>1, <2>2
    <2>4. y - o \in Block(p, b)
      BY <1>2, <1>3, <1>8, <1>13, <2>1, <2>2, <2>3
    <2> QED
      BY <1>11, <2>3, <2>4
  <1>16. Cardinality(finite) <= Cardinality(old)
    <2> DEFINE f == [y \in finite |-> y - o]
    <2>1. f \in [finite -> old]
      BY <1>15
    <2>2. \A y, z \in finite : f[y] = f[z] => y = z
      BY <1>1, <1>2, <1>10
    <2> HIDE DEF f
    <2> QED
      BY <1>8, <2>1, <2>2, CountByInjection
  <1>17. ASSUME NEW x \in left PROVE x + o \in finite \ C
    <2>1. x \in Block(p, b) /\ x \in Positions(p) /\ new[x] = Mask /\ x \in Int
      BY <1>3, <1>8, <1>12
    <2>2. x + o \in D /\ c[x + o] = seq[r][x] /\ canvas[x + o] = Mask
      BY <1>2, <1>7, <2>1
    <2>3. c[x + o] = Mask /\ x + o \notin W
      BY <1>2, <1>5, <1>14, <2>2
    <2>4. x + o < o + BlockEnd(p, b)
      BY <1>2, <1>3, <1>8, <2>1
    <2> QED
      BY <1>6, <1>10, <2>2, <2>3, <2>4
  <1>18. /\ IsFiniteSet(finite \ C)
         /\ IsFiniteSet(finite)
         /\ \/ finite \ C = {}
            \/ Cardinality(finite \ C) = Cardinality(finite) - k
    <2>1. finite \in SUBSET D
      BY <1>10
    <2> HIDE DEF D
    <2> QED
      BY <1>2, <1>6, <1>9, <1>14, <2>1, TopKCovers, FS_Subset
  <1>19. CASE finite \ C = {}
    BY <1>17, <1>19 DEF left, p, b
  <1>20. CASE Cardinality(finite \ C) = Cardinality(finite) - k
    <2> DEFINE g == [x \in left |-> x + o]
    <2>1. g \in [left -> finite \ C]
      BY <1>17
    <2>2. \A x, z \in left : g[x] = g[z] => x = z
      BY <1>2, <1>3, <1>8, <1>12
    <2> HIDE DEF g
    <2>3. IsFiniteSet(left) /\ Cardinality(left) <= Cardinality(finite \ C)
      BY <1>18, <2>1, <2>2, CountByInjection
    <2>4. /\ Cardinality(left) \in Nat
          /\ Cardinality(finite) \in Nat
          /\ Cardinality(old) \in Nat
      BY <1>8, <1>18, <2>3, FS_CardinalityType
    <2>5. Cardinality(left) <= Cardinality(old) - k
      BY <1>14, <1>16, <1>20, <2>3, <2>4
    <2> QED
      BY <2>5 DEF left, old, p, b, k
  <1> QED
    BY <1>18, <1>19, <1>20

-----------------------------------------------------------------------------
(***************************************************************************)
(* Types.                                                                  *)
(***************************************************************************)

\* What step_batch does, row by row: every row of the batch gets a result
\* that RowStepShape and RowStepCount speak about.
LEMMA BatchStep ==
  ASSUME LoopTypeOK, NEW B \in Batches, NEW leader \in B, StepBatch(B, leader)
  PROVE  /\ B \subseteq Rows
         /\ \A r \in B : /\ params[r] \in ValidParams
                         /\ ~Done(params[r], blockIdx[r])
         /\ params' = params
         /\ \E new, maxPromptLen, maxTotal :
              /\ \A r \in B : /\ RowFits(r, maxPromptLen, maxTotal)
                              /\ new[r] \in RowResults(r, leader, maxPromptLen, maxTotal)
              /\ seq' = [r \in Rows |-> IF r \in B THEN new[r] ELSE seq[r]]
              /\ Advance(B, new)
  <1>1. /\ B \subseteq Rows
        /\ \A r \in B : params[r] # None /\ ~Done(params[r], blockIdx[r])
    BY DEF Batches, Unfinished
  <1>2. \A r \in B : params[r] \in ValidParams
    BY <1>1 DEF LoopTypeOK, ValidParams
  <1>3. PICK maxPromptLen \in {params[r].promptLen : r \in B} :
        \E maxTotal \in {maxPromptLen + params[r].genLength : r \in B} :
          /\ Longest(maxPromptLen, {params[r].promptLen : r \in B})
          /\ Longest(maxTotal, {maxPromptLen + params[r].genLength : r \in B})
          /\ \E new \in [B -> UNION {RowResults(r, leader, maxPromptLen, maxTotal) : r \in B}] :
               /\ \A r \in B : new[r] \in RowResults(r, leader, maxPromptLen, maxTotal)
               /\ seq' = [r \in Rows |-> IF r \in B THEN new[r] ELSE seq[r]]
               /\ Advance(B, new)
               /\ params' = params
    BY DEF StepBatch
  <1>4. PICK maxTotal \in {maxPromptLen + params[r].genLength : r \in B} :
          /\ Longest(maxPromptLen, {params[r].promptLen : r \in B})
          /\ Longest(maxTotal, {maxPromptLen + params[r].genLength : r \in B})
          /\ \E new \in [B -> UNION {RowResults(r, leader, maxPromptLen, maxTotal) : r \in B}] :
               /\ \A r \in B : new[r] \in RowResults(r, leader, maxPromptLen, maxTotal)
               /\ seq' = [r \in Rows |-> IF r \in B THEN new[r] ELSE seq[r]]
               /\ Advance(B, new)
               /\ params' = params
    BY <1>3
  <1>5. \A r \in B : params[r].promptLen \in Nat /\ params[r].genLength \in Nat
    BY <1>2, Shape DEF ParamType
  <1>6. /\ maxPromptLen \in Nat
        /\ maxTotal \in Nat
        /\ \A r \in B : /\ params[r].promptLen <= maxPromptLen
                        /\ maxPromptLen + params[r].genLength <= maxTotal
    <2>1. \A n, S : Longest(n, S) => n \in S /\ \A m \in S : m <= n
      BY DEF Longest
    <2>2. \A r \in B : params[r].promptLen <= maxPromptLen
      BY <1>4, <2>1
    <2>3. \A r \in B : maxPromptLen + params[r].genLength <= maxTotal
      BY <1>4, <2>1
    <2>4. maxPromptLen \in Nat
      BY <1>3, <1>5
    <2>5. maxTotal \in Nat
      BY <1>4, <1>5, <2>4
    <2> QED
      BY <2>2, <2>3, <2>4, <2>5
  <1>7. \A r \in B : seq[r] \in [Positions(params[r]) -> Token]
    BY <1>1 DEF LoopTypeOK
  <1>8. \A r \in B : RowFits(r, maxPromptLen, maxTotal)
    BY <1>2, <1>6, <1>7 DEF RowFits
  <1> QED
    BY <1>1, <1>2, <1>4, <1>8

\* The sequence init_state builds.
LEMMA InitSeqType ==
  ASSUME NEW p \in ValidParams, NEW prompt \in [0 .. p.promptLen - 1 -> PromptTokens]
  PROVE  InitSeq(p, prompt) \in [Positions(p) -> Token]
  <1>1. \A x \in Positions(p) : x < p.promptLen => x \in 0 .. p.promptLen - 1
    BY Shape DEF Positions
  <1> QED
    BY <1>1 DEF InitSeq, Token

\* The initial state is well typed.
LEMMA TypeInit == Init => LoopTypeOK
  BY DEF Init, LoopTypeOK

\* Every step keeps the types.
LEMMA TypeStep == LoopTypeOK /\ [Next]_vars => LoopTypeOK'
  <1> SUFFICES ASSUME LoopTypeOK, [Next]_vars PROVE LoopTypeOK'
    OBVIOUS
  <1>1. ASSUME NEW r \in Rows, Submit(r) PROVE LoopTypeOK'
    <2>1. PICK p \in ParamSpace :
            /\ Valid(p)
            /\ params' = [params EXCEPT ![r] = p]
            /\ \E prompt \in [0 .. p.promptLen - 1 -> PromptTokens] :
                 /\ seq' = [seq EXCEPT ![r] = InitSeq(p, prompt)]
                 /\ schedule' = [schedule EXCEPT ![r] = ScheduleOf(p, InitSeq(p, prompt), 0)]
      BY <1>1 DEF Submit
    <2>2. PICK prompt \in [0 .. p.promptLen - 1 -> PromptTokens] :
            /\ seq' = [seq EXCEPT ![r] = InitSeq(p, prompt)]
            /\ schedule' = [schedule EXCEPT ![r] = ScheduleOf(p, InitSeq(p, prompt), 0)]
      BY <2>1
    <2>3. p \in ValidParams
      BY <2>1 DEF ValidParams
    <2>4. /\ InitSeq(p, prompt) \in [Positions(p) -> Token]
          /\ ScheduleOf(p, InitSeq(p, prompt), 0) \in [0 .. StepsPerBlock(p) - 1 -> Nat]
      BY <2>3, InitSeqType, FreshSchedule, Shape
    <2>5. UNCHANGED <<blockIdx, stepInBlock>>
      BY <1>1 DEF Submit
    <2>6. p # None
      BY <2>1, ParamAssumption
    <2>7. /\ params' \in [Rows -> {q \in ParamSpace : Valid(q)} \cup {None}]
          /\ blockIdx' \in [Rows -> Nat]
          /\ stepInBlock' \in [Rows -> Nat]
      BY <2>1, <2>5 DEF LoopTypeOK
    <2>8. DOMAIN params = Rows /\ DOMAIN seq = Rows /\ DOMAIN schedule = Rows
      BY DEF LoopTypeOK
    <2>9. ASSUME NEW q \in Rows
          PROVE  IF params'[q] = None
                 THEN seq'[q] = << >> /\ schedule'[q] = << >>
                 ELSE /\ seq'[q] \in [Positions(params'[q]) -> Token]
                      /\ schedule'[q] \in [0 .. StepsPerBlock(params'[q]) - 1 -> Nat]
      <3>1. CASE q = r
        <4>1. params'[q] = p
          BY <2>1, <2>8, <3>1
        <4>2. seq'[q] = InitSeq(p, prompt) /\ schedule'[q] = ScheduleOf(p, InitSeq(p, prompt), 0)
          BY <2>2, <2>8, <3>1
        <4> QED
          BY <2>4, <2>6, <4>1, <4>2
      <3>2. CASE q # r
        <4>1. params'[q] = params[q] /\ seq'[q] = seq[q] /\ schedule'[q] = schedule[q]
          BY <2>1, <2>2, <3>2
        <4> QED
          BY <4>1 DEF LoopTypeOK
      <3> QED
        BY <3>1, <3>2
    <2>10. DOMAIN seq' = Rows /\ DOMAIN schedule' = Rows
      BY <2>2, <2>8
    <2> QED
      BY <2>7, <2>9, <2>10 DEF LoopTypeOK
  <1>2. ASSUME NEW B \in Batches, NEW leader \in B, StepBatch(B, leader) PROVE LoopTypeOK'
    <2>1. /\ B \subseteq Rows
          /\ \A r \in B : params[r] \in ValidParams /\ ~Done(params[r], blockIdx[r])
          /\ params' = params
      BY <1>2, BatchStep
    <2>2. PICK new, maxPromptLen, maxTotal :
            /\ \A r \in B : /\ RowFits(r, maxPromptLen, maxTotal)
                            /\ new[r] \in RowResults(r, leader, maxPromptLen, maxTotal)
            /\ seq' = [r \in Rows |-> IF r \in B THEN new[r] ELSE seq[r]]
            /\ Advance(B, new)
      BY <1>2, BatchStep
    <2>3. /\ blockIdx' \in [Rows -> Nat]
          /\ stepInBlock' \in [Rows -> Nat]
          /\ DOMAIN seq' = Rows
          /\ DOMAIN schedule' = Rows
      BY <2>2 DEF LoopTypeOK, Advance
    <2>4. ASSUME NEW r \in Rows, params[r] # None
          PROVE  /\ seq'[r] \in [Positions(params[r]) -> Token]
                 /\ schedule'[r] \in [0 .. StepsPerBlock(params[r]) - 1 -> Nat]
      <3>1. CASE r \in B
        <4>1. seq'[r] \in [Positions(params[r]) -> Token]
          BY <2>1, <2>2, <3>1, RowStepShape
        <4>2. CASE BlockOver(r, new[r]) /\ ~Done(params[r], blockIdx[r] + 1)
          <5>1. schedule'[r] = ScheduleOf(params[r], new[r], blockIdx[r] + 1)
            BY <2>2, <3>1, <4>2 DEF Advance
          <5>2. blockIdx[r] + 1 \in Nat /\ blockIdx[r] + 1 < NumBlocks(params[r])
            BY <2>1, <3>1, <4>2, Shape DEF LoopTypeOK, Done
          <5> QED
            BY <2>1, <3>1, <4>1, <5>1, <5>2, FreshSchedule
        <4>3. CASE ~(BlockOver(r, new[r]) /\ ~Done(params[r], blockIdx[r] + 1))
          BY <2>2, <4>1, <4>3, <2>4 DEF Advance, LoopTypeOK
        <4> QED
          BY <4>2, <4>3
      <3>2. CASE r \notin B
        BY <2>2, <2>4, <3>2 DEF LoopTypeOK, Advance
      <3> QED
        BY <3>1, <3>2
    <2>5. ASSUME NEW r \in Rows, params[r] = None
          PROVE  seq'[r] = << >> /\ schedule'[r] = << >>
      <3>1. r \notin B
        BY <2>1, <2>5, ParamAssumption DEF ValidParams
      <3> QED
        BY <2>2, <2>5, <3>1 DEF LoopTypeOK, Advance
    <2> QED
      BY <2>1, <2>3, <2>4, <2>5 DEF LoopTypeOK
  <1>3. CASE UNCHANGED vars
    BY <1>3 DEF LoopTypeOK, vars
  <1> QED
    BY <1>1, <1>2, <1>3 DEF Next, Step

(***************************************************************************)
(* Type correctness: whatever the batches, a row is read back at its own   *)
(* offset, so that no pad ever enters a sequence, and its schedule keeps   *)
(* the length of its own blocks.                                           *)
(***************************************************************************)
THEOREM TypeCorrect == Spec => []LoopTypeOK
  BY TypeInit, TypeStep, PTL DEF Spec

-----------------------------------------------------------------------------
(***************************************************************************)
(* Committed tokens.                                                       *)
(***************************************************************************)

\* No step overwrites a committed token.
LEMMA StableStep == LoopTypeOK /\ [Next]_vars => [KeepCommitted]_vars
  <1> SUFFICES ASSUME LoopTypeOK, Next PROVE KeepCommitted
    OBVIOUS
  <1>1. ASSUME NEW q \in Rows, Submit(q) PROVE KeepCommitted
    <2>1. params[q] = None /\ \A r \in Rows \ {q} : seq'[r] = seq[r]
      BY <1>1 DEF Submit, LoopTypeOK
    <2> QED
      BY <2>1 DEF KeepCommitted
  <1>2. ASSUME NEW B \in Batches, NEW leader \in B, StepBatch(B, leader)
        PROVE  KeepCommitted
    <2>1. B \subseteq Rows
      BY <1>2, BatchStep
    <2>2. PICK new, maxPromptLen, maxTotal :
            /\ \A r \in B : /\ RowFits(r, maxPromptLen, maxTotal)
                            /\ new[r] \in RowResults(r, leader, maxPromptLen, maxTotal)
            /\ seq' = [r \in Rows |-> IF r \in B THEN new[r] ELSE seq[r]]
      BY <1>2, BatchStep
    <2>3. ASSUME NEW r \in B, NEW x \in Positions(params[r])
          PROVE  seq[r][x] # Mask => seq'[r][x] = seq[r][x]
      <3>1. seq'[r] = new[r]
        BY <2>1, <2>2
      <3>2. new[r][x] = seq[r][x] \/ seq[r][x] = Mask
        BY <2>1, <2>2, RowStepShape
      <3> QED
        BY <3>1, <3>2
    <2>4. \A r \in Rows \ B : seq'[r] = seq[r]
      BY <2>2
    <2> QED
      BY <2>3, <2>4 DEF KeepCommitted
  <1> QED
    BY <1>1, <1>2 DEF Next, Step

(***************************************************************************)
(* Absorbing: no step of any batch changes a committed token, so that a    *)
(* row's tokens depend on nothing that is decided after they are written.  *)
(***************************************************************************)
THEOREM CommittedForGood == Spec => CommittedStable
  <1>1. Spec => []LoopTypeOK
    BY TypeCorrect
  <1>2. LoopTypeOK /\ [Next]_vars => [KeepCommitted]_vars
    BY StableStep
  <1> QED
    BY <1>1, <1>2, PTL DEF Spec, CommittedStable

-----------------------------------------------------------------------------
(***************************************************************************)
(* The block budget.                                                       *)
(***************************************************************************)

(***************************************************************************)
(* BudgetCoversBlock speaks of the current block of an unfinished request. *)
(* To be inductive it needs to know where every request stands: its        *)
(* counters are in range, and all it has left behind is committed, which   *)
(* at the end is the whole sequence.                                       *)
(***************************************************************************)
OnTrack(r) ==
  IF params[r] = None
  THEN blockIdx[r] = 0 /\ stepInBlock[r] = 0
  ELSE /\ blockIdx[r] <= NumBlocks(params[r])
       /\ stepInBlock[r] < StepsPerBlock(params[r])
       /\ MaskedIn(seq[r], 0 .. BlockStart(params[r], blockIdx[r]) - 1) = {}

InBudget(r) ==
  ~Done(params[r], blockIdx[r]) =>
    \E m \in 0 .. BlockLength(params[r]) :
      /\ schedule[r] = TransferSchedule(m, StepsPerBlock(params[r]))
      /\ Cardinality(MaskedIn(seq[r], Block(params[r], blockIdx[r])))
           <= Budget(m, StepsPerBlock(params[r]), stepInBlock[r])

RowInv(r) == OnTrack(r) /\ (params[r] # None => InBudget(r))

BudgetInv == LoopTypeOK /\ \A r \in Rows : RowInv(r)

\* What the tokenizer and the model must not do.
NoStrayMask == Mask \notin PromptTokens /\ Mask \notin Predicted

\* A new request starts on track.
LEMMA SubmitInv ==
  ASSUME NoStrayMask, BudgetInv, LoopTypeOK', NEW q \in Rows, Submit(q)
  PROVE  BudgetInv'
  <1>1. PICK p \in ValidParams : \E prompt \in [0 .. p.promptLen - 1 -> PromptTokens] :
          /\ params' = [params EXCEPT ![q] = p]
          /\ seq' = [seq EXCEPT ![q] = InitSeq(p, prompt)]
          /\ schedule' = [schedule EXCEPT ![q] = ScheduleOf(p, InitSeq(p, prompt), 0)]
    BY DEF Submit, ValidParams
  <1>2. PICK prompt \in [0 .. p.promptLen - 1 -> PromptTokens] :
          /\ params' = [params EXCEPT ![q] = p]
          /\ seq' = [seq EXCEPT ![q] = InitSeq(p, prompt)]
          /\ schedule' = [schedule EXCEPT ![q] = ScheduleOf(p, InitSeq(p, prompt), 0)]
    BY <1>1
  <1>3. /\ params[q] = None
        /\ blockIdx' = blockIdx
        /\ stepInBlock' = stepInBlock
    BY DEF Submit
  <1>4. DOMAIN params = Rows /\ DOMAIN seq = Rows /\ DOMAIN schedule = Rows
    BY DEF BudgetInv, LoopTypeOK
  <1>5. ASSUME NEW r \in Rows \ {q} PROVE RowInv(r)'
    <2>1. /\ params'[r] = params[r] /\ seq'[r] = seq[r] /\ schedule'[r] = schedule[r]
          /\ blockIdx'[r] = blockIdx[r] /\ stepInBlock'[r] = stepInBlock[r]
      BY <1>2, <1>3
    <2>2. RowInv(r)
      BY DEF BudgetInv
    <2> QED
      BY <2>1, <2>2 DEF RowInv, OnTrack, InBudget
  <1>6. /\ params'[q] = p
        /\ seq'[q] = InitSeq(p, prompt)
        /\ schedule'[q] = ScheduleOf(p, InitSeq(p, prompt), 0)
        /\ blockIdx'[q] = 0
        /\ stepInBlock'[q] = 0
    <2>1. blockIdx[q] = 0 /\ stepInBlock[q] = 0
      BY <1>3 DEF BudgetInv, RowInv, OnTrack
    <2> QED
      BY <1>2, <1>3, <1>4, <2>1
  <1>7. /\ NumBlocks(p) \in Nat \ {0}
        /\ StepsPerBlock(p) \in Nat \ {0}
        /\ BlockLength(p) \in Nat \ {0}
        /\ p.promptLen \in Nat
    BY Shape
  <1>8. BlockStart(p, 0) = p.promptLen
    BY <1>7 DEF BlockStart
  <1>9. MaskedIn(InitSeq(p, prompt), 0 .. p.promptLen - 1) = {}
    <2>1. 0 .. p.promptLen - 1 \subseteq Positions(p)
      BY <1>7, Shape DEF Positions, TotalLen, ParamType
    <2>2. \A x \in 0 .. p.promptLen - 1 : InitSeq(p, prompt)[x] = prompt[x]
      BY <1>7, <2>1 DEF InitSeq
    <2>3. \A x \in 0 .. p.promptLen - 1 : prompt[x] # Mask
      BY DEF NoStrayMask
    <2> QED
      BY <2>2, <2>3 DEF MaskedIn
  <1>10. \E m \in 0 .. BlockLength(p) :
           /\ ScheduleOf(p, InitSeq(p, prompt), 0) = TransferSchedule(m, StepsPerBlock(p))
           /\ Cardinality(MaskedIn(InitSeq(p, prompt), Block(p, 0)))
                <= Budget(m, StepsPerBlock(p), 0)
    BY <1>7, FreshSchedule
  <1>11. p # None
    BY ParamAssumption DEF ValidParams
  <1>12. RowInv(q)'
    <2>1. OnTrack(q)'
      BY <1>6, <1>7, <1>8, <1>9, <1>11 DEF OnTrack
    <2>2. InBudget(q)'
      BY <1>6, <1>10 DEF InBudget
    <2> QED
      BY <2>1, <2>2 DEF RowInv
  <1> QED
    BY <1>5, <1>12 DEF BudgetInv

\* A step of a batch keeps each of its rows on track: the step's commits
\* come off the budget, and a block is only left when nothing is left in it.
LEMMA RowOfBatchInv ==
  ASSUME NoStrayMask, BudgetInv, NEW B \in Batches, NEW leader \in B,
         B \subseteq Rows,
         params' = params, NEW new, NEW maxPromptLen, NEW maxTotal,
         seq' = [r \in Rows |-> IF r \in B THEN new[r] ELSE seq[r]],
         Advance(B, new),
         NEW r \in B,
         ~Done(params[r], blockIdx[r]),
         RowFits(r, maxPromptLen, maxTotal),
         new[r] \in RowResults(r, leader, maxPromptLen, maxTotal)
  PROVE  RowInv(r)'
  <1> DEFINE p == params[r]
             b == blockIdx[r]
             i == stepInBlock[r]
             S == StepsPerBlock(p)
             k == schedule[r][i]
             old == MaskedIn(seq[r], Block(p, b))
             left == MaskedIn(new[r], Block(p, b))
  <1>1. /\ p \in ValidParams
        /\ p # None
        /\ b \in Nat /\ b < NumBlocks(p)
        /\ i \in 0 .. S - 1
        /\ S \in Nat \ {0}
        /\ NumBlocks(p) \in Nat \ {0}
        /\ MaskedIn(seq[r], 0 .. BlockStart(p, b) - 1) = {}
    <2>1. p \in ValidParams
      BY DEF RowFits
    <2>2. p # None
      BY <2>1, ParamAssumption DEF ValidParams
    <2>3. b \in Nat /\ i \in Nat
      BY DEF BudgetInv, LoopTypeOK
    <2>4. /\ S \in Nat \ {0}
          /\ NumBlocks(p) \in Nat \ {0}
      BY <2>1, Shape
    <2>5. i < S /\ MaskedIn(seq[r], 0 .. BlockStart(p, b) - 1) = {}
      BY <2>2 DEF BudgetInv, RowInv, OnTrack
    <2>6. b < NumBlocks(p)
      BY <2>3, <2>4 DEF Done
    <2> HIDE DEF p, b, i, S
    <2> QED
      BY <2>1, <2>2, <2>3, <2>4, <2>5, <2>6
  <1>2. PICK m \in 0 .. BlockLength(p) :
          /\ schedule[r] = TransferSchedule(m, S)
          /\ Cardinality(old) <= Budget(m, S, i)
    BY <1>1 DEF BudgetInv, RowInv, InBudget
  <1>3. m \in Nat
    OBVIOUS
  <1>4. /\ k \in Nat
        /\ Budget(m, S, i) = k + Budget(m, S, i + 1)
        /\ Budget(m, S, i + 1) \in Nat
    <2>1. k = TransferSchedule(m, S)[i]
      BY <1>2
    <2> HIDE DEF k, S, i
    <2>2. TransferSchedule(m, S)[i] \in Nat
      BY <1>1, <1>3, ScheduleType
    <2>3. /\ Budget(m, S, i) = TransferSchedule(m, S)[i] + Budget(m, S, i + 1)
          /\ Budget(m, S, i + 1) \in Nat
      BY <1>1, <1>3, BudgetStep
    <2> QED
      BY <2>1, <2>2, <2>3
  <1>5. left = {} \/ Cardinality(left) <= Cardinality(old) - k
    BY <1>1, <1>4, RowStepCount DEF NoStrayMask
  <1>6. /\ IsFiniteSet(left)
        /\ Cardinality(left) \in Nat
        /\ Cardinality(old) \in Nat
    BY <1>1, MasksOfBlock
  <1>7. Cardinality(left) <= Budget(m, S, i + 1)
    <2>1. CASE left = {}
      BY <1>4, <2>1, FS_EmptySet
    <2>2. CASE Cardinality(left) <= Cardinality(old) - k
      <3> HIDE DEF left, old, k, S, i
      <3> QED
        BY <1>2, <1>4, <1>6, <2>2
    <2> QED
      BY <1>5, <2>1, <2>2
  <1>8. /\ params'[r] = p
        /\ seq'[r] = new[r]
        /\ stepInBlock'[r] = IF BlockOver(r, new[r]) THEN 0 ELSE i + 1
        /\ blockIdx'[r] = IF BlockOver(r, new[r]) THEN b + 1 ELSE b
        /\ schedule'[r] = IF BlockOver(r, new[r]) /\ ~Done(p, b + 1)
                          THEN ScheduleOf(p, new[r], b + 1) ELSE schedule[r]
    BY DEF Advance
  <1>9. /\ new[r] \in [Positions(p) -> Token]
        /\ \A x \in Positions(p) : new[r][x] = seq[r][x] \/ new[r][x] \in Predicted
    BY RowStepShape
  <1>10. /\ BlockStart(p, b) \in Nat
         /\ BlockEnd(p, b) \in Nat
         /\ BlockStart(p, b + 1) = BlockEnd(p, b)
         /\ BlockEnd(p, b) <= TotalLen(p)
         /\ BlockStart(p, b) <= BlockEnd(p, b)
    BY <1>1, BlockBounds, Shape
  <1>11. MaskedIn(new[r], 0 .. BlockStart(p, b) - 1) = {}
    <2>1. 0 .. BlockStart(p, b) - 1 \subseteq Positions(p)
      BY <1>1, <1>10, Shape DEF Positions
    <2>2. \A x \in 0 .. BlockStart(p, b) - 1 : seq[r][x] # Mask
      BY <1>1 DEF MaskedIn
    <2>3. \A x \in 0 .. BlockStart(p, b) - 1 : new[r][x] # Mask
      BY <1>9, <2>1, <2>2 DEF NoStrayMask
    <2> QED
      BY <2>3 DEF MaskedIn
  <1>12. CASE ~BlockOver(r, new[r])
    <2>1. i + 1 < S
      BY <1>1, <1>12 DEF BlockOver
    <2>2. OnTrack(r)'
      BY <1>1, <1>8, <1>11, <1>12, <2>1 DEF OnTrack
    <2>3. InBudget(r)'
      BY <1>2, <1>7, <1>8, <1>12 DEF InBudget
    <2> QED
      BY <2>2, <2>3 DEF RowInv
  <1>13. CASE BlockOver(r, new[r])
    <2>1. left = {}
      <3>1. CASE i + 1 >= S
        <4>1. i + 1 = S
          BY <1>1, <3>1
        <4>2. Budget(m, S, i + 1) = 0
          BY <1>1, <1>3, <4>1, BudgetEnd
        <4>3. Cardinality(left) = 0
          BY <1>6, <1>7, <4>2
        <4> QED
          BY <1>6, <4>3, FS_EmptySet
      <3> QED
        BY <1>13, <3>1 DEF BlockOver
    <2>2. MaskedIn(new[r], 0 .. BlockStart(p, b + 1) - 1) = {}
      <3>1. \A x \in 0 .. BlockEnd(p, b) - 1 :
              x \in 0 .. BlockStart(p, b) - 1 \/ x \in Block(p, b)
        BY <1>10 DEF Block
      <3>2. \A x \in 0 .. BlockEnd(p, b) - 1 : new[r][x] # Mask
        BY <1>11, <2>1, <3>1 DEF MaskedIn
      <3> QED
        BY <1>10, <3>2 DEF MaskedIn
    <2>3. OnTrack(r)'
      BY <1>1, <1>8, <1>13, <2>2 DEF OnTrack
    <2>4. CASE Done(p, b + 1)
      BY <1>8, <1>13, <2>3, <2>4 DEF RowInv, InBudget
    <2>5. CASE ~Done(p, b + 1)
      <3>1. b + 1 \in Nat /\ b + 1 < NumBlocks(p)
        BY <1>1, <2>5 DEF Done
      <3>2. InBudget(r)'
        BY <1>1, <1>8, <1>13, <2>5, <3>1, FreshSchedule DEF InBudget
      <3> QED
        BY <2>3, <3>2 DEF RowInv
    <2> QED
      BY <2>4, <2>5
  <1> QED
    BY <1>12, <1>13

\* The invariant holds of the empty engine.
LEMMA BudgetInit == Init => BudgetInv
  <1> SUFFICES ASSUME Init PROVE BudgetInv
    OBVIOUS
  <1>1. \A r \in Rows : params[r] = None /\ blockIdx[r] = 0 /\ stepInBlock[r] = 0
    BY DEF Init
  <1> QED
    BY <1>1, TypeInit DEF BudgetInv, RowInv, OnTrack

\* Every step keeps the invariant.
LEMMA BudgetNext ==
  ASSUME NoStrayMask
  PROVE  BudgetInv /\ [Next]_vars => BudgetInv'
  <1> SUFFICES ASSUME BudgetInv, [Next]_vars PROVE BudgetInv'
    OBVIOUS
  <1>1. LoopTypeOK /\ LoopTypeOK'
    BY TypeStep DEF BudgetInv
  <1>2. ASSUME NEW q \in Rows, Submit(q) PROVE BudgetInv'
    BY <1>1, <1>2, SubmitInv
  <1>3. ASSUME NEW B \in Batches, NEW leader \in B, StepBatch(B, leader)
        PROVE  BudgetInv'
    <2>1. /\ B \subseteq Rows
          /\ \A r \in B : ~Done(params[r], blockIdx[r])
          /\ params' = params
      BY <1>1, <1>3, BatchStep
    <2>2. PICK new, maxPromptLen, maxTotal :
            /\ \A r \in B : /\ RowFits(r, maxPromptLen, maxTotal)
                            /\ new[r] \in RowResults(r, leader, maxPromptLen, maxTotal)
            /\ seq' = [r \in Rows |-> IF r \in B THEN new[r] ELSE seq[r]]
            /\ Advance(B, new)
      BY <1>1, <1>3, BatchStep
    <2>3. \A r \in B : RowInv(r)'
      BY <2>1, <2>2, RowOfBatchInv
    <2>4. ASSUME NEW r \in Rows \ B PROVE RowInv(r)'
      <3>1. /\ params'[r] = params[r] /\ seq'[r] = seq[r] /\ schedule'[r] = schedule[r]
            /\ blockIdx'[r] = blockIdx[r] /\ stepInBlock'[r] = stepInBlock[r]
        BY <2>1, <2>2 DEF Advance
      <3>2. RowInv(r)
        BY DEF BudgetInv
      <3> QED
        BY <3>1, <3>2 DEF RowInv, OnTrack, InBudget
    <2> QED
      BY <1>1, <2>3, <2>4 DEF BudgetInv
  <1>4. CASE UNCHANGED vars
    BY <1>4 DEF BudgetInv, RowInv, OnTrack, InBudget, LoopTypeOK, vars
  <1> QED
    BY <1>2, <1>3, <1>4 DEF Next, Step

\* The invariant, for a clean tokenizer and a model that never predicts
\* the mask.
LEMMA BudgetKept == ASSUME NoStrayMask PROVE Spec => []BudgetInv
  <1>1. Init => BudgetInv
    BY BudgetInit
  <1>2. BudgetInv /\ [Next]_vars => BudgetInv'
    BY BudgetNext
  <1> QED
    BY <1>1, <1>2, PTL DEF Spec

(***************************************************************************)
(* The masks of a request's current block always fit in the commits its    *)
(* schedule still makes, in every batch: step_batch may leave a block on   *)
(* its step count alone.                                                   *)
(***************************************************************************)
THEOREM BudgetCovers == ASSUME NoStrayMask PROVE Spec => []BudgetCoversBlock
  <1>1. Spec => []BudgetInv
    BY BudgetKept
  <1>2. BudgetInv => BudgetCoversBlock
    BY DEF BudgetInv, RowInv, OnTrack, InBudget, BudgetCoversBlock, Unfinished
  <1> QED
    BY <1>1, <1>2, PTL

(***************************************************************************)
(* A request that is done has no mask left, for every prompt, block and    *)
(* step count init_state accepts, with and without LocalLeap.              *)
(***************************************************************************)
THEOREM CanvasIsFilled == ASSUME NoStrayMask PROVE Spec => []CanvasFilled
  <1>1. Spec => []BudgetInv
    BY BudgetKept
  <1>2. BudgetInv => CanvasFilled
    <2> SUFFICES ASSUME BudgetInv, NEW r \in Rows,
                        params[r] # None, Done(params[r], blockIdx[r])
                 PROVE  MaskedIn(seq[r], Positions(params[r])) = {}
      BY DEF CanvasFilled
    <2> DEFINE p == params[r]
    <2>1. /\ p \in ValidParams
          /\ blockIdx[r] \in Nat
          /\ blockIdx[r] <= NumBlocks(p)
          /\ MaskedIn(seq[r], 0 .. BlockStart(p, blockIdx[r]) - 1) = {}
      BY DEF BudgetInv, LoopTypeOK, ValidParams, RowInv, OnTrack
    <2>2. /\ NumBlocks(p) \in Nat \ {0}
          /\ BlockLength(p) \in Nat \ {0}
          /\ p.genLength = NumBlocks(p) * BlockLength(p)
      BY <2>1, Shape
    <2>3. blockIdx[r] = NumBlocks(p)
      BY <2>1, <2>2 DEF Done
    <2>4. BlockStart(p, blockIdx[r]) = TotalLen(p)
      BY <2>2, <2>3 DEF BlockStart, TotalLen
    <2> QED
      BY <2>1, <2>4 DEF Positions
  <1> QED
    BY <1>1, <1>2, PTL

-----------------------------------------------------------------------------
(***************************************************************************)
(* The step counters.                                                      *)
(***************************************************************************)

(***************************************************************************)
(* The part of OnTrack that the tokens have no part in: it holds whatever  *)
(* the tokenizer and the model do.                                         *)
(***************************************************************************)
Counted(r) ==
  IF params[r] = None
  THEN blockIdx[r] = 0 /\ stepInBlock[r] = 0
  ELSE /\ blockIdx[r] <= NumBlocks(params[r])
       /\ stepInBlock[r] < StepsPerBlock(params[r])

CountersInv == LoopTypeOK /\ \A r \in Rows : Counted(r)

\* The counters of a row of a batch, before and after its step.
LEMMA CountersOfBatch ==
  ASSUME CountersInv, NEW B \in Batches, NEW leader \in B, StepBatch(B, leader),
         NEW r \in Rows
  PROVE  /\ params'[r] = params[r]
         /\ r \notin B => Counters(r)' = Counters(r)
         /\ r \in B =>
              /\ params[r] \in ValidParams
              /\ params[r] # None
              /\ blockIdx[r] \in Nat /\ blockIdx[r] < NumBlocks(params[r])
              /\ stepInBlock[r] \in Nat /\ stepInBlock[r] < StepsPerBlock(params[r])
              /\ \/ /\ blockIdx'[r] = blockIdx[r]
                    /\ stepInBlock'[r] = stepInBlock[r] + 1
                    /\ stepInBlock'[r] < StepsPerBlock(params[r])
                 \/ /\ blockIdx'[r] = blockIdx[r] + 1
                    /\ stepInBlock'[r] = 0
  <1>1. /\ B \subseteq Rows
        /\ \A q \in B : params[q] \in ValidParams /\ ~Done(params[q], blockIdx[q])
        /\ params' = params
    BY BatchStep DEF CountersInv
  <1>2. PICK new : Advance(B, new)
    BY BatchStep DEF CountersInv
  <1>3. CASE r \notin B
    BY <1>1, <1>2, <1>3 DEF Advance, Counters
  <1>4. CASE r \in B
    <2>1. params[r] \in ValidParams /\ params[r] # None
      BY <1>1, <1>4, ParamAssumption DEF ValidParams
    <2>2. /\ blockIdx[r] \in Nat /\ stepInBlock[r] \in Nat
          /\ NumBlocks(params[r]) \in Nat /\ StepsPerBlock(params[r]) \in Nat
      BY <2>1, Shape DEF CountersInv, LoopTypeOK
    <2>3. stepInBlock[r] < StepsPerBlock(params[r])
      BY <2>1 DEF CountersInv, Counted
    <2>4. blockIdx[r] < NumBlocks(params[r])
      BY <1>1, <1>4, <2>2 DEF Done
    <2>5. CASE BlockOver(r, new[r])
      BY <1>1, <1>2, <1>4, <2>1, <2>2, <2>3, <2>4, <2>5 DEF Advance
    <2>6. CASE ~BlockOver(r, new[r])
      BY <1>1, <1>2, <1>4, <2>1, <2>2, <2>3, <2>4, <2>6 DEF Advance, BlockOver
    <2> QED
      BY <2>5, <2>6
  <1> QED
    BY <1>3, <1>4

\* The counters of a new request.
LEMMA CountersOfSubmit ==
  ASSUME CountersInv, NEW q \in Rows, Submit(q), NEW r \in Rows
  PROVE  /\ Counters(r)' = Counters(r)
         /\ r # q => params'[r] = params[r]
         /\ params[q] = None
         /\ params'[q] \in ValidParams
  BY DEF CountersInv, LoopTypeOK, Submit, Counters, ValidParams

\* The counters stay in range.
LEMMA CountersStep == CountersInv /\ [Next]_vars => CountersInv'
  <1> SUFFICES ASSUME CountersInv, [Next]_vars PROVE CountersInv'
    OBVIOUS
  <1>1. LoopTypeOK'
    BY TypeStep DEF CountersInv
  <1>2. ASSUME NEW q \in Rows, Submit(q), NEW r \in Rows PROVE Counted(r)'
    <2>1. /\ blockIdx'[r] = blockIdx[r] /\ stepInBlock'[r] = stepInBlock[r]
          /\ Counted(r)
      BY <1>2, CountersOfSubmit DEF Counters, CountersInv
    <2>2. CASE r = q
      <3>1. blockIdx[r] = 0 /\ stepInBlock[r] = 0
        BY <1>2, <2>1, <2>2, CountersOfSubmit DEF Counted
      <3>2. /\ params'[r] \in ValidParams
            /\ NumBlocks(params'[r]) \in Nat \ {0}
            /\ StepsPerBlock(params'[r]) \in Nat \ {0}
        BY <1>2, <2>2, CountersOfSubmit, Shape
      <3> QED
        BY <2>1, <3>1, <3>2 DEF Counted
    <2>3. CASE r # q
      BY <1>2, <2>1, <2>3, CountersOfSubmit DEF Counted
    <2> QED
      BY <2>2, <2>3
  <1>3. ASSUME NEW B \in Batches, NEW leader \in B, StepBatch(B, leader), NEW r \in Rows
        PROVE  Counted(r)'
    <2>1. CASE r \notin B
      BY <1>3, <2>1, CountersOfBatch DEF Counters, Counted, CountersInv
    <2>2. CASE r \in B
      <3>1. NumBlocks(params[r]) \in Nat \ {0} /\ StepsPerBlock(params[r]) \in Nat \ {0}
        BY <1>3, <2>2, CountersOfBatch, Shape
      <3> QED
        BY <1>3, <2>2, <3>1, CountersOfBatch DEF Counted
    <2> QED
      BY <2>1, <2>2
  <1>4. CASE UNCHANGED vars
    BY <1>4 DEF CountersInv, Counted, LoopTypeOK, vars
  <1> QED
    BY <1>1, <1>2, <1>3, <1>4 DEF Next, Step, CountersInv

\* Every step of a request moves its step index on, within its steps.
LEMMA ForwardStep == CountersInv /\ [Next]_vars => [StepForward]_vars
  <1> SUFFICES ASSUME CountersInv, Next, NEW r \in Rows, Counters(r)' # Counters(r)
               PROVE  StepIdx(r) < StepIdx(r)' /\ StepIdx(r)' <= params[r].numSteps
    BY DEF StepForward, Counters
  <1>1. ASSUME NEW q \in Rows, Submit(q) PROVE FALSE
    BY <1>1, CountersOfSubmit
  <1>2. ASSUME NEW B \in Batches, NEW leader \in B, StepBatch(B, leader)
        PROVE  StepIdx(r) < StepIdx(r)' /\ StepIdx(r)' <= params[r].numSteps
    <2> DEFINE S == StepsPerBlock(params[r])
               n == NumBlocks(params[r])
               b == blockIdx[r]
               i == stepInBlock[r]
               c == blockIdx'[r]
               j == stepInBlock'[r]
    <2>1. /\ params'[r] = params[r]
          /\ params[r] \in ValidParams
          /\ b \in Nat /\ b < n /\ i \in Nat /\ i < S
          /\ (c = b /\ j = i + 1 /\ j < S) \/ (c = b + 1 /\ j = 0)
      BY <1>2, CountersOfBatch
    <2>2. S \in Nat \ {0} /\ n \in Nat \ {0} /\ params[r].numSteps = n * S
      BY <2>1, Shape
    <2>3. StepIdx(r) = b * S + i
      BY DEF StepIdx
    <2>4. StepIdx(r)' = c * S + j
      BY <2>1 DEF StepIdx
    <2> HIDE DEF S, n, b, i, c, j
    <2>5. /\ (b + 1) * S = b * S + S
          /\ (b + 1) * S <= n * S
          /\ b * S \in Nat
          /\ n * S \in Nat
      BY <2>1, <2>2
    <2>6. CASE c = b /\ j = i + 1 /\ j < S
      <3>1. c * S = b * S
        BY <2>6
      <3> HIDE DEF StepIdx
      <3> QED
        BY <2>1, <2>2, <2>3, <2>4, <2>5, <2>6, <3>1
    <2>7. CASE c = b + 1 /\ j = 0
      <3>1. c * S = (b + 1) * S
        BY <2>7
      <3> QED
        BY <2>1, <2>2, <2>3, <2>4, <2>5, <2>7, <3>1
    <2> QED
      BY <2>1, <2>6, <2>7
  <1> QED
    BY <1>1, <1>2 DEF Next, Step

(***************************************************************************)
(* The index the scheduler groups by only grows, and never passes the      *)
(* number of steps asked for: a request gets at most num_denoising_steps   *)
(* forward passes, whatever the fast-forward skips.                        *)
(***************************************************************************)
THEOREM StepsGoForward == Spec => StepsForward
  <1>1. Init => CountersInv
    BY TypeInit DEF Init, CountersInv, Counted
  <1>2. CountersInv /\ [Next]_vars => CountersInv'
    BY CountersStep
  <1>3. CountersInv /\ [Next]_vars => [StepForward]_vars
    BY ForwardStep
  <1> QED
    BY <1>1, <1>2, <1>3, PTL DEF Spec, StepsForward
=============================================================================
