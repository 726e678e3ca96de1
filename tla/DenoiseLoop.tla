----------------------------- MODULE DenoiseLoop -----------------------------
(***************************************************************************)
(* step_batch(): several requests denoised together, one model call per    *)
(* step (dlmserve/denoise_loop.py), over the groups the scheduler forms    *)
(* (Request.group_key of dlmserve/scheduler.py).                           *)
(*                                                                         *)
(* A batch is any non-empty set of unfinished requests with one group key. *)
(* Which of them comes first in the list is the scheduler's choice: it is  *)
(* the `leader`, whose sampling parameters step_batch uses for all.        *)
(***************************************************************************)
EXTENDS DenoiseState

CONSTANTS
  Rows,     \* the requests' identities
  Buckets   \* BLOCK_BUCKETS, as a set

ASSUME BucketAssumption == Buckets \subseteq Nat /\ Buckets # {}

VARIABLES
  params,       \* params[r] is None until r is submitted
  seq,          \* DenoiseState.seq
  blockIdx,     \* DenoiseState.block_idx
  stepInBlock,  \* DenoiseState.step_in_block
  schedule      \* DenoiseState.schedule

vars == <<params, seq, blockIdx, stepInBlock, schedule>>

Init ==
  /\ params = [r \in Rows |-> None]
  /\ seq = [r \in Rows |-> << >>]
  /\ blockIdx = [r \in Rows |-> 0]
  /\ stepInBlock = [r \in Rows |-> 0]
  /\ schedule = [r \in Rows |-> << >>]

(***************************************************************************)
(* init_state for a new request.  A ValueError leaves nothing behind.      *)
(***************************************************************************)
Submit(r) ==
  /\ params[r] = None
  /\ \E p \in ParamSpace :
       /\ Valid(p)
       /\ params' = [params EXCEPT ![r] = p]
       /\ \E prompt \in [0 .. p.promptLen - 1 -> PromptTokens] :
            /\ seq' = [seq EXCEPT ![r] = InitSeq(p, prompt)]
            /\ schedule' = [schedule EXCEPT ![r] = ScheduleOf(p, InitSeq(p, prompt), 0)]
  /\ UNCHANGED <<blockIdx, stepInBlock>>

Unfinished == {r \in Rows : params[r] # None /\ ~Done(params[r], blockIdx[r])}

-----------------------------------------------------------------------------
(***************************************************************************)
(* The scheduler's grouping.                                               *)
(***************************************************************************)
StepIdx(r) == blockIdx[r] * StepsPerBlock(params[r]) + stepInBlock[r]

BlockBucket(length) ==
  LET fitting == {b \in Buckets : length <= b}
  IN  IF fitting = {} THEN Max(Buckets) ELSE Min(fitting)

GroupKey(r) ==
  <<StepIdx(r), BlockBucket(BlockLength(params[r])), params[r].leap>>

\* Mutant: MIN_BATCH applied with no flush by age.
Batches_AtLeastTwo ==
  {B \in SUBSET Unfinished :
     Cardinality(B) >= 2 /\ \A r, q \in B : GroupKey(r) = GroupKey(q)}

Batches ==
  {B \in SUBSET Unfinished :
     B # {} /\ \A r, q \in B : GroupKey(r) = GroupKey(q)}

-----------------------------------------------------------------------------
(***************************************************************************)
(* The padded canvas: every row is shifted right so that all the bodies    *)
(* start at the same column, and filled with Pad on both sides.            *)
(***************************************************************************)
Longest(n, S) == n \in S /\ \A m \in S : m <= n

Offset(r, maxPromptLen) == maxPromptLen - params[r].promptLen

\* Mutant: a tokenizer that pads with mask_id.
Padded_WithMask(r, maxPromptLen, maxTotal) ==
  [x \in 0 .. maxTotal - 1 |->
     IF x - Offset(r, maxPromptLen) \in Positions(params[r])
     THEN seq[r][x - Offset(r, maxPromptLen)]
     ELSE Mask]

Padded(r, maxPromptLen, maxTotal) ==
  [x \in 0 .. maxTotal - 1 |->
     IF x - Offset(r, maxPromptLen) \in Positions(params[r])
     THEN seq[r][x - Offset(r, maxPromptLen)]
     ELSE Pad]

\* Mutant: the row is read back from column 0.
Unpadded_NoOffset(r, maxPromptLen, canvas) ==
  [x \in Positions(params[r]) |-> canvas[x]]

Unpadded(r, maxPromptLen, canvas) ==
  [x \in Positions(params[r]) |-> canvas[x + Offset(r, maxPromptLen)]]

\* Mutant: block_end_abs left in the row's own coordinates.
RowResults_UnpaddedEnd(r, leader, maxPromptLen, maxTotal) ==
  {Unpadded(r, maxPromptLen, canvas) :
     canvas \in Commits(Padded(r, maxPromptLen, maxTotal),
                        schedule[r][stepInBlock[r]],
                        BlockEnd(params[r], blockIdx[r]),
                        params[leader].leap,
                        params[leader].radius,
                        params[leader].temperature)}

(***************************************************************************)
(* What one step can make of row r: the commit happens on the canvas, with *)
(* the leader's LocalLeap switch, radius and temperature.                  *)
(***************************************************************************)
RowResults(r, leader, maxPromptLen, maxTotal) ==
  {Unpadded(r, maxPromptLen, canvas) :
     canvas \in Commits(Padded(r, maxPromptLen, maxTotal),
                        schedule[r][stepInBlock[r]],
                        Offset(r, maxPromptLen) + BlockEnd(params[r], blockIdx[r]),
                        params[leader].leap,
                        params[leader].radius,
                        params[leader].temperature)}

\* Mutant: no fast-forward.
BlockOver_NoFastForward(r, s) == stepInBlock[r] + 1 >= StepsPerBlock(params[r])

(***************************************************************************)
(* After the commit: the block is over when its steps are, or when no mask *)
(* is left in it (the fast-forward written for LocalLeap).                 *)
(***************************************************************************)
BlockOver(r, s) ==
  \/ stepInBlock[r] + 1 >= StepsPerBlock(params[r])
  \/ MaskedIn(s, Block(params[r], blockIdx[r])) = {}

Advance(B, new) ==
  /\ stepInBlock' =
       [r \in Rows |-> IF r \notin B THEN stepInBlock[r]
                       ELSE IF BlockOver(r, new[r]) THEN 0 ELSE stepInBlock[r] + 1]
  /\ blockIdx' =
       [r \in Rows |-> IF r \in B /\ BlockOver(r, new[r]) THEN blockIdx[r] + 1
                       ELSE blockIdx[r]]
  /\ schedule' =
       [r \in Rows |-> IF /\ r \in B
                          /\ BlockOver(r, new[r])
                          /\ ~Done(params[r], blockIdx[r] + 1)
                       THEN ScheduleOf(params[r], new[r], blockIdx[r] + 1)
                       ELSE schedule[r]]

(***************************************************************************)
(* step_batch on the batch B, whose first request is `leader`.             *)
(***************************************************************************)
StepBatch(B, leader) ==
  \E maxPromptLen \in {params[r].promptLen : r \in B} :
  \E maxTotal \in {maxPromptLen + params[r].genLength : r \in B} :
    LET results == [r \in B |-> RowResults(r, leader, maxPromptLen, maxTotal)]
    IN  /\ Longest(maxPromptLen, {params[r].promptLen : r \in B})
        /\ Longest(maxTotal, {maxPromptLen + params[r].genLength : r \in B})
        /\ \E new \in [B -> UNION {results[r] : r \in B}] :
             /\ \A r \in B : new[r] \in results[r]
             /\ seq' = [r \in Rows |-> IF r \in B THEN new[r] ELSE seq[r]]
             /\ Advance(B, new)
             /\ params' = params

Step == \E B \in Batches : \E leader \in B : StepBatch(B, leader)

Next == Step \/ \E r \in Rows : Submit(r)

Spec == Init /\ [][Next]_vars

(***************************************************************************)
(* The engine loop runs a batch whenever a request is unfinished.          *)
(***************************************************************************)
FairSpec == Spec /\ WF_vars(Step)

-----------------------------------------------------------------------------
(***************************************************************************)
(* Properties                                                              *)
(***************************************************************************)

\* Every field of every request has its type.
LoopTypeOK ==
  /\ params \in [Rows -> {p \in ParamSpace : Valid(p)} \cup {None}]
  /\ blockIdx \in [Rows -> Nat]
  /\ stepInBlock \in [Rows -> Nat]
  /\ DOMAIN seq = Rows
  /\ DOMAIN schedule = Rows
  /\ \A r \in Rows :
       IF params[r] = None
       THEN seq[r] = << >> /\ schedule[r] = << >>
       ELSE /\ seq[r] \in [Positions(params[r]) -> Token]
            /\ schedule[r] \in [0 .. StepsPerBlock(params[r]) - 1 -> Nat]

(***************************************************************************)
(* step_batch advances a request to its next block when its steps are      *)
(* used up, without looking whether masks are left.  It never leaves one   *)
(* behind: everything before the current block is committed, and the       *)
(* masks of the current block fit in what its schedule still commits.      *)
(***************************************************************************)
BudgetCoversBlock ==
  \A r \in Unfinished :
    LET p == params[r]
        b == blockIdx[r]
    IN  /\ MaskedIn(seq[r], 0 .. BlockStart(p, b) - 1) = {}
        /\ \E m \in 0 .. BlockLength(p) :
             /\ schedule[r] = TransferSchedule(m, StepsPerBlock(p))
             /\ Cardinality(MaskedIn(seq[r], Block(p, b)))
                  <= Budget(m, StepsPerBlock(p), stepInBlock[r])

(***************************************************************************)
(* A finished request has no mask token left: the number of steps is a     *)
(* contract, not a best effort.                                            *)
(***************************************************************************)
CanvasFilled ==
  \A r \in Rows :
    params[r] # None /\ Done(params[r], blockIdx[r])
      => MaskedIn(seq[r], Positions(params[r])) = {}

(***************************************************************************)
(* A request without LocalLeap commits exactly what its own schedule says, *)
(* in its own block, whatever it is batched with: the blocks after the     *)
(* current one are all masks, and the masks of the current one are exactly *)
(* the commits the schedule still holds.                                   *)
(***************************************************************************)
PlainRowsOnSchedule ==
  \A r \in Unfinished :
    LET p == params[r]
        b == blockIdx[r]
    IN  ~p.leap =>
          /\ Cardinality(MaskedIn(seq[r], Block(p, b))) =
               Budget(BlockLength(p), StepsPerBlock(p), stepInBlock[r])
          /\ \A x \in BlockEnd(p, b) .. TotalLen(p) - 1 : seq[r][x] = Mask

(***************************************************************************)
(* Absorbing: a committed token, and the prompt, never change again, in    *)
(* any row and at any offset in the padded canvas.                         *)
(***************************************************************************)
KeepCommitted ==
  \A r \in Rows : params[r] # None =>
    \A x \in Positions(params[r]) : seq[r][x] # Mask => seq'[r][x] = seq[r][x]

CommittedStable == [][KeepCommitted]_vars

(***************************************************************************)
(* A forward pass is never wasted on a request twice at one step index,    *)
(* although the fast-forward skips indices: step_idx, which the scheduler  *)
(* groups by, strictly increases and stays within num_denoising_steps.     *)
(***************************************************************************)
Counters(r) == <<blockIdx[r], stepInBlock[r]>>

StepForward ==
  \A r \in Rows :
    Counters(r)' # Counters(r)
      => StepIdx(r) < StepIdx(r)' /\ StepIdx(r)' <= params[r].numSteps

StepsForward == [][StepForward]_vars

(***************************************************************************)
(* Isolation: seen alone, every request runs the reference loop denoise()  *)
(* on its own parameters.  This is \A r \in Rows : Alone(r)!Spec, with the  *)
(* quantifier moved under the box.                                         *)
(***************************************************************************)
Alone(r) == INSTANCE Denoise WITH
  params <- params[r], seq <- seq[r], blockIdx <- blockIdx[r],
  stepInBlock <- stepInBlock[r], schedule <- schedule[r]

RowsIsolated ==
  /\ \A r \in Rows : Alone(r)!Init
  /\ [][\A r \in Rows : [Alone(r)!Next]_(Alone(r)!dvars)]_vars

(***************************************************************************)
(* Without LocalLeap, the tokens, their order and their number per step    *)
(* are those of the published reference, whatever the request is batched   *)
(* with: the early end of a block leaves out only iterations in which the  *)
(* reference transfers nothing.                                            *)
(***************************************************************************)
Plain(r) == params[r] # None /\ ~params[r].leap

Published(r) == INSTANCE Reference WITH
  params <- IF Plain(r) THEN params[r] ELSE None,
  x <- IF Plain(r) THEN seq[r] ELSE << >>,
  numBlock <- IF Plain(r) THEN blockIdx[r] ELSE 0,
  i <- IF Plain(r) THEN stepInBlock[r] ELSE 0,
  transfers <- IF Plain(r) THEN schedule[r] ELSE << >>

RowsMatchReference ==
  /\ \A r \in Rows : Published(r)!Init
  /\ [][\A r \in Rows : [Published(r)!Next]_(Published(r)!rvars)]_vars

\* Every submitted request finishes.
EveryRequestFinishes ==
  \A r \in Rows :
    params[r] # None ~> (params[r] # None /\ Done(params[r], blockIdx[r]))

-----------------------------------------------------------------------------
(***************************************************************************)
(* What the code says of itself and does not keep.                         *)
(***************************************************************************)

(***************************************************************************)
(* sampler.py: positions >= block_end_abs are not committed this step.     *)
(***************************************************************************)
SemiAutoregressive ==
  [][\A r \in Unfinished :
       \A x \in BlockEnd(params[r], blockIdx[r]) .. TotalLen(params[r]) - 1 :
         seq'[r][x] = seq[r][x]]_vars

(***************************************************************************)
(* engine.py: all requests in a batch share temperature.  A request at     *)
(* temperature 0 holds only argmax tokens.                                 *)
(***************************************************************************)
GreedyRowsStayGreedy ==
  \A r \in Rows :
    params[r] # None /\ params[r].temperature = 0 =>
      \A x \in params[r].promptLen .. TotalLen(params[r]) - 1 :
        seq[r][x] \in ArgmaxTokens \cup {Mask}
=============================================================================
