---------------------------- MODULE DenoiseState -----------------------------
(***************************************************************************)
(* What every denoising request carries besides its parameters: its        *)
(* sequence of tokens, cut into blocks.  dlmserve/denoise_loop.py          *)
(* (DenoiseState, init_state).                                             *)
(*                                                                         *)
(* Tokens are classes, not vocabulary entries: the mask, the pad, a prompt *)
(* token, a token the model's argmax returns, a token Gumbel sampling      *)
(* returns.  Positions are counted from 0, as in the code.                 *)
(***************************************************************************)
EXTENDS Sampler, Params

CONSTANTS
  Mask,           \* mask_id
  Pad,            \* Engine._pad_token_id
  PromptTokens,   \* what the tokenizer may put in a prompt
  ArgmaxTokens,   \* what logits.argmax may return (temperature = 0)
  SampledTokens,  \* what Gumbel sampling may return besides (temperature > 0)
  ParamSpace      \* the requests: prompt length and SamplingParams

Predicted == ArgmaxTokens \cup SampledTokens

Token == {Mask} \cup PromptTokens \cup Predicted

ASSUME ParamAssumption == ParamSpace \subseteq ParamType /\ None \notin ParamSpace

(***************************************************************************)
(* _pad_token_id falls back to EOS when the tokenizer pads with mask_id,   *)
(* and the loader refuses such a tokenizer.                                *)
(***************************************************************************)
ASSUME PadAssumption == Pad # Mask

TotalLen(p) == p.promptLen + p.genLength

Positions(p) == 0 .. TotalLen(p) - 1

BlockStart(p, b) == p.promptLen + b * BlockLength(p)

BlockEnd(p, b) == p.promptLen + (b + 1) * BlockLength(p)

Block(p, b) == BlockStart(p, b) .. BlockEnd(p, b) - 1

\* DenoiseState.done, for a request in block b.
Done(p, b) == b >= NumBlocks(p)

MaskedIn(s, positions) == {x \in positions : s[x] = Mask}

\* The schedule of block b, from the masks that are left in it.
ScheduleOf(p, s, b) ==
  TransferSchedule(Cardinality(MaskedIn(s, Block(p, b))), StepsPerBlock(p))

\* init_state: the prompt, then a body of masks.
InitSeq(p, prompt) ==
  [x \in Positions(p) |-> IF x < p.promptLen THEN prompt[x] ELSE Mask]

\* predict_and_score: the tokens the model may propose at a temperature.
Predictions(temperature) ==
  IF temperature > 0 THEN Predicted ELSE ArgmaxTokens

\* Mutant: x0 is written at unmasked positions too.
CommitAt_Unmasked(s, chosen, temperature) ==
  {[x \in DOMAIN s |-> IF x \in DOMAIN x0 THEN x0[x] ELSE s[x]] :
     x0 \in [chosen -> Predictions(temperature)]}

(***************************************************************************)
(* The commit itself: s with some of its positions overwritten.  Only      *)
(* masked positions change, the others are rewritten with themselves       *)
(* (x0 = where(mask_index, x0, x)).                                        *)
(***************************************************************************)
CommitAt(s, chosen, temperature) ==
  {[x \in DOMAIN s |-> IF x \in DOMAIN x0 THEN x0[x] ELSE s[x]] :
     x0 \in [MaskedIn(s, chosen) -> Predictions(temperature)]}

\* Mutant: block_end_abs itself may be committed.
FinitePositions_EndIncluded(s, end) == {x \in MaskedIn(s, DOMAIN s) : x <= end}

\* The positions whose confidence is not minus infinity.
FinitePositions(s, end) == {x \in MaskedIn(s, DOMAIN s) : x < end}

(***************************************************************************)
(* One call of the sampler on one row: k commits ranked over the whole     *)
(* row, only masked positions before `end` having a finite confidence.     *)
(***************************************************************************)
Commits(s, k, end, leap, radius, temperature) ==
  LET finite == FinitePositions(s, end)
      chosen == IF leap THEN LeapCommits(DOMAIN s, finite, k, radius)
                        ELSE TopKCommits(DOMAIN s, finite, k)
  IN  UNION {CommitAt(s, C, temperature) : C \in chosen}
=============================================================================
