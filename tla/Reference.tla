----------------------------- MODULE Reference -------------------------------
(***************************************************************************)
(* generate() of reference/llada_reference.py, the inference procedure     *)
(* published with LLaDA, which dlmserve without LocalLeap is to reproduce. *)
(* With the arguments it is compared at: cfg_scale = 0, low_confidence     *)
(* remasking, no EOS suppression.  The call ends at numBlock = NumBlocks.  *)
(***************************************************************************)
EXTENDS Params, FiniteSetsExt

CONSTANTS Mask, PromptTokens, ArgmaxTokens, SampledTokens, ParamSpace

VARIABLES
  params,     \* the arguments, None before the call
  x,          \* the tokens
  numBlock,   \* num_block
  i,          \* of the inner loop
  transfers   \* num_transfer_tokens of the block

rvars == <<params, x, numBlock, i, transfers>>

Init ==
  /\ params = None
  /\ x = << >> /\ transfers = << >>
  /\ numBlock = 0 /\ i = 0

\* get_num_transfer_tokens: base everywhere, and one more in the first `remainder`.
NumTransferTokens(maskNum, steps) ==
  LET base == maskNum \div steps
      remainder == maskNum % steps
  IN  [k \in 0 .. steps - 1 |-> IF k < remainder THEN base + 1 ELSE base]

\* The end of block n, in x.
BlockStop(p, n) == p.promptLen + (n + 1) * BlockLength(p)

TransfersOf(p, tokens, n) ==
  NumTransferTokens(
    Cardinality({q \in BlockStop(p, n) - BlockLength(p) .. BlockStop(p, n) - 1 :
                   tokens[q] = Mask}),
    StepsPerBlock(p))

\* The asserts hold; the canvas is the prompt and masks.
Call ==
  /\ params = None
  /\ \E p \in ParamSpace :
       /\ Valid(p) /\ ~p.leap
       /\ params' = p
       /\ \E prompt \in [0 .. p.promptLen - 1 -> PromptTokens] :
            x' = [q \in 0 .. p.promptLen + p.genLength - 1 |->
                    IF q < p.promptLen THEN prompt[q] ELSE Mask]
       /\ transfers' = TransfersOf(p, x', 0)
  /\ UNCHANGED <<numBlock, i>>

\* What argmax of the logits, with Gumbel noise or without, may be.
X0 == ArgmaxTokens \cup (IF params.temperature = 0 THEN {} ELSE SampledTokens)

(***************************************************************************)
(* The commit of iteration i: topk over the confidences, which are minus   *)
(* infinity at tokens and after the block.  A token selected is written    *)
(* over itself.                                                            *)
(***************************************************************************)
Transfer ==
  LET finite == {q \in DOMAIN x : x[q] = Mask /\ q < BlockStop(params, numBlock)}
  IN  \E selected \in kSubset(transfers[i], DOMAIN x) :
        /\ selected \subseteq finite \/ finite \subseteq selected
        /\ DOMAIN x' = DOMAIN x
        /\ \A q \in DOMAIN x : IF q \in selected /\ x[q] = Mask THEN x'[q] \in X0
                               ELSE x'[q] = x[q]

\* Iteration i, and any after it that transfer nothing.
Iterate ==
  /\ params # None /\ numBlock < NumBlocks(params)
  /\ Transfer
  /\ \E next \in i + 1 .. StepsPerBlock(params) :
       /\ \A k \in i + 1 .. next - 1 : transfers[k] = 0
       /\ IF next < StepsPerBlock(params)
          THEN i' = next /\ UNCHANGED <<numBlock, transfers>>
          ELSE /\ i' = 0
               /\ numBlock' = numBlock + 1
               /\ transfers' = IF numBlock' < NumBlocks(params)
                               THEN TransfersOf(params, x', numBlock')
                               ELSE transfers
  /\ params' = params

Next == Call \/ Iterate

Spec == Init /\ [][Next]_rvars
=============================================================================
