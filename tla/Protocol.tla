------------------------------ MODULE Protocol -------------------------------
(***************************************************************************)
(* The body of POST /v1/chat/completions: what the schema accepts          *)
(* (ChatCompletionRequest of dlmserve/api/protocol.py), and what the       *)
(* server makes of it (dlmserve/api/server.py, _sampling_params).          *)
(*                                                                         *)
(* Fields no decision depends on are left out: seed, stream, thresholds,   *)
(* the choices that select among literals.                                 *)
(***************************************************************************)
EXTENDS Params

CONSTANT Bodies   \* what clients may send

BodyType ==
  [hosted       : BOOLEAN,             \* model is MODEL_ID
   promptLen    : Nat,                 \* of the rendered and tokenized messages
   maxTokens    : Int \cup {None},
   targetLength : Int \cup {None},
   blockLength  : Int \cup {None},
   numSteps     : Int,
   topK         : Int \cup {None},
   temperature  : Int,
   leap         : BOOLEAN,
   radius       : Int,
   single       : BOOLEAN,             \* force_single_batch
   rejected     : BOOLEAN]             \* an unknown field, or one diffusion has no use for

ASSUME BodyAssumption == Bodies \subseteq BodyType

\* An optional length.
IsLength(n) == n = None \/ n > 0

(***************************************************************************)
(* The schema's bounds and its validator.                                  *)
(***************************************************************************)
Schema(b) ==
  /\ ~b.rejected
  /\ IsLength(b.maxTokens) /\ IsLength(b.targetLength) /\ IsLength(b.blockLength)
  /\ b.numSteps \in 1 .. 512
  /\ b.radius \in 1 .. 16
  /\ b.temperature \in 0 .. 2
  /\ b.topK = None \/ b.topK <= 1

\* `x or default`; the schema has excluded zero.
Or(x, default) == IF x = None THEN default ELSE x

GenLength(b) == Or(b.targetLength, Or(b.maxTokens, 128))

\* _sampling_params
ParamsOf(b) ==
  [promptLen |-> b.promptLen, genLength |-> GenLength(b),
   blockLength |-> Or(b.blockLength, GenLength(b)), numSteps |-> b.numSteps,
   leap |-> b.leap, radius |-> b.radius, temperature |-> b.temperature]

(***************************************************************************)
(* The bodies by what becomes of them: refused by FastAPI before the       *)
(* handler runs, for another model, denoised alone or in the batches of    *)
(* the engine, and whether init_state will refuse their lengths.           *)
(***************************************************************************)
Unprocessable == {b \in Bodies : ~Schema(b)}

NotHosted == {b \in Bodies : Schema(b) /\ ~b.hosted}

Single == {b \in Bodies : Schema(b) /\ b.hosted /\ b.single}

Batched == {b \in Bodies : Schema(b) /\ b.hosted /\ ~b.single}

Denoisable == {b \in Single \cup Batched : Valid(ParamsOf(b))}

-----------------------------------------------------------------------------
(***************************************************************************)
(* Whatever the schema lets through is a request the denoising loops are   *)
(* specified for, and init_state can refuse it for its block_length only:  *)
(* a body that leaves it out never ends in an internal error.              *)
(***************************************************************************)
AcceptedIsDenoisable ==
  \A b \in Single \cup Batched :
    /\ ParamsOf(b) \in ParamType
    /\ b.blockLength = None => b \in Denoisable
=============================================================================
