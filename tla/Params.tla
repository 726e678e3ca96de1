------------------------------- MODULE Params --------------------------------
(***************************************************************************)
(* What a request asks for, and what init_state makes of it:               *)
(* SamplingParams of dlmserve/sampler.py, and the checks of init_state in  *)
(* dlmserve/denoise_loop.py.                                               *)
(***************************************************************************)
EXTENDS Integers

CONSTANT None   \* Python's None

ASSUME NoneAssumption == None \notin Nat

(***************************************************************************)
(* SamplingParams plus the length of the tokenized prompt.  The API bounds *)
(* gen_length, block_length and num_denoising_steps below by 1.            *)
(***************************************************************************)
ParamType ==
  [promptLen   : Nat,
   genLength   : Nat \ {0},
   blockLength : (Nat \ {0}) \cup {None},
   numSteps    : Nat \ {0},
   leap        : BOOLEAN,
   radius      : Nat,
   temperature : Nat]

\* block_length defaults to gen_length.
BlockLength(p) == IF p.blockLength = None THEN p.genLength ELSE p.blockLength

NumBlocks(p) == p.genLength \div BlockLength(p)

\* Mutant: num_denoising_steps taken per block.
StepsPerBlock_AllSteps(p) == p.numSteps

StepsPerBlock(p) == p.numSteps \div NumBlocks(p)

(***************************************************************************)
(* What init_state accepts; on anything else it raises ValueError.         *)
(***************************************************************************)
Valid(p) == /\ p.genLength % BlockLength(p) = 0
            /\ p.numSteps % NumBlocks(p) = 0
=============================================================================
