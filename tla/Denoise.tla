------------------------------- MODULE Denoise -------------------------------
(***************************************************************************)
(* denoise(): one request denoised alone, the reference loop of            *)
(* dlmserve/denoise_loop.py.  It is what a caller is promised: the batched *)
(* engine must give each request a run of this specification, whatever     *)
(* other requests share its batches.                                       *)
(*                                                                         *)
(* A step is one model call and its commit.  The counters are those the    *)
(* two nested loops will use next; the request has returned when           *)
(* blockIdx = NumBlocks.                                                   *)
(***************************************************************************)
EXTENDS DenoiseState

VARIABLES
  params,       \* the request, None before it is made
  seq,          \* the tokens, a function on 0 .. TotalLen - 1
  blockIdx,     \* outer loop
  stepInBlock,  \* inner loop
  schedule      \* commits per step of the current block

dvars == <<params, seq, blockIdx, stepInBlock, schedule>>

Init ==
  /\ params = None
  /\ seq = << >>
  /\ blockIdx = 0
  /\ stepInBlock = 0
  /\ schedule = << >>

\* init_state, and the first block's schedule.
Start ==
  /\ params = None
  /\ \E p \in ParamSpace :
       /\ Valid(p)
       /\ params' = p
       /\ \E prompt \in [0 .. p.promptLen - 1 -> PromptTokens] :
            /\ seq' = InitSeq(p, prompt)
            /\ schedule' = ScheduleOf(p, seq', 0)
  /\ UNCHANGED <<blockIdx, stepInBlock>>

Running == params # None /\ ~Done(params, blockIdx)

\* One iteration of the inner loop, on the request's own parameters.
Commit ==
  /\ Running
  /\ seq' \in Commits(seq, schedule[stepInBlock], BlockEnd(params, blockIdx),
                      params.leap, params.radius, params.temperature)
  /\ params' = params

\* The inner loop is over: its range is exhausted, or it breaks.
LastOfBlock ==
  \/ stepInBlock + 1 = StepsPerBlock(params)
  \/ MaskedIn(seq', Block(params, blockIdx)) = {}

NextStep ==
  /\ Commit
  /\ ~LastOfBlock
  /\ stepInBlock' = stepInBlock + 1
  /\ UNCHANGED <<blockIdx, schedule>>

NextBlock ==
  /\ Commit
  /\ LastOfBlock
  /\ stepInBlock' = 0
  /\ blockIdx' = blockIdx + 1
  /\ schedule' = IF Done(params, blockIdx') THEN schedule
                 ELSE ScheduleOf(params, seq', blockIdx')

Next == Start \/ NextStep \/ NextBlock

Spec == Init /\ [][Next]_dvars
=============================================================================
