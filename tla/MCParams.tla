------------------------------ MODULE MCParams -------------------------------
(* Request parameters for the runs of DenoiseLoop and of Engine. *)
EXTENDS Params

Request(prompt, gen, block, steps, leap, radius, temperature) ==
  [promptLen |-> prompt, genLength |-> gen, blockLength |-> block,
   numSteps |-> steps, leap |-> leap, radius |-> radius,
   temperature |-> temperature]

(***************************************************************************)
(* Without LocalLeap: different prompt lengths, lengths, block lengths and *)
(* steps per block; a remainder (3 masks in 2 steps), more steps than      *)
(* masks (1 mask in 2 steps), and the indivisible requests init_state      *)
(* refuses.  Of the requests with blocks of 2, one takes a single step per *)
(* block: at one group key it is in its second block, others in the first. *)
(* Requests that sample have a bucket of their own: within a bucket, the   *)
(* temperature is the same.                                                *)
(***************************************************************************)
PlainParams ==
  {Request(1, 3, None, 2, FALSE, 0, 0),
   Request(0, 4, 2, 4, FALSE, 0, 0),
   Request(2, 2, 2, 2, FALSE, 0, 0),
   Request(1, 4, 2, 2, FALSE, 0, 0),
   Request(1, 2, 1, 4, FALSE, 0, 1),
   Request(0, 3, 2, 2, FALSE, 0, 0),
   Request(0, 4, 2, 3, FALSE, 0, 0)}

(***************************************************************************)
(* LocalLeap over two blocks, beside requests without it: 4 masks in 2     *)
(* steps, so that a step that leaps 3 leaves the next one fewer masks than *)
(* its 2 commits.                                                          *)
(***************************************************************************)
LeapParams ==
  {Request(1, 8, 4, 4, TRUE, 1, 0),
   Request(0, 4, 2, 4, TRUE, 1, 0),
   Request(0, 3, None, 3, FALSE, 0, 0)}

(***************************************************************************)
(* One group key, two temperatures.                                        *)
(***************************************************************************)
MixedParams ==
  {Request(0, 2, None, 2, FALSE, 0, 0),
   Request(0, 2, None, 2, FALSE, 0, 1)}

=============================================================================
