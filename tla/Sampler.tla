------------------------------- MODULE Sampler -------------------------------
(***************************************************************************)
(* The pure part of a denoising step: dlmserve/sampler.py.                 *)
(*                                                                         *)
(* The code ranks the positions of a row by the model's confidence and     *)
(* commits the best ones.  Confidences are abstracted to the one thing the *)
(* commit rule tells apart: a position has a finite confidence exactly     *)
(* when it is masked and lies before block_end_abs, and minus infinity     *)
(* otherwise.  Which finite positions win is the model's choice, so the    *)
(* operators return the SET of commits the code may make.                  *)
(***************************************************************************)
EXTENDS Integers, FiniteSets, FiniteSetsExt

\* Mutant: the remainder is dropped.
TransferSchedule_NoRemainder(maskCount, steps) ==
  [i \in 0 .. steps - 1 |-> maskCount \div steps]

\* Mutant: the remainder goes to the last steps.
TransferSchedule_RemainderLast(maskCount, steps) ==
  [i \in 0 .. steps - 1 |->
     maskCount \div steps + (IF i >= steps - (maskCount % steps) THEN 1 ELSE 0)]

(***************************************************************************)
(* compute_transfer_schedule: how many tokens each step of a block        *)
(* commits; the first maskCount % steps steps commit one more.            *)
(***************************************************************************)
TransferSchedule(maskCount, steps) ==
  [i \in 0 .. steps - 1 |->
     maskCount \div steps + (IF i < maskCount % steps THEN 1 ELSE 0)]

(***************************************************************************)
(* What the schedule of m masks still commits from step i on, in closed    *)
(* form.  Properties only: the code never computes it.                     *)
(***************************************************************************)
Budget(m, steps, i) ==
  (steps - i) * (m \div steps) + (IF i < m % steps THEN (m % steps) - i ELSE 0)

(***************************************************************************)
(* torch.topk(confidence, k) over `positions`.  With at most k finite      *)
(* confidences every finite position is taken and the rest of the k is     *)
(* drawn from the positions at minus infinity, in an order torch does not  *)
(* define.                                                                 *)
(***************************************************************************)
TopK(positions, finite, k) ==
  {C \in kSubset(k, positions) : C \subseteq finite \/ finite \subseteq C}

(***************************************************************************)
(* The positions LocalLeap looks at: within `radius` of an anchor.  The    *)
(* thresholds kappa and tau are abstracted: any anchor with a finite       *)
(* confidence may reach kappa, and any finite neighbour may reach tau.     *)
(* The clamp to the row adds nothing, the row's ends are near enough.      *)
(***************************************************************************)
Neighbours(anchors, finite, radius) ==
  {q \in finite : \E p \in anchors : p - radius <= q /\ q <= p + radius}

\* commit_top_k_by_confidence: the sets of positions written in one row.
TopKCommits(positions, finite, k) == TopK(positions, finite, k)

\* Mutant: only the neighbours of strong anchors are written.
LeapCommits_NeighboursOnly(positions, finite, k, radius) ==
  UNION {SUBSET Neighbours(C \cap finite, finite, radius) :
           C \in TopK(positions, finite, k)}

\* commit_with_local_leap: the anchors, and any of their neighbours.
LeapCommits(positions, finite, k, radius) ==
  UNION {{C \cup E : E \in SUBSET Neighbours(C \cap finite, finite, radius)} :
           C \in TopK(positions, finite, k)}
=============================================================================
