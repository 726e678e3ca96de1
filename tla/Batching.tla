------------------------------ MODULE Batching ------------------------------
(***************************************************************************)
(* What the engine loop and its scheduler promise to everything around     *)
(* them: requests wait in a bounded queue, are moved into a bounded pool,  *)
(* and leave it at most a batch at a time, in one uninterrupted iteration. *)
(* Scheduler.tla implements it (Scheduler!Batched); the modules of the     *)
(* server and of offline use build on it, without the order of service.    *)
(***************************************************************************)
EXTENDS Integers, FiniteSetsExt

CONSTANTS
  Requests,    \* the identities of Request objects
  MaxBatch,    \* DLMSERVE_MAX_BATCH
  MaxWaiting   \* DLMSERVE_MAX_WAITING

VARIABLES
  queued,  \* the requests in _pending
  pool     \* the requests in _active

bvars == <<queued, pool>>

InSystem == queued \cup pool

\* DiffusionScheduler.has_work
HasWork == InSystem # {}

Init == queued = {} /\ pool = {}

\* Mutant: the bound is checked one too late.
Admit_OneMore(r) ==
  /\ r \notin InSystem
  /\ Cardinality(queued) <= MaxWaiting
  /\ queued' = queued \cup {r}
  /\ pool' = pool

\* admit(), when it does not return None.
Admit(r) ==
  /\ r \notin InSystem
  /\ Cardinality(queued) < MaxWaiting
  /\ queued' = queued \cup {r}
  /\ pool' = pool

(***************************************************************************)
(* What _promote_pending() moves: as many requests as fit.                 *)
(***************************************************************************)
Promotable ==
  kSubset(Min({Cardinality(queued), 2 * MaxBatch - Cardinality(pool)}), queued)

(***************************************************************************)
(* One iteration of the loop, at the end of which the requests F have left *)
(* the pool.  They are of one batch; the rest of the batch, if any, has    *)
(* taken one more denoising step.                                          *)
(***************************************************************************)
Iterate(F) ==
  /\ HasWork
  /\ Cardinality(F) <= MaxBatch
  /\ \E P \in Promotable :
       /\ F \subseteq pool \cup P
       /\ queued' = queued \ P
       /\ pool' = (pool \cup P) \ F

Next ==
  \/ \E r \in Requests : Admit(r)
  \/ \E F \in SUBSET InSystem : Iterate(F)

Spec == Init /\ [][Next]_bvars
=============================================================================
