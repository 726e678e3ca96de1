----------------------------- MODULE MCScheduler -----------------------------
(***************************************************************************)
(* Small instances of Scheduler.  A tick stands for 50 ms: FLUSH_WAIT_MS   *)
(* is one tick and AGING_PERIOD_MS two.                                    *)
(***************************************************************************)
EXTENDS Scheduler

\* Two incompatible buckets; requests of one block and of two.
TwoBuckets ==
  {[bucket |-> 32, leap |-> FALSE, blocks |-> 1, perBlock |-> 2],
   [bucket |-> 64, leap |-> FALSE, blocks |-> 1, perBlock |-> 1]}

\* The kinds that differ by LocalLeap only, with an early block end.
LeapOrNot ==
  {[bucket |-> 32, leap |-> TRUE, blocks |-> 2, perBlock |-> 2],
   [bucket |-> 32, leap |-> FALSE, blocks |-> 2, perBlock |-> 1]}

Symmetry == Permutations(Requests)
=============================================================================
