------------------------------ MODULE Scheduler ------------------------------
(***************************************************************************)
(* The continuous-batching scheduler (dlmserve/scheduler.py) under the     *)
(* engine loop that drives it (Engine._engine_loop).                       *)
(*                                                                         *)
(* Everything runs on one asyncio thread: the loop gives it up only at its *)
(* `await asyncio.sleep(0)`, so a request is admitted between two          *)
(* iterations and never inside one.  An iteration is RunBatch (promote,    *)
(* choose, denoise) and one Complete per request that leaves.              *)
(*                                                                         *)
(* Time is counted in ticks.  A denoising step takes one or more of them,  *)
(* all the rest takes none.                                                *)
(***************************************************************************)
EXTENDS Integers, FiniteSetsExt, SequencesExt

CONSTANTS
  Requests,     \* the identities of Request objects, reused once they left
  Profiles,     \* the kinds of request
  MaxBatch,     \* DLMSERVE_MAX_BATCH
  MaxWaiting,   \* DLMSERVE_MAX_WAITING
  FlushWait,    \* FLUSH_WAIT_MS, in ticks
  AgingPeriod,  \* AGING_PERIOD_MS, in ticks
  FlushBonus,   \* the 1000.0 of schedule()
  StepTicks,    \* how long a denoising step may take
  MaxAge,       \* bound: ages are not told apart beyond it
  None          \* no request

ProfileType ==
  [bucket   : Nat,            \* block_length_bucket
   leap     : BOOLEAN,        \* use_local_leap
   blocks   : Nat \ {0},      \* num_blocks
   perBlock : Nat \ {0}]      \* steps_per_block

ASSUME ProfileAssumption == Profiles \subseteq ProfileType /\ None \notin Profiles

ASSUME LimitAssumption ==
  /\ MaxBatch \in Nat \ {0}
  /\ {MaxWaiting, FlushWait, FlushBonus, MaxAge} \subseteq Nat
  /\ AgingPeriod \in Nat \ {0}
  /\ StepTicks \subseteq Nat \ {0}

VARIABLES
  pending,  \* _pending, a deque
  active,   \* _active, a list
  profile,  \* what the request asked for, None when it is not in the system
  step,     \* Request.step_idx
  age,      \* now - admitted_ms
  leaving   \* requests the loop has still to complete in this iteration

vars == <<pending, active, profile, step, age, leaving>>

Init ==
  /\ pending = << >>
  /\ active = << >>
  /\ profile = [r \in Requests |-> None]
  /\ step = [r \in Requests |-> 0]
  /\ age = [r \in Requests |-> 0]
  /\ leaving = {}

\* Mutant: a bound checked one too late.
Admit_OneMore(r) ==
  /\ leaving = {}
  /\ profile[r] = None
  /\ Len(pending) <= MaxWaiting
  /\ \E p \in Profiles : profile' = [profile EXCEPT ![r] = p]
  /\ pending' = Append(pending, r)
  /\ UNCHANGED <<active, step, age, leaving>>

\* Mutant: a new request goes to the head of the deque.
Admit_AtHead(r) ==
  /\ leaving = {}
  /\ profile[r] = None
  /\ Len(pending) < MaxWaiting
  /\ \E p \in Profiles : profile' = [profile EXCEPT ![r] = p]
  /\ pending' = <<r>> \o pending
  /\ UNCHANGED <<active, step, age, leaving>>

(***************************************************************************)
(* admit().  When the deque is full it returns None and changes nothing.   *)
(***************************************************************************)
Admit(r) ==
  /\ leaving = {}
  /\ profile[r] = None
  /\ Len(pending) < MaxWaiting
  /\ \E p \in Profiles : profile' = [profile EXCEPT ![r] = p]
  /\ pending' = Append(pending, r)
  /\ UNCHANGED <<active, step, age, leaving>>

-----------------------------------------------------------------------------
(***************************************************************************)
(* schedule(): promote, group, score, choose.                              *)
(***************************************************************************)
Room == MaxBatch * 2 - Len(active)

\* Mutant: promotion into half of the room.
Promotions_Half == IF Len(pending) <= Room \div 2 THEN Len(pending) ELSE Room \div 2

\* How many requests _promote_pending() moves.
Promotions == IF Len(pending) <= Room THEN Len(pending) ELSE Room

\* The active list once they are moved.
Pool == active \o SubSeq(pending, 1, Promotions)

\* Mutant: the key without use_local_leap.
GroupKey_NoLeap(r) == <<step[r], profile[r].bucket>>

\* Mutant: the key without the step.
GroupKey_NoStep(r) == <<profile[r].bucket, profile[r].leap>>

GroupKey(r) == <<step[r], profile[r].bucket, profile[r].leap>>

\* A group is known by a position in the pool, and is a set of positions.
Group(pool, i) == {j \in DOMAIN pool : GroupKey(pool[j]) = GroupKey(pool[i])}

\* Mutant: the wait of the group's newest member.
OldestWait_Newest(pool, i) == Min({age[pool[j]] : j \in Group(pool, i)})

OldestWait(pool, i) == Max({age[pool[j]] : j \in Group(pool, i)})

\* Mutant: batch size alone decides.
Score_NoAging(pool, i) == Cardinality(Group(pool, i))

(***************************************************************************)
(* The score times AGING_PERIOD_MS, to stay in the integers.               *)
(***************************************************************************)
Score(pool, i) ==
  AgingPeriod * Cardinality(Group(pool, i)) + OldestWait(pool, i)
    + (IF OldestWait(pool, i) > FlushWait THEN FlushBonus * AgingPeriod ELSE 0)

\* The dict of groups is iterated in the order of their first members.
First(pool, i) == \A j \in Group(pool, i) : i <= j

\* The group the loop over the dict ends with: ties go to the earliest one.
Best(pool, i) ==
  /\ First(pool, i)
  /\ \A j \in DOMAIN pool :
       First(pool, j) => \/ Score(pool, j) < Score(pool, i)
                         \/ Score(pool, j) = Score(pool, i) /\ i <= j

\* Mutant: the last max_batch members run, not the first.
Batch_Last(pool, i) ==
  {pool[j] : j \in {k \in Group(pool, i) :
     Cardinality({m \in Group(pool, i) : m > k}) < MaxBatch}}

\* groups[best_key][: max_batch]
Batch(pool, i) ==
  {pool[j] : j \in {k \in Group(pool, i) :
     Cardinality({m \in Group(pool, i) : m < k}) < MaxBatch}}

-----------------------------------------------------------------------------
(***************************************************************************)
(* Running the batch.                                                      *)
(***************************************************************************)
Steps(p) == p.blocks * p.perBlock

\* Mutant: a full block further, from the middle of one.
NextSteps_WholeBlock(r) == {step[r] + 1, step[r] + profile[r].perBlock}

(***************************************************************************)
(* step_batch() moves a request to the next step or, once no mask is left  *)
(* in its block, to the first step of the next block.                      *)
(***************************************************************************)
NextSteps(r) ==
  {step[r] + 1, (step[r] \div profile[r].perBlock + 1) * profile[r].perBlock}

\* Mutant: done is tested with > instead of >=.
Denoise_OneStepMore(B) ==
  /\ \E next \in [B -> UNION {NextSteps(r) : r \in B}] :
       /\ \A r \in B : next[r] \in NextSteps(r)
       /\ step' = [r \in Requests |-> IF r \in B THEN next[r] ELSE step[r]]
       /\ leaving' = {r \in B : next[r] > Steps(profile[r])}

\* A step that succeeds: the requests that are done leave.
Denoise(B) ==
  /\ \E next \in [B -> UNION {NextSteps(r) : r \in B}] :
       /\ \A r \in B : next[r] \in NextSteps(r)
       /\ step' = [r \in Requests |-> IF r \in B THEN next[r] ELSE step[r]]
       /\ leaving' = {r \in B : next[r] = Steps(profile[r])}

\* A step that raises: the whole batch leaves.
Abort(B) == leaving' = B /\ step' = step

\* The clock during a step.
Elapse ==
  \E t \in StepTicks :
    age' = [r \in Requests |->
              IF profile[r] = None THEN age[r]
              ELSE IF age[r] + t <= MaxAge THEN age[r] + t ELSE MaxAge]

RunBatch ==
  /\ leaving = {}
  /\ \E pool \in {Pool} : \E i \in DOMAIN pool : \E batch \in {Batch(pool, i)} :
       /\ Best(pool, i)
       /\ Denoise(batch) \/ Abort(batch)
       /\ active' = pool
  /\ pending' = SubSeq(pending, Promotions + 1, Len(pending))
  /\ Elapse
  /\ profile' = profile

\* Mutant: the head of the list is dropped, whoever finished.
Complete_Head ==
  \E i \in DOMAIN active :
    /\ active[i] \in leaving
    /\ \A j \in 1 .. i - 1 : active[j] \notin leaving
    /\ active' = Tail(active)
    /\ leaving' = leaving \ {active[i]}
    /\ profile' = [profile EXCEPT ![active[i]] = None]
    /\ step' = [step EXCEPT ![active[i]] = 0]
    /\ age' = [age EXCEPT ![active[i]] = 0]
    /\ pending' = pending

(***************************************************************************)
(* complete(), in the order of the batch, which is the order of the list.  *)
(***************************************************************************)
Complete ==
  \E i \in DOMAIN active :
    /\ active[i] \in leaving
    /\ \A j \in 1 .. i - 1 : active[j] \notin leaving
    /\ active' = RemoveAt(active, i)
    /\ leaving' = leaving \ {active[i]}
    /\ profile' = [profile EXCEPT ![active[i]] = None]
    /\ step' = [step EXCEPT ![active[i]] = 0]
    /\ age' = [age EXCEPT ![active[i]] = 0]
    /\ pending' = pending

Next == RunBatch \/ Complete \/ \E r \in Requests : Admit(r)

Spec == Init /\ [][Next]_vars

(***************************************************************************)
(* The engine loop never stops while has_work(), and nothing awaits        *)
(* between a step and the completions that follow it.                      *)
(***************************************************************************)
FairSpec == Spec /\ WF_vars(RunBatch) /\ WF_vars(Complete)

-----------------------------------------------------------------------------
(***************************************************************************)
(* Properties                                                              *)
(***************************************************************************)

\* Every variable has its type, and both queues are within their limits.
TypeOK ==
  /\ pending \in Seq(Requests) /\ Len(pending) <= MaxWaiting
  /\ active \in Seq(Requests) /\ Len(active) <= 2 * MaxBatch
  /\ profile \in [Requests -> Profiles \cup {None}]
  /\ step \in [Requests -> Nat]
  /\ age \in [Requests -> 0 .. MaxAge]
  /\ leaving \subseteq Requests

\* The whole system in the order of service.
Queue == active \o pending

(***************************************************************************)
(* Through promotions, early block ends, failed steps and completions in   *)
(* the middle of the list, an admitted request is at exactly one place.    *)
(***************************************************************************)
Placed ==
  /\ \A i, j \in DOMAIN Queue : Queue[i] = Queue[j] => i = j
  /\ \A r \in Requests : profile[r] # None <=> \E i \in DOMAIN Queue : Queue[i] = r
  /\ \A r \in leaving : \E i \in DOMAIN active : active[i] = r

(***************************************************************************)
(* Requests that finish leave holes anywhere in the list, and the rest is  *)
(* never reordered: the older of two requests is always the nearer to the  *)
(* head.  It is why the tie-break of schedule() favours the oldest.        *)
(***************************************************************************)
OldestFirst ==
  \A i, j \in DOMAIN Queue : i < j => age[Queue[i]] >= age[Queue[j]]

(***************************************************************************)
(* No step is run for a request that has none left: step_idx stays below   *)
(* num_denoising_steps until the request leaves.                           *)
(***************************************************************************)
NoStepAfterLast ==
  \A r \in Requests :
    profile[r] # None =>
      /\ step[r] <= Steps(profile[r])
      /\ step[r] = Steps(profile[r]) => r \in leaving

(***************************************************************************)
(* Aging bounds overtaking: if the oldest active request is not in the     *)
(* batch, the batch has a member younger than it by at most AGING_PERIOD   *)
(* times the largest difference in size of two groups (2 * max_batch - 2). *)
(***************************************************************************)
Ran == {r \in Requests : step'[r] # step[r] \/ r \in leaving'}

OvertakenByLittle ==
  leaving = {} /\ Ran # {} =>
    \E r \in Ran : age[active'[1]] <= age[r] + AgingPeriod * (2 * MaxBatch - 2)

BoundedOvertaking == [][OvertakenByLittle]_vars

(***************************************************************************)
(* With the queues bounded, aging also bounds the whole stay of a request, *)
(* whatever arrives after it: no age reaches MaxAge, which is therefore no *)
(* restriction of the model either.                                        *)
(***************************************************************************)
BoundedStay == \A r \in Requests : profile[r] # None => age[r] < MaxAge

(***************************************************************************)
(* Order, scores, ages and steps hidden, what is left is Batching: bounded *)
(* queues, requests that leave at most a batch at a time, and only after   *)
(* they were promoted.  A request that Complete has still to remove has    *)
(* left already, so that the whole iteration is one step of Batching.      *)
(***************************************************************************)
Members(s) == {s[i] : i \in DOMAIN s}

Promise == INSTANCE Batching WITH
  queued <- Members(pending), pool <- Members(active) \ leaving

Batched == Promise!Spec

(***************************************************************************)
(* No starvation under endless arrivals: every admitted request leaves.    *)
(***************************************************************************)
NoStarvation == \A r \in Requests : profile[r] # None ~> profile[r] = None
=============================================================================
