------------------------------- MODULE Engine --------------------------------
(***************************************************************************)
(* Engine (dlmserve/engine.py): the scheduler and the denoising loop put   *)
(* together.  The state of a Request is the state of its row in            *)
(* DenoiseLoop; the scheduler reads its group key from it, and             *)
(* hands step_batch the batch in the order of the pool, whose first        *)
(* request lends its sampling parameters to all.                           *)
(*                                                                         *)
(* A row stands for one Request and is not used again.                     *)
(***************************************************************************)
EXTENDS DenoiseLoop, SequencesExt

CONSTANTS  \* of Scheduler
  MaxBatch, MaxWaiting, FlushWait, AgingPeriod, FlushBonus, StepTicks, MaxAge

ASSUME EngineAssumption ==
  /\ MaxBatch \in Nat \ {0}
  /\ {MaxWaiting, FlushWait, FlushBonus, MaxAge} \subseteq Nat
  /\ AgingPeriod \in Nat \ {0}
  /\ StepTicks \subseteq Nat \ {0}

VARIABLES
  pending, active, age, leaving,  \* of Scheduler
  future,                         \* Request._future
  raised                          \* whether the step of this iteration has raised

engineVars == <<vars, pending, active, age, leaving, future, raised>>

ProfileOf(p) ==
  [bucket   |-> BlockBucket(BlockLength(p)),
   leap     |-> p.leap,
   blocks   |-> NumBlocks(p),
   perBlock |-> StepsPerBlock(p)]

InSystem == ToSet(active \o pending)

S == INSTANCE Scheduler WITH
  Requests <- Rows,
  Profiles <- {ProfileOf(p) : p \in {q \in ParamSpace : Valid(q)}},
  profile  <- [r \in Rows |-> IF r \in InSystem THEN ProfileOf(params[r]) ELSE None],
  step     <- [r \in Rows |-> IF r \in InSystem THEN StepIdx(r) ELSE 0]

InitEngine ==
  /\ Init
  /\ pending = << >> /\ active = << >> /\ leaving = {}
  /\ age = [r \in Rows |-> 0]
  /\ future = [r \in Rows |-> "none"]
  /\ raised = FALSE

\* generate_async, for one prompt: init_state and admit().
Admit(r) ==
  /\ leaving = {}
  /\ Len(pending) < MaxWaiting
  /\ Submit(r)
  /\ pending' = Append(pending, r)
  /\ future' = [future EXCEPT ![r] = "pending"]
  /\ UNCHANGED <<active, age, leaving, raised>>

\* Mutant: step_batch mutates the states before it raises.
StepRaises_HalfDone(B, leader) ==
  StepBatch(B, leader) /\ leaving' = B /\ raised' = TRUE

\* step_batch raises, in the model's forward pass: no state has changed, and
\* the whole batch is to leave.
StepRaises(B, leader) == UNCHANGED vars /\ leaving' = B /\ raised' = TRUE

\* The requests that are done leave.
StepSucceeds(B, leader) ==
  /\ StepBatch(B, leader)
  /\ leaving' = {r \in B : Done(params[r], blockIdx'[r])}
  /\ raised' = FALSE

\* schedule(), and _step_batch() of what it returns.
RunBatch ==
  /\ leaving = {}
  /\ \E i \in DOMAIN S!Pool :
       /\ S!Best(S!Pool, i)
       /\ \/ StepRaises(S!Batch(S!Pool, i), S!Pool[i])
          \/ StepSucceeds(S!Batch(S!Pool, i), S!Pool[i])
  /\ active' = S!Pool
  /\ pending' = SubSeq(pending, S!Promotions + 1, Len(pending))
  /\ S!Elapse
  /\ future' = future

\* Mutant: the handler of a failed step takes the batch from the list only.
Complete_LeavesFuture ==
  \E i \in DOMAIN active :
    LET r == active[i]
    IN  /\ r \in leaving
        /\ \A j \in 1 .. i - 1 : active[j] \notin leaving
        /\ active' = RemoveAt(active, i)
        /\ leaving' = leaving \ {r}
        /\ age' = [age EXCEPT ![r] = 0]
        /\ future' = [future EXCEPT ![r] =
                        IF raised THEN @ ELSE "result"]
        /\ raised' = (raised /\ leaving' # {})
        /\ UNCHANGED <<vars, pending>>

\* Mutant: without an exception of its own, a future gets complete()'s result.
Complete_ResultAnyway ==
  \E i \in DOMAIN active :
    LET r == active[i]
    IN  /\ r \in leaving
        /\ \A j \in 1 .. i - 1 : active[j] \notin leaving
        /\ active' = RemoveAt(active, i)
        /\ leaving' = leaving \ {r}
        /\ age' = [age EXCEPT ![r] = 0]
        /\ future' = [future EXCEPT ![r] = "result"]
        /\ raised' = (raised /\ leaving' # {})
        /\ UNCHANGED <<vars, pending>>

(***************************************************************************)
(* complete(): in the handler of a failed step after the future got its    *)
(* exception, after a step that succeeded with the request's result.  The  *)
(* iteration is over with the last request to leave.                       *)
(***************************************************************************)
Complete ==
  \E i \in DOMAIN active :
    LET r == active[i]
    IN  /\ r \in leaving
        /\ \A j \in 1 .. i - 1 : active[j] \notin leaving
        /\ active' = RemoveAt(active, i)
        /\ leaving' = leaving \ {r}
        /\ age' = [age EXCEPT ![r] = 0]
        /\ future' = [future EXCEPT ![r] =
                        IF raised THEN "failed" ELSE "result"]
        /\ raised' = (raised /\ leaving' # {})
        /\ UNCHANGED <<vars, pending>>

NextEngine == RunBatch \/ Complete \/ \E r \in Rows : Admit(r)

SpecEngine == InitEngine /\ [][NextEngine]_engineVars

(***************************************************************************)
(* Nothing awaits inside an iteration, and the loop runs while there is    *)
(* work.  Only RunBatch lets time pass: its fairness is stated of the      *)
(* clock, which is cheaper to check than of the step.                      *)
(***************************************************************************)
Tick == leaving = {} /\ S!Pool # << >> /\ S!Elapse

FairSpecEngine == SpecEngine /\ WF_age(Tick) /\ WF_engineVars(Complete)

-----------------------------------------------------------------------------
(***************************************************************************)
(* Properties                                                              *)
(***************************************************************************)

(***************************************************************************)
(* Seen from the scheduler, the requests' states are the profiles and step *)
(* indices it is specified for: a row moves as Scheduler assumes of        *)
(* step_batch, leaves when it is done, and only then.                      *)
(***************************************************************************)
SchedulesAsSpecified == S!Spec

(***************************************************************************)
(* Seen from the denoising loop, whatever the scheduler chooses under      *)
(* aging and limits is a batch step_batch is specified for: unfinished     *)
(* requests with one group key.                                            *)
(***************************************************************************)
DenoisesAsSpecified == Spec

(***************************************************************************)
(* What a client receives as a result is complete: all its steps are done  *)
(* and no mask is left, however the forward passes were shared.  The code  *)
(* sets it by the path taken, looking at neither: failed steps leave       *)
(* unfinished requests to complete(), too.                                 *)
(***************************************************************************)
ResultsAreComplete ==
  \A r \in Rows :
    future[r] = "result" => /\ Done(params[r], blockIdx[r])
                            /\ MaskedIn(seq[r], Positions(params[r])) = {}

\* Every client gets a result or an error, whatever fails and whoever comes.
EveryClientAnswered ==
  \A r \in Rows : future[r] = "pending" ~> future[r] \in {"result", "failed"}
=============================================================================
