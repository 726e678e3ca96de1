------------------------------- MODULE Offline -------------------------------
(***************************************************************************)
(* Offline use: LLM.generate, again and again on one Engine                *)
(* (Engine.generate and generate_async of dlmserve/engine.py).             *)
(*                                                                         *)
(* Every call runs an event loop and an engine loop of its own, over the   *)
(* one scheduler of the Engine.  What a call leaves in the scheduler is    *)
(* met by the next one, together with futures of an event loop that is     *)
(* closed.                                                                 *)
(***************************************************************************)
EXTENDS Integers, FiniteSetsExt

CONSTANTS
  Prompts,     \* the identities of Request objects, reused once they left
  MaxBatch,    \* DLMSERVE_MAX_BATCH
  MaxWaiting,  \* DLMSERVE_MAX_WAITING
  MaxCall,     \* bound: the prompts of one call
  Faults       \* what may raise: "encode" (_encode), "step" (step_batch), "decode" (_make_output)

ASSUME LimitAssumption ==
  IsFiniteSet(Prompts) /\ MaxBatch \in Nat \ {0} /\ MaxWaiting \in Nat
ASSUME CallAssumption == MaxCall \in Nat \ {0} /\ Faults \subseteq {"encode", "step", "decode"}

VARIABLES
  queued,    \* Batching
  pool,      \* Batching
  future,    \* future[r]: the Future of request r
  awaited,   \* requests whose future carries the callback of a gather()
  own,       \* the requests of the call that is running
  phase,     \* what the caller is doing
  engine,    \* the engine loop's task in this call
  shutdown,  \* Engine._shutdown, between calls and while one runs
  depth,     \* the gauge queue_depth
  clean      \* history: the running call, or the last one, met an empty scheduler
             \* and has not failed

callVars == <<own, phase, clean>>
vars == <<queued, pool, future, awaited, engine, shutdown, depth, callVars>>

B == INSTANCE Batching WITH Requests <- Prompts

Init ==
  /\ B!Init
  /\ future = [r \in Prompts |-> "none"]
  /\ awaited = {}
  /\ own = {}
  /\ phase = "idle"
  /\ engine = "none"
  /\ shutdown = FALSE
  /\ depth = 0
  /\ clean = TRUE

-----------------------------------------------------------------------------
(***************************************************************************)
(* A call: its admissions run before the engine loop's first iteration,    *)
(* there is no await between them.                                         *)
(***************************************************************************)
Free == Prompts \ B!InSystem

Calls == {S \in SUBSET Free : S # {} /\ Cardinality(S) <= MaxCall}

\* Mutant: a bound checked one too late.
WaitingRoom_OneMore == MaxWaiting + 1 - Cardinality(queued)

WaitingRoom == MaxWaiting - Cardinality(queued)

\* Every prompt is admitted, and gather() waits for all their futures.
Generate(S) ==
  /\ phase = "idle"
  /\ Cardinality(S) <= WaitingRoom
  /\ queued' = queued \cup S
  /\ future' = [r \in Prompts |-> IF r \in S THEN "pending" ELSE future[r]]
  /\ awaited' = awaited \cup S
  /\ own' = S
  /\ phase' = "calling"
  /\ engine' = "running"
  /\ clean' = (B!InSystem = {})
  /\ UNCHANGED <<pool, shutdown, depth>>

(***************************************************************************)
(* The call raises half way: the queue is full, init_state refuses the     *)
(* parameters, the same for every prompt, or a prompt cannot be encoded.   *)
(* What it has admitted stays, the engine loop is cancelled before it ever *)
(* ran, and the flag is reset.                                             *)
(***************************************************************************)
RaiseHalfway(S) ==
  /\ phase = "idle"
  /\ \E A \in SUBSET S \ {S} :
       /\ Cardinality(A) <= WaitingRoom
       /\ A = {} \/ Cardinality(A) = WaitingRoom \/ "encode" \in Faults
       /\ queued' = queued \cup A
       /\ future' = [r \in Prompts |-> IF r \in A THEN "pending" ELSE future[r]]
       /\ awaited' = awaited \ A
       /\ clean' = (clean /\ A = {})
  /\ shutdown' = FALSE
  /\ UNCHANGED <<pool, own, phase, engine, depth>>

-----------------------------------------------------------------------------
(***************************************************************************)
(* The engine loop of the call.                                            *)
(***************************************************************************)
Resolve(F, how) ==
  future' = [r \in Prompts |-> IF r \in F /\ future[r] = "pending" THEN how
                               ELSE future[r]]

(***************************************************************************)
(* Resolving these raises: their callback is scheduled on a closed loop.   *)
(***************************************************************************)
Poisoned == {r \in awaited \ own : future[r] = "pending"}

EngineOnly == UNCHANGED <<awaited, shutdown, callVars>>

\* Mutant: the gauge is set while requests wait.
Step_DepthWhileWaiting(F) ==
  /\ engine = "running"
  /\ F \cap Poisoned = {}
  /\ B!Iterate(F)
  /\ Resolve(F, "result")
  /\ depth' = IF queued' = {} THEN depth ELSE Cardinality(queued')
  /\ engine' = engine
  /\ EngineOnly

\* A step; the requests F are done.  Only such an iteration sets the gauge.
Step(F) ==
  /\ engine = "running"
  /\ F \cap Poisoned = {}
  /\ B!Iterate(F)
  /\ Resolve(F, "result")
  /\ depth' = Cardinality(queued')
  /\ engine' = engine
  /\ EngineOnly

\* Mutant: the batch is dropped without an answer.
StepRaises_Unanswered(F) ==
  /\ "step" \in Faults
  /\ engine = "running"
  /\ F # {} /\ F \cap Poisoned = {}
  /\ B!Iterate(F)
  /\ UNCHANGED <<future, engine, depth>>
  /\ EngineOnly

\* step_batch raises: the batch F is aborted.
StepRaises(F) ==
  /\ "step" \in Faults
  /\ engine = "running"
  /\ F # {} /\ F \cap Poisoned = {}
  /\ B!Iterate(F)
  /\ Resolve(F, "failed")
  /\ engine' = engine /\ depth' = depth
  /\ EngineOnly

(***************************************************************************)
(* _make_output raises: the requests F were completed, the one it was      *)
(* called for stays with the rest, and the exception ends the task.        *)
(***************************************************************************)
DecodeRaises(F) ==
  /\ "decode" \in Faults
  /\ engine = "running"
  /\ F \cap Poisoned = {}
  /\ Cardinality(F) < MaxBatch
  /\ B!Iterate(F)
  /\ pool' # {}
  /\ Resolve(F, "result")
  /\ engine' = "failed" /\ depth' = depth
  /\ EngineOnly

(***************************************************************************)
(* complete() removes request r, after those in F, and resolves its        *)
(* future: the exception ends the engine loop's task.                      *)
(***************************************************************************)
CompletePoisoned(F, r) ==
  /\ engine = "running"
  /\ r \in Poisoned \ F /\ F \cap Poisoned = {}
  /\ B!Iterate(F \cup {r})
  /\ Resolve(F \cup {r}, "result")
  /\ engine' = "failed" /\ depth' = depth
  /\ EngineOnly

(***************************************************************************)
(* The same in the handler of a failed step: set_exception comes before    *)
(* complete(), so r stays.                                                 *)
(***************************************************************************)
AbortPoisoned(F, r) ==
  /\ "step" \in Faults
  /\ engine = "running"
  /\ r \in Poisoned \ F /\ F \cap Poisoned = {}
  /\ Cardinality(F) < MaxBatch
  /\ B!Iterate(F)
  /\ r \in pool'
  /\ Resolve(F \cup {r}, "failed")
  /\ engine' = "failed" /\ depth' = depth
  /\ EngineOnly

\* Mutant: the flag alone ends the loop.
LoopEnds_AtOnce ==
  /\ engine = "running"
  /\ shutdown
  /\ engine' = "ended"
  /\ UNCHANGED <<queued, pool, future, depth>>
  /\ EngineOnly

\* The flag is still set, and no work is left.
LoopEnds ==
  /\ engine = "running"
  /\ shutdown
  /\ ~B!HasWork
  /\ engine' = "ended"
  /\ UNCHANGED <<queued, pool, future, depth>>
  /\ EngineOnly

-----------------------------------------------------------------------------
(***************************************************************************)
(* The end of a call: the finally cancels the engine loop, awaits it and   *)
(* resets the flag.  If the loop's task has failed, awaiting it raises     *)
(* again: the answers are lost and the flag stays set.                     *)
(***************************************************************************)
EndCall(how) ==
  /\ phase = "calling"
  /\ phase' = "idle"
  /\ clean' = (clean /\ how = "returned" /\ engine # "failed")
  /\ shutdown' = (engine = "failed")
  /\ engine' = "none"
  /\ own' = {}
  /\ UNCHANGED <<queued, pool, awaited, depth>>

\* Mutant: the call returns at the first answer.
Return_First ==
  /\ \E r \in own : future[r] = "result"
  /\ EndCall("returned")
  /\ future' = future

\* gather() has every result.
Return ==
  /\ \A r \in own : future[r] = "result"
  /\ EndCall("returned")
  /\ future' = future

\* gather() raises the first exception and lets the others be.
Raise ==
  /\ \E r \in own : future[r] = "failed"
  /\ EndCall("raised")
  /\ future' = future

\* Ctrl-C: asyncio cancels the call, and gather() the futures it waits for.
Interrupt ==
  /\ EndCall("raised")
  /\ future' = [r \in Prompts |-> IF r \in own /\ future[r] = "pending" THEN "cancelled"
                                  ELSE future[r]]

Next ==
  \/ \E S \in Calls : Generate(S) \/ RaiseHalfway(S)
  \/ \E F \in SUBSET Prompts :
       \/ Step(F) \/ StepRaises(F) \/ DecodeRaises(F)
       \/ \E r \in Prompts : CompletePoisoned(F, r) \/ AbortPoisoned(F, r)
  \/ LoopEnds
  \/ Return \/ Raise \/ Interrupt

Spec == Init /\ [][Next]_vars

-----------------------------------------------------------------------------
(***************************************************************************)
(* Fairness: whatever is in the scheduler, left there by earlier calls or  *)
(* not, leaves in the end while the engine loop runs                       *)
(* (Scheduler!NoStarvation), and a resolved gather() resumes the call.     *)
(***************************************************************************)
Leaves(r) ==
  \E F \in SUBSET Prompts :
    \/ r \in F /\ (Step(F) \/ \E q \in Prompts : CompletePoisoned(F, q))
    \/ CompletePoisoned(F, r)

FairSpec ==
  /\ Spec
  /\ \A r \in Prompts : WF_vars(Leaves(r))
  /\ WF_vars(Return)
  /\ WF_vars(Raise)

-----------------------------------------------------------------------------
(***************************************************************************)
(* Properties                                                              *)
(***************************************************************************)

\* Every variable has its type.
TypeOK ==
  /\ queued \subseteq Prompts /\ pool \subseteq Prompts
  /\ Cardinality(queued) <= MaxWaiting /\ Cardinality(pool) <= 2 * MaxBatch
  /\ future \in [Prompts -> {"none", "pending", "result", "failed", "cancelled"}]
  /\ awaited \subseteq Prompts /\ own \subseteq Prompts
  /\ phase \in {"idle", "calling"}
  /\ engine \in {"none", "running", "failed", "ended"}
  /\ shutdown \in BOOLEAN /\ clean \in BOOLEAN
  /\ depth \in Nat

(***************************************************************************)
(* A call that finds the scheduler empty works for nobody but itself, and  *)
(* unless it fails it leaves nothing behind: no request, no future of a    *)
(* closed event loop, no flag, whatever calls before it had left.  A call  *)
(* that is refused before it admits anything changes nothing of that.      *)
(***************************************************************************)
OnlyFailuresLeaveWork ==
  clean => /\ B!InSystem \subseteq own
           /\ Poisoned = {}
           /\ phase = "idle" => ~shutdown

(***************************************************************************)
(* What a running call waits for can still come: each of its requests is   *)
(* answered or in the scheduler, whatever calls before it have left there. *)
(***************************************************************************)
OwnRequestsKept ==
  \A r \in own : future[r] = "pending" => r \in B!InSystem /\ engine # "ended"

(***************************************************************************)
(* queue_depth is set only by iterations that succeed: after a failure it  *)
(* may say that requests wait when none does.  The next call that finds    *)
(* the scheduler empty and returns puts it right: it leaves the gauge at   *)
(* zero, from whatever value it had.                                       *)
(***************************************************************************)
IdleDepthIsZero == phase = "idle" /\ clean => depth = 0

(***************************************************************************)
(* A call that finds the scheduler empty comes to an end, whatever failed  *)
(* before it and whatever flag that left set, unless an output cannot be   *)
(* decoded: that ends the engine loop, and nobody looks at it while the    *)
(* call waits.                                                             *)
(***************************************************************************)
CallsEndOnCleanEngine ==
  (phase = "calling" /\ clean) ~> phase = "idle" \/ engine = "failed"

-----------------------------------------------------------------------------
(***************************************************************************)
(* What the code says of itself and does not keep: engine.py, reset so the *)
(* engine can be reused.  Without failing decodes, every call ends.        *)
(***************************************************************************)
EveryCallEnds == phase = "calling" ~> phase = "idle"
=============================================================================
