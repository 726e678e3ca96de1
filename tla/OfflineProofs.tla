---------------------------- MODULE OfflineProofs ----------------------------
(***************************************************************************)
(* For any number of prompts, any limits and any faults: what a running    *)
(* call waits for is in the scheduler or answered, and a call that met an  *)
(* empty scheduler leaves nothing behind unless it fails.                  *)
(*                                                                         *)
(* The second needs to know where the pending futures are: in the          *)
(* scheduler, all of them, and in a call that met it empty they are the    *)
(* call's own.                                                             *)
(***************************************************************************)
EXTENDS Offline, FiniteSetTheorems, TLAPS

Typed ==
  /\ B!InSystem \subseteq Prompts
  /\ own \subseteq Prompts /\ awaited \subseteq Prompts
  /\ future \in [Prompts -> {"none", "pending", "result", "failed", "cancelled"}]

Apart == queued \cap pool = {}

\* Between calls there is no engine loop and nothing to wait for.
IdleIsOver == phase = "idle" => own = {} /\ engine = "none"

EndedIsIdle == engine = "ended" => B!InSystem = {}

\* No request has left the scheduler without an answer.
PendingInSystem == \A r \in Prompts : future[r] = "pending" => r \in B!InSystem

\* While a call that met an empty scheduler runs, these are the pending futures.
CleanPending ==
  clean => /\ \A r \in Prompts : future[r] = "pending" => r \in own
           /\ \A r \in B!InSystem : future[r] = "pending"
           /\ phase = "idle" => ~shutdown

\* Then the gauge is right as soon as a step has answered it.
CleanDepth ==
  clean =>
    \/ depth = Cardinality(queued)
    \/ engine = "failed"
    \/ \E r \in own : future[r] = "failed"
    \/ phase = "calling" /\ \A r \in own : future[r] # "result"

\* A call has prompts.
CallHasPrompts == phase = "calling" => own # {}

OfflineInv ==
  /\ Typed
  /\ Apart
  /\ IdleIsOver
  /\ EndedIsIdle
  /\ OwnRequestsKept
  /\ PendingInSystem
  /\ CleanPending

-----------------------------------------------------------------------------
(* An iteration of the engine loop takes away just the requests that leave. *)
LEMMA IterateRemoves ==
  ASSUME NEW F, Apart, B!Iterate(F)
  PROVE  /\ F \subseteq B!InSystem
         /\ B!InSystem' = B!InSystem \ F
         /\ Apart'
<1>1. PICK P \in B!Promotable : /\ F \subseteq pool \cup P
                                /\ queued' = queued \ P
                                /\ pool' = (pool \cup P) \ F
  BY DEF B!Iterate
<1>2. P \subseteq queued
  BY <1>1 DEF B!Promotable, B!kSubset
<1> QED
  BY <1>1, <1>2 DEF Apart, B!InSystem

(* Resolving the futures of G while the requests F, all in G, leave.  What *)
(* is resolved and stays was left by an earlier call.                      *)
LEMMA IterateInv ==
  ASSUME OfflineInv, NEW F, NEW G \in SUBSET Prompts, NEW how \in {"result", "failed"},
         B!Iterate(F), F \subseteq G, Resolve(G, how), EngineOnly,
         engine = "running", engine' \in {"running", "failed"},
         clean => G = F
  PROVE  OfflineInv'
<1>1. /\ F \subseteq B!InSystem
      /\ B!InSystem' = B!InSystem \ F
      /\ Apart'
  BY IterateRemoves DEF OfflineInv
<1>2. /\ own' = own /\ phase' = phase /\ clean' = clean
      /\ shutdown' = shutdown /\ awaited' = awaited
  BY DEF EngineOnly, callVars
<1>3. \A r \in Prompts :
        future'[r] = IF r \in G /\ future[r] = "pending" THEN how ELSE future[r]
  BY DEF Resolve
<1>4. Typed'
  BY <1>1, <1>2 DEF OfflineInv, Typed, Resolve
<1>5. OwnRequestsKept'
  BY <1>1, <1>2, <1>3 DEF OfflineInv, OwnRequestsKept, Typed
<1>6. CleanPending'
  BY <1>1, <1>2, <1>3 DEF OfflineInv, CleanPending, Typed
<1>7. IdleIsOver' /\ EndedIsIdle'
  BY <1>2 DEF OfflineInv, IdleIsOver, EndedIsIdle
<1>8. PendingInSystem'
  BY <1>1, <1>3 DEF OfflineInv, PendingInSystem
<1> QED
  BY <1>1, <1>4, <1>5, <1>6, <1>7, <1>8 DEF OfflineInv

(* A call that met an empty scheduler meets no request whose future        *)
(* belongs to a closed loop.                                               *)
LEMMA CleanIsNotPoisoned ==
  ASSUME OfflineInv, clean
  PROVE  Poisoned = {}
BY DEF OfflineInv, Typed, CleanPending, Poisoned

LEMMA PoisonedInv ==
  ASSUME OfflineInv, NEW F \in SUBSET Prompts, NEW r \in Prompts,
         CompletePoisoned(F, r) \/ AbortPoisoned(F, r)
  PROVE  OfflineInv'
<1>1. CASE CompletePoisoned(F, r)
  <2>1. /\ B!Iterate(F \cup {r}) /\ Resolve(F \cup {r}, "result")
        /\ EngineOnly /\ engine = "running" /\ engine' = "failed"
    BY <1>1 DEF CompletePoisoned
  <2>2. ~clean
    BY <1>1, CleanIsNotPoisoned DEF CompletePoisoned
  <2> QED
    BY <2>1, <2>2, IterateInv
<1>2. CASE AbortPoisoned(F, r)
  <2>1. /\ B!Iterate(F) /\ Resolve(F \cup {r}, "failed")
        /\ EngineOnly /\ engine = "running" /\ engine' = "failed"
    BY <1>2 DEF AbortPoisoned
  <2>2. ~clean
    BY <1>2, CleanIsNotPoisoned DEF AbortPoisoned
  <2> QED
    BY <2>1, <2>2, IterateInv
<1> QED
  BY <1>1, <1>2

-----------------------------------------------------------------------------
LEMMA InitInv == Init => OfflineInv
BY DEF Init, OfflineInv, Typed, Apart, IdleIsOver, EndedIsIdle, OwnRequestsKept,
       PendingInSystem, CleanPending, B!Init, B!InSystem

LEMMA GenerateInv ==
  ASSUME OfflineInv, NEW S \in Calls, Generate(S)
  PROVE  OfflineInv'
<1>1. S \subseteq Prompts /\ S \cap B!InSystem = {}
  BY DEF Calls, Free
<1>2. /\ B!InSystem' = B!InSystem \cup S /\ Apart'
      /\ own' = S /\ phase' = "calling" /\ engine' = "running"
      /\ clean' = (B!InSystem = {}) /\ shutdown' = shutdown
      /\ own = {}
  BY <1>1 DEF Generate, OfflineInv, Apart, IdleIsOver, B!InSystem
<1>3. \A r \in Prompts : future'[r] = IF r \in S THEN "pending" ELSE future[r]
  BY DEF Generate
<1>4. Typed'
  BY <1>1, <1>2 DEF Generate, OfflineInv, Typed
<1>5. OwnRequestsKept'
  BY <1>2 DEF OwnRequestsKept
<1>6. PendingInSystem'
  BY <1>2, <1>3 DEF OfflineInv, PendingInSystem
<1>7. CleanPending'
  BY <1>1, <1>2, <1>3 DEF OfflineInv, PendingInSystem, CleanPending
<1> QED
  BY <1>2, <1>4, <1>5, <1>6, <1>7 DEF OfflineInv, IdleIsOver, EndedIsIdle

LEMMA RaiseHalfwayInv ==
  ASSUME OfflineInv, NEW S \in Calls, RaiseHalfway(S)
  PROVE  OfflineInv'
<1>1. S \subseteq Prompts /\ S \cap B!InSystem = {}
  BY DEF Calls, Free
<1>2. PICK A \in SUBSET S :
        /\ queued' = queued \cup A
        /\ future' = [r \in Prompts |-> IF r \in A THEN "pending" ELSE future[r]]
        /\ awaited' = awaited \ A
        /\ clean' = (clean /\ A = {})
  BY DEF RaiseHalfway
<1>3. /\ B!InSystem' = B!InSystem \cup A /\ Apart'
      /\ own' = own /\ own = {} /\ phase' = phase /\ engine' = engine
      /\ engine = "none" /\ shutdown' = FALSE
  BY <1>1, <1>2 DEF RaiseHalfway, OfflineInv, Apart, IdleIsOver, B!InSystem
<1>4. Typed'
  <2>1. future' \in [Prompts -> {"none", "pending", "result", "failed", "cancelled"}]
    BY <1>2 DEF OfflineInv, Typed
  <2> QED
    BY <1>1, <1>2, <1>3, <2>1 DEF OfflineInv, Typed
<1>5. CleanPending'
  BY <1>1, <1>2, <1>3 DEF OfflineInv, CleanPending, Typed
<1>6. PendingInSystem'
  BY <1>2, <1>3 DEF OfflineInv, PendingInSystem
<1> QED
  BY <1>3, <1>4, <1>5, <1>6 DEF OfflineInv, IdleIsOver, EndedIsIdle, OwnRequestsKept

LEMMA LoopEndsInv == ASSUME OfflineInv, LoopEnds PROVE OfflineInv'
<1>1. /\ B!InSystem' = B!InSystem /\ B!InSystem = {} /\ Apart' = Apart
      /\ future' = future /\ own' = own /\ phase' = phase /\ awaited' = awaited
      /\ clean' = clean /\ shutdown' = shutdown /\ engine' = "ended"
      /\ engine = "running"
  BY DEF LoopEnds, EngineOnly, callVars, B!HasWork, B!InSystem, Apart
<1>2. OwnRequestsKept'
  BY <1>1 DEF OfflineInv, OwnRequestsKept
<1> QED
  BY <1>1, <1>2 DEF OfflineInv, Typed, IdleIsOver, EndedIsIdle, PendingInSystem, CleanPending

LEMMA EndCallInv ==
  ASSUME OfflineInv, Return \/ Raise \/ Interrupt
  PROVE  OfflineInv'
<1>1. /\ B!InSystem' = B!InSystem /\ Apart' = Apart
      /\ own' = {} /\ phase' = "idle" /\ engine' = "none" /\ awaited' = awaited
      /\ shutdown' = (engine = "failed")
  BY DEF Return, Raise, Interrupt, EndCall, B!InSystem, Apart
<1>2. clean' => clean /\ Return /\ engine # "failed"
  BY DEF Return, Raise, Interrupt, EndCall
<1>3. Typed'
  <2>1. future' \in [Prompts -> {"none", "pending", "result", "failed", "cancelled"}]
    BY DEF Return, Raise, Interrupt, OfflineInv, Typed
  <2> QED
    BY <1>1, <2>1 DEF OfflineInv, Typed
<1>4. CleanPending'
  BY <1>1, <1>2 DEF OfflineInv, CleanPending, Return, Typed
<1>5. PendingInSystem'
  BY <1>1 DEF OfflineInv, PendingInSystem, Return, Raise, Interrupt
<1> QED
  BY <1>1, <1>3, <1>4, <1>5 DEF OfflineInv, IdleIsOver, EndedIsIdle, OwnRequestsKept

LEMMA NextInv == ASSUME OfflineInv, [Next]_vars PROVE OfflineInv'
<1>1. CASE \E S \in Calls : Generate(S) \/ RaiseHalfway(S)
  BY <1>1, GenerateInv, RaiseHalfwayInv
<1>2. CASE \E F \in SUBSET Prompts : Step(F) \/ StepRaises(F) \/ DecodeRaises(F)
  <2>1. PICK F \in SUBSET Prompts : Step(F) \/ StepRaises(F) \/ DecodeRaises(F)
    BY <1>2
  <2>2. PICK how \in {"result", "failed"} : Resolve(F, how)
    BY <2>1 DEF Step, StepRaises, DecodeRaises
  <2>3. B!Iterate(F) /\ EngineOnly /\ engine = "running" /\ engine' \in {"running", "failed"}
    BY <2>1 DEF Step, StepRaises, DecodeRaises
  <2> QED
    BY <2>2, <2>3, IterateInv
<1>3. CASE \E F \in SUBSET Prompts : \E r \in Prompts :
             CompletePoisoned(F, r) \/ AbortPoisoned(F, r)
  BY <1>3, PoisonedInv
<1>4. CASE LoopEnds
  BY <1>4, LoopEndsInv
<1>5. CASE Return \/ Raise \/ Interrupt
  BY <1>5, EndCallInv
<1>6. CASE UNCHANGED vars
  BY <1>6 DEF vars, callVars, OfflineInv, Typed, Apart, IdleIsOver, EndedIsIdle,
              OwnRequestsKept, PendingInSystem, CleanPending, B!InSystem
<1> QED
  BY <1>1, <1>2, <1>3, <1>4, <1>5, <1>6 DEF Next

THEOREM OfflineInvariant == Spec => []OfflineInv
BY InitInv, NextInv, PTL DEF Spec

(***************************************************************************)
(* Whatever earlier calls have left behind, the requests a running call    *)
(* waits for are in the scheduler until they are answered.                 *)
(***************************************************************************)
THEOREM CallsKeepTheirRequests == Spec => []OwnRequestsKept
BY OfflineInvariant, PTL DEF OfflineInv

(***************************************************************************)
(* A call that met an empty scheduler, and has not failed, works for       *)
(* nobody else and leaves nothing in the scheduler, no future of a closed  *)
(* event loop and no flag set.                                             *)
(***************************************************************************)
THEOREM ReturningCallsLeaveNothing == Spec => []OnlyFailuresLeaveWork
<1>1. OfflineInv => OnlyFailuresLeaveWork
  BY CleanIsNotPoisoned DEF OfflineInv, Typed, CleanPending, OnlyFailuresLeaveWork
<1> QED
  BY <1>1, OfflineInvariant, PTL

-----------------------------------------------------------------------------
(***************************************************************************)
(* The gauge queue_depth.                                                  *)
(***************************************************************************)
DepthInv == CleanDepth /\ CallHasPrompts

LEMMA EngineDepth ==
  ASSUME OfflineInv, DepthInv, NEW F \in SUBSET Prompts,
         \/ Step(F) \/ StepRaises(F) \/ DecodeRaises(F)
         \/ \E r \in Prompts : CompletePoisoned(F, r) \/ AbortPoisoned(F, r)
  PROVE  DepthInv'
<1>1. UNCHANGED <<own, phase, clean>>
  BY DEF Step, StepRaises, DecodeRaises, CompletePoisoned, AbortPoisoned, EngineOnly, callVars
<1>2. CASE Step(F)
  BY <1>1, <1>2 DEF Step, DepthInv, CleanDepth, CallHasPrompts
<1>3. CASE StepRaises(F)
  <2> SUFFICES ASSUME clean PROVE \E r \in own : future'[r] = "failed"
    BY <1>1 DEF DepthInv, CleanDepth, CallHasPrompts
  <2>1. PICK r \in F : r \in B!InSystem
    BY <1>3, IterateRemoves DEF StepRaises, OfflineInv
  <2>2. r \in Prompts /\ future[r] = "pending" /\ r \in own
    BY <2>1 DEF OfflineInv, Typed, CleanPending
  <2> QED
    BY <1>3, <2>1, <2>2 DEF StepRaises, Resolve
<1>4. CASE engine' = "failed"
  BY <1>1, <1>4 DEF DepthInv, CleanDepth, CallHasPrompts
<1> QED
  BY <1>2, <1>3, <1>4 DEF DecodeRaises, CompletePoisoned, AbortPoisoned

LEMMA NextDepth == ASSUME OfflineInv, DepthInv, [Next]_vars PROVE DepthInv'
<1>1. CASE \E S \in Calls : Generate(S)
  BY <1>1 DEF Generate, Calls, Free, DepthInv, CleanDepth, CallHasPrompts
<1>2. CASE \E S \in Calls : RaiseHalfway(S)
  <2> SUFFICES ASSUME clean' PROVE clean /\ queued' = queued /\ UNCHANGED <<own, phase, engine, depth>> /\ own = {}
    BY <1>2 DEF RaiseHalfway, DepthInv, CleanDepth, CallHasPrompts
  <2> QED
    BY <1>2 DEF RaiseHalfway, OfflineInv, IdleIsOver
<1>3. CASE \E F \in SUBSET Prompts :
             \/ Step(F) \/ StepRaises(F) \/ DecodeRaises(F)
             \/ \E r \in Prompts : CompletePoisoned(F, r) \/ AbortPoisoned(F, r)
  BY <1>3, EngineDepth
<1>4. CASE LoopEnds
  BY <1>4 DEF LoopEnds, EngineOnly, callVars, DepthInv, CleanDepth, CallHasPrompts
<1>5. CASE Return \/ Raise \/ Interrupt
  <2>1. /\ phase = "calling" /\ phase' = "idle"
        /\ queued' = queued /\ depth' = depth
        /\ clean' => clean /\ Return /\ engine # "failed"
    BY <1>5 DEF Return, Raise, Interrupt, EndCall
  <2> QED
    BY <2>1 DEF Return, DepthInv, CleanDepth, CallHasPrompts
<1>6. CASE UNCHANGED vars
  BY <1>6 DEF vars, callVars, DepthInv, CleanDepth, CallHasPrompts
<1> QED
  BY <1>1, <1>2, <1>3, <1>4, <1>5, <1>6 DEF Next

LEMMA DepthInvariant == Spec => []DepthInv
<1>1. Init => DepthInv
  <2> SUFFICES ASSUME Init PROVE DepthInv
    OBVIOUS
  <2>1. depth = 0 /\ queued = {} /\ phase = "idle"
    BY DEF Init, B!Init
  <2> QED
    BY <2>1, FS_EmptySet DEF DepthInv, CleanDepth, CallHasPrompts
<1> QED
  BY <1>1, NextDepth, OfflineInvariant, PTL DEF Spec

(***************************************************************************)
(* For any calls and limits: after a call that met an empty scheduler and  *)
(* has not failed, the gauge is at zero, although only iterations that     *)
(* succeed set it, and whatever value it had when the call began.          *)
(***************************************************************************)
THEOREM DepthComesToRest == Spec => []IdleDepthIsZero
<1>1. OfflineInv /\ DepthInv => IdleDepthIsZero
  <2> SUFFICES ASSUME OfflineInv, DepthInv, phase = "idle", clean
               PROVE  depth = 0
    BY DEF IdleDepthIsZero
  <2>1. own = {} /\ engine = "none"
    BY DEF OfflineInv, IdleIsOver
  <2>2. queued = {}
    BY <2>1 DEF OfflineInv, CleanPending, Typed, B!InSystem
  <2>3. depth = Cardinality(queued)
    BY <2>1 DEF DepthInv, CleanDepth
  <2> QED
    BY <2>2, <2>3, FS_EmptySet
<1> QED
  BY <1>1, OfflineInvariant, DepthInvariant, PTL

-----------------------------------------------------------------------------
(***************************************************************************)
(* Types and limits.                                                       *)
(***************************************************************************)
Limits ==
  /\ Cardinality(queued) <= MaxWaiting /\ Cardinality(pool) <= 2 * MaxBatch
  /\ phase \in {"idle", "calling"}
  /\ engine \in {"none", "running", "failed", "ended"}
  /\ shutdown \in BOOLEAN /\ clean \in BOOLEAN
  /\ depth \in Nat

LEMMA Finite ==
  ASSUME Typed
  PROVE  /\ IsFiniteSet(queued) /\ IsFiniteSet(pool)
         /\ Cardinality(queued) \in Nat /\ Cardinality(pool) \in Nat
<1>1. queued \subseteq Prompts /\ pool \subseteq Prompts
  BY DEF Typed, B!InSystem
<1> QED
  BY <1>1, LimitAssumption, FS_Subset, FS_CardinalityType

(* The smaller of two numbers.                                             *)
LEMMA MinOfTwo ==
  ASSUME NEW a \in Int, NEW b \in Int
  PROVE  B!Min({a, b}) = IF a <= b THEN a ELSE b
<1> DEFINE m == IF a <= b THEN a ELSE b
<1>1. m \in {a, b} /\ \A y \in {a, b} : m <= y
  OBVIOUS
<1>2. \A x \in {a, b} : (\A y \in {a, b} : x <= y) => x = m
  OBVIOUS
<1> HIDE DEF m
<1>3. B!Min({a, b}) = m
  BY <1>1, <1>2 DEF B!Min
<1> QED
  BY <1>3 DEF m

(* An iteration fills the pool to its limit and no further.                *)
LEMMA IterateLimits ==
  ASSUME Typed, Limits, NEW F, B!Iterate(F)
  PROVE  /\ Cardinality(queued') <= MaxWaiting /\ Cardinality(pool') <= 2 * MaxBatch
         /\ Cardinality(queued') \in Nat
<1> DEFINE n == Cardinality(queued)
           k == Cardinality(pool)
<1>1. PICK P \in B!Promotable : queued' = queued \ P /\ pool' = (pool \cup P) \ F
  BY DEF B!Iterate
<1>2. n \in Nat /\ k \in Nat /\ IsFiniteSet(queued) /\ IsFiniteSet(pool)
  BY Finite
<1>3. P \subseteq queued /\ Cardinality(P) = B!Min({n, 2 * MaxBatch - k})
  <2>1. \A S : B!Cardinality(S) = Cardinality(S)
    BY DEF B!Cardinality, Cardinality
  <2> QED
    BY <1>1, <2>1 DEF B!Promotable, B!kSubset
<1>4. Cardinality(P) <= 2 * MaxBatch - k
  BY <1>2, <1>3, MinOfTwo, LimitAssumption
<1>5. IsFiniteSet(P) /\ Cardinality(P) \in Nat
  BY <1>2, <1>3, FS_Subset, FS_CardinalityType
<1>6. /\ IsFiniteSet(pool \cup P)
      /\ Cardinality(pool \cup P) = k + Cardinality(P) - Cardinality(pool \cap P)
  BY <1>2, <1>5, FS_Union
<1>7. Cardinality(pool \cap P) \in Nat
  BY <1>2, FS_Subset, FS_CardinalityType
<1>8. Cardinality(pool') \in Nat /\ Cardinality(pool') <= Cardinality(pool \cup P)
  <2>1. pool' \subseteq pool \cup P
    BY <1>1
  <2> QED
    BY <2>1, <1>6, FS_Subset, FS_CardinalityType
<1>9. Cardinality(queued') \in Nat /\ Cardinality(queued') <= n
  <2>1. queued' \subseteq queued
    BY <1>1
  <2> QED
    BY <2>1, <1>2, FS_Subset, FS_CardinalityType
<1> QED
  BY <1>2, <1>4, <1>5, <1>6, <1>7, <1>8, <1>9, LimitAssumption DEF Limits

(* A call admits no more than fit.                                         *)
LEMMA AdmissionLimits ==
  ASSUME Typed, Limits, NEW A \in SUBSET Prompts, Cardinality(A) <= WaitingRoom
  PROVE  Cardinality(queued \cup A) <= MaxWaiting
<1>1. /\ IsFiniteSet(queued) /\ IsFiniteSet(A)
      /\ Cardinality(queued) \in Nat /\ Cardinality(A) \in Nat
  BY Finite, LimitAssumption, FS_Subset, FS_CardinalityType
<1>2. Cardinality(queued \cup A)
        = Cardinality(queued) + Cardinality(A) - Cardinality(queued \cap A)
  BY <1>1, FS_Union
<1>3. Cardinality(queued \cap A) \in Nat
  BY <1>1, FS_Subset, FS_CardinalityType
<1> QED
  BY <1>1, <1>2, <1>3, LimitAssumption DEF WaitingRoom

LEMMA NextLimits == ASSUME Typed, Limits, [Next]_vars PROVE Limits'
<1>1. CASE \E S \in Calls : Generate(S)
  BY <1>1, AdmissionLimits DEF Generate, Calls, Free, Limits
<1>2. CASE \E S \in Calls : RaiseHalfway(S)
  <2>1. PICK S \in Calls : RaiseHalfway(S)
    BY <1>2
  <2>2. PICK A \in SUBSET Prompts : queued' = queued \cup A /\ Cardinality(A) <= WaitingRoom
                                   /\ clean' \in BOOLEAN
    BY <2>1 DEF RaiseHalfway, Calls, Free
  <2> QED
    BY <2>1, <2>2, AdmissionLimits DEF RaiseHalfway, Limits
<1>3. CASE \E F \in SUBSET Prompts :
             \/ Step(F) \/ StepRaises(F) \/ DecodeRaises(F)
             \/ \E r \in Prompts : CompletePoisoned(F, r) \/ AbortPoisoned(F, r)
  <2>1. PICK F : B!Iterate(F)
    BY <1>3 DEF Step, StepRaises, DecodeRaises, CompletePoisoned, AbortPoisoned
  <2>2. /\ phase' = phase /\ shutdown' = shutdown /\ clean' = clean
        /\ engine' \in {"running", "failed"} \cup {engine}
        /\ depth' \in {depth, Cardinality(queued')}
    BY <1>3 DEF Step, StepRaises, DecodeRaises, CompletePoisoned, AbortPoisoned,
                EngineOnly, callVars
  <2> QED
    BY <2>1, <2>2, IterateLimits DEF Limits
<1>4. CASE LoopEnds \/ UNCHANGED vars
  BY <1>4 DEF LoopEnds, EngineOnly, callVars, vars, Limits
<1>5. CASE Return \/ Raise \/ Interrupt
  BY <1>5 DEF Return, Raise, Interrupt, EndCall, Limits
<1> QED
  BY <1>1, <1>2, <1>3, <1>4, <1>5 DEF Next

(* Every variable keeps its type; neither the queue nor the pool outgrows  *)
(* its limit, whatever earlier calls have left there.                      *)
THEOREM OfflineTypes == Spec => []TypeOK
<1>1. Init => Limits
  <2> SUFFICES ASSUME Init PROVE Limits
    OBVIOUS
  <2>1. queued = {} /\ pool = {}
    BY DEF Init, B!Init
  <2>2. Cardinality(queued) = 0 /\ Cardinality(pool) = 0
    BY <2>1, FS_EmptySet
  <2> QED
    <3>1. Cardinality(queued) <= MaxWaiting /\ Cardinality(pool) <= 2 * MaxBatch
      BY <2>2, LimitAssumption
    <3>2. /\ phase = "idle" /\ engine = "none" /\ shutdown = FALSE /\ clean = TRUE
          /\ depth \in Nat
      BY DEF Init
    <3> QED
      BY <3>1, <3>2 DEF Limits
<1>2. Spec => []Limits
  <2>1. OfflineInv /\ Limits /\ [Next]_vars => Limits'
    BY NextLimits DEF OfflineInv
  <2> QED
    BY <1>1, <2>1, OfflineInvariant, PTL DEF Spec
<1>3. OfflineInv /\ Limits => TypeOK
  BY DEF OfflineInv, Typed, Limits, TypeOK, B!InSystem
<1> QED
  BY <1>2, <1>3, OfflineInvariant, PTL
=============================================================================
