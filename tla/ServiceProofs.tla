---------------------------- MODULE ServiceProofs ----------------------------
(***************************************************************************)
(* For any number of clients, any limits and any faults: whoever waits is  *)
(* in the scheduler or has its answer, and the scheduler works only for    *)
(* those who wait.                                                         *)
(*                                                                         *)
(* The two invariants support each other, and need three facts about the   *)
(* rest of the state: no request is both queued and in the pool, the two   *)
(* shutdown flags agree, and a loop that has ended was told to and had     *)
(* nothing left to do.  No further admission can then find it ended.       *)
(***************************************************************************)
EXTENDS Service, FiniteSetTheorems, TLAPS

Typed ==
  /\ B!InSystem \subseteq Clients
  /\ future \in [Clients -> {"none", "pending", "result", "failed", "cancelled"}]
  /\ handler \in [Clients -> {"idle", "waiting"} \cup Alone \cup Answers]

Apart == queued \cap pool = {}

FlagsAgree == engineShutdown => shuttingDown

EndedIsIdle == engine = "ended" => shuttingDown /\ B!InSystem = {}

ServiceInv ==
  /\ Typed
  /\ Apart
  /\ FlagsAgree
  /\ EndedIsIdle
  /\ NobodyForgotten
  /\ WorkIsAwaited

-----------------------------------------------------------------------------
(* An iteration of the engine loop takes away just the requests that leave. *)
LEMMA IterateRemoves ==
  ASSUME NEW F, Apart, B!Iterate(F)
  PROVE  /\ F \subseteq B!InSystem
         /\ B!InSystem' = B!InSystem \ F
         /\ Apart'
<1>1. PICK P \in B!Promotable : /\ F \subseteq pool \cup P
                                /\ queued' = queued \ P
                                /\ pool' = (pool \cup P) \ F
  BY DEF B!Iterate
<1>2. P \subseteq queued
  BY <1>1 DEF B!Promotable, B!kSubset
<1> QED
  BY <1>1, <1>2 DEF Apart, B!InSystem

(* Requests that leave with an answer leave nothing inconsistent behind.   *)
LEMMA LeavingKeepsInv ==
  ASSUME ServiceInv, NEW F, NEW how \in {"result", "failed"},
         B!Iterate(F), Resolve(F, how), EngineOnly,
         engine = "running", engine' \in {"running", "failed"}
  PROVE  ServiceInv'
<1>1. /\ F \subseteq B!InSystem
      /\ B!InSystem' = B!InSystem \ F
      /\ Apart'
  BY IterateRemoves DEF ServiceInv
<1>2. /\ handler' = handler /\ shuttingDown' = shuttingDown
      /\ engineShutdown' = engineShutdown /\ phase' = phase
  BY DEF EngineOnly, stopVars
<1>3. Typed'
  BY <1>1, <1>2 DEF ServiceInv, Typed, Resolve
<1>4. NobodyForgotten'
  <2> SUFFICES ASSUME NEW c \in Clients, handler[c] = "waiting"
               PROVE  \/ future'[c] \in {"result", "failed"}
                      \/ future'[c] = "pending" /\ c \in B!InSystem' /\ engine' # "ended"
    BY <1>2 DEF NobodyForgotten
  <2>1. CASE c \in F
    BY <2>1 DEF ServiceInv, NobodyForgotten, Resolve
  <2>2. CASE c \notin F
    BY <2>2, <1>1 DEF ServiceInv, NobodyForgotten, Resolve
  <2> QED
    BY <2>1, <2>2
<1>5. WorkIsAwaited'
  <2> SUFFICES ASSUME NEW c \in B!InSystem \ F
               PROVE  \/ handler[c] = "waiting" /\ future'[c] = "pending"
                      \/ /\ handler[c] = "503" /\ future'[c] = "cancelled"
                         /\ phase \in {"lifespan", "leaving", "exited"}
    BY <1>1, <1>2 DEF WorkIsAwaited
  <2>1. /\ \/ handler[c] = "waiting" /\ future[c] = "pending"
           \/ handler[c] = "503" /\ future[c] = "cancelled" /\ phase \in {"lifespan", "leaving", "exited"}
    BY DEF ServiceInv, WorkIsAwaited
  <2>2. c \in Clients
    BY DEF ServiceInv, Typed
  <2> QED
    BY <2>1, <2>2 DEF Resolve
<1> QED
  BY <1>1, <1>2, <1>3, <1>4, <1>5 DEF ServiceInv, FlagsAgree, EndedIsIdle

-----------------------------------------------------------------------------
(* Whatever leaves the scheduler and the futures alone, and no waiting     *)
(* handler and no flag behind.                                             *)
LEMMA HandlerKeepsInv ==
  ASSUME ServiceInv, NEW c \in Clients, c \notin B!InSystem,
         NEW a \in Alone \cup Answers,
         handler' = [handler EXCEPT ![c] = a],
         UNCHANGED <<requestVars, engine, stopVars>>
  PROVE  ServiceInv'
<1>1. /\ B!InSystem' = B!InSystem /\ Apart' = Apart
      /\ future' = future /\ engine' = engine /\ phase' = phase
      /\ shuttingDown' = shuttingDown /\ engineShutdown' = engineShutdown
  BY DEF requestVars, stopVars, B!InSystem, Apart
<1>2. \A d \in Clients : handler'[d] = IF d = c THEN a ELSE handler[d]
  BY DEF ServiceInv, Typed
<1>3. Typed'
  BY <1>1 DEF ServiceInv, Typed
<1>4. NobodyForgotten'
  BY <1>1, <1>2 DEF ServiceInv, NobodyForgotten, Alone, Answers
<1>5. WorkIsAwaited'
  BY <1>1, <1>2 DEF ServiceInv, WorkIsAwaited, Typed
<1> QED
  BY <1>1, <1>3, <1>4, <1>5 DEF ServiceInv, FlagsAgree, EndedIsIdle

(* A client that is not waiting for the engine has nothing in the system   *)
(* while requests are taken.                                               *)
LEMMA NotWaitingNotInSystem ==
  ASSUME ServiceInv, NEW c \in Clients, handler[c] \notin {"waiting", "503"}
  PROVE  c \notin B!InSystem
BY DEF ServiceInv, WorkIsAwaited

LEMMA InitInv == Init => ServiceInv
BY DEF Init, ServiceInv, Typed, Apart, FlagsAgree, EndedIsIdle, NobodyForgotten,
       WorkIsAwaited, B!Init, B!InSystem

LEMMA AcceptInv ==
  ASSUME ServiceInv, NEW c \in Clients, Accept(c)
  PROVE  ServiceInv'
<1>1. /\ c \notin B!InSystem
      /\ B!InSystem' = B!InSystem \cup {c}
      /\ Apart'
  BY DEF Accept, B!Admit, ServiceInv, Apart, B!InSystem
<1>2. /\ engine' = engine /\ phase' = phase /\ ~shuttingDown
      /\ shuttingDown' = shuttingDown /\ engineShutdown' = engineShutdown
      /\ handler' = [handler EXCEPT ![c] = "waiting"]
      /\ future' = [future EXCEPT ![c] = "pending"]
  BY DEF Accept, Admissible, stopVars
<1>3. Typed'
  <2>1. future' \in [Clients -> {"none", "pending", "result", "failed", "cancelled"}]
    BY <1>2 DEF ServiceInv, Typed
  <2>2. handler' \in [Clients -> {"idle", "waiting"} \cup Alone \cup Answers]
    BY <1>2 DEF ServiceInv, Typed
  <2> QED
    BY <1>1, <2>1, <2>2 DEF ServiceInv, Typed
<1>4. \A d \in Clients :
        /\ handler'[d] = IF d = c THEN "waiting" ELSE handler[d]
        /\ future'[d] = IF d = c THEN "pending" ELSE future[d]
  BY <1>2 DEF ServiceInv, Typed
<1>5. NobodyForgotten'
  BY <1>1, <1>2, <1>4 DEF ServiceInv, NobodyForgotten, EndedIsIdle
<1>6. WorkIsAwaited'
  BY <1>1, <1>2, <1>4 DEF ServiceInv, WorkIsAwaited, Typed
<1> QED
  BY <1>1, <1>2, <1>3, <1>5, <1>6 DEF ServiceInv, FlagsAgree, EndedIsIdle

LEMMA ResumeInv ==
  ASSUME ServiceInv, NEW c \in Clients, Resume(c)
  PROVE  ServiceInv'
<1>1. c \notin B!InSystem
  BY DEF Resume, ServiceInv, WorkIsAwaited
<1>2. PICK a \in {"200", "429"} : Handle(c, a)
  BY DEF Resume
<1> QED
  BY <1>1, <1>2, HandlerKeepsInv DEF Handle, Answers

LEMMA ClientInv ==
  ASSUME ServiceInv, NEW c \in Clients,
         \/ TurnAway(c) \/ NotRendered(c) \/ NotEncoded(c) \/ Invalid(c) \/ Full(c)
         \/ AcceptSingle(c) \/ ThreadEnds(c)
  PROVE  ServiceInv'
<1>1. CASE UNCHANGED <<requestVars, handler, engine, stopVars>>
  BY <1>1 DEF ServiceInv, Typed, Apart, FlagsAgree, EndedIsIdle, NobodyForgotten,
              WorkIsAwaited, B!InSystem, requestVars, stopVars
<1>2. CASE ~UNCHANGED <<requestVars, handler, engine, stopVars>>
  <2>1. handler[c] \in {"idle"} \cup Alone
    BY <1>2 DEF TurnAway, NotRendered, NotEncoded, Invalid, Full, AcceptSingle, ThreadEnds,
                Admissible, Open, Alone
  <2>2. c \notin B!InSystem
    BY <2>1, NotWaitingNotInSystem DEF Alone
  <2>3. \E a \in Alone \cup Answers : Handle(c, a)
    BY <1>2 DEF TurnAway, NotRendered, NotEncoded, Invalid, Full, AcceptSingle, ThreadEnds,
                Alone, Answers
  <2> QED
    BY <2>2, <2>3, HandlerKeepsInv DEF Handle
<1> QED
  BY <1>1, <1>2

-----------------------------------------------------------------------------
LEMMA StopServingInv == ASSUME ServiceInv, StopServing PROVE ServiceInv'
<1>1. /\ B!InSystem' = B!InSystem /\ Apart' = Apart /\ engine' = engine
      /\ shuttingDown' = TRUE /\ phase' = "lifespan" /\ phase = "stopping"
  BY DEF StopServing, BeginShutdown, B!InSystem, Apart
<1>2. \A c \in Clients :
        /\ handler'[c] = IF handler[c] = "waiting" THEN "503"
                         ELSE IF handler[c] \in Alone THEN "dropped" ELSE handler[c]
        /\ future'[c] = IF handler[c] = "waiting" /\ future[c] = "pending"
                        THEN "cancelled" ELSE future[c]
  BY DEF StopServing
<1>3. Typed'
  BY <1>1, <1>2 DEF StopServing, ServiceInv, Typed, Alone, Answers
<1>4. NobodyForgotten'
  BY <1>2 DEF NobodyForgotten
<1>5. WorkIsAwaited'
  BY <1>1, <1>2 DEF ServiceInv, WorkIsAwaited, Typed
<1> QED
  BY <1>1, <1>3, <1>4, <1>5 DEF ServiceInv, FlagsAgree, EndedIsIdle

(* Steps of the engine's task and of the process that touch no request.    *)
Quiet ==
  Start \/ StartFails \/ LoopEnds \/ Sigterm \/ Sigint \/ Halt \/ Exit \/ UNCHANGED vars

LEMMA QuietInv ==
  ASSUME ServiceInv, UNCHANGED <<requestVars, handler>>,
         Quiet
  PROVE  ServiceInv'
<1>1. /\ B!InSystem' = B!InSystem /\ Apart' = Apart
      /\ future' = future /\ handler' = handler
  BY DEF requestVars, B!InSystem, Apart
<1>2. Typed'
  BY <1>1 DEF ServiceInv, Typed
<1>3. shuttingDown => shuttingDown'
  BY DEF Quiet, StartUp, Start, StartFails, LoopEnds, Sigterm, Sigint, Exit, Halt, BeginShutdown, EngineOnly, stopVars, vars
<1>4. FlagsAgree'
  BY DEF ServiceInv, FlagsAgree, Quiet, StartUp, Start, StartFails, LoopEnds,
         Sigterm, Sigint, Exit, Halt, BeginShutdown,
         EngineOnly, stopVars, vars
<1>5. engine' = "ended" => engine = "ended" \/ LoopEnds
  BY DEF Quiet, StartUp, Start, StartFails, Sigterm, Sigint, Exit, Halt, vars
<1>6. EndedIsIdle'
  BY <1>1, <1>3, <1>5 DEF ServiceInv, EndedIsIdle, FlagsAgree, LoopEnds, B!HasWork
<1>7. NobodyForgotten'
  BY <1>1, <1>6 DEF ServiceInv, NobodyForgotten, EndedIsIdle
<1>8. phase \in {"lifespan", "leaving", "exited"} => phase' \in {"lifespan", "leaving", "exited"}
  BY DEF Quiet, StartUp, Start, StartFails, LoopEnds, Sigterm, Sigint, Exit, Halt, EngineOnly, stopVars, vars
<1>9. WorkIsAwaited'
  BY <1>1, <1>8 DEF ServiceInv, WorkIsAwaited
<1> QED
  BY <1>1, <1>2, <1>4, <1>6, <1>7, <1>9 DEF ServiceInv

LEMMA NextInv == ASSUME ServiceInv, [Next]_vars PROVE ServiceInv'
<1>1. CASE \E c \in Clients : Accept(c)
  BY <1>1, AcceptInv
<1>2. CASE \E c \in Clients : Resume(c)
  BY <1>2, ResumeInv
<1>3. CASE \E c \in Clients :
             \/ TurnAway(c) \/ NotRendered(c) \/ NotEncoded(c) \/ Invalid(c) \/ Full(c)
             \/ AcceptSingle(c) \/ ThreadEnds(c)
  BY <1>3, ClientInv
<1>4. CASE \E F \in SUBSET Clients : Step(F) \/ StepRaises(F) \/ DecodeRaises(F)
  <2>1. PICK F \in SUBSET Clients : Step(F) \/ StepRaises(F) \/ DecodeRaises(F)
    BY <1>4
  <2>2. PICK how \in {"result", "failed"} : Resolve(F, how)
    BY <2>1 DEF Step, StepRaises, DecodeRaises
  <2>3. B!Iterate(F) /\ EngineOnly /\ engine = "running" /\ engine' \in {"running", "failed"}
    BY <2>1 DEF Step, StepRaises, DecodeRaises
  <2> QED
    BY <2>2, <2>3, LeavingKeepsInv
<1>5. CASE StopServing
  BY <1>5, StopServingInv
<1>6. CASE Quiet
  <2>1. UNCHANGED <<requestVars, handler>>
    BY <1>6 DEF Quiet, StartUp, Start, StartFails, LoopEnds, Sigterm, Sigint, Exit, Halt, EngineOnly, vars, requestVars
  <2> QED
    BY <1>6, <2>1, QuietInv
<1> QED
  BY <1>1, <1>2, <1>3, <1>4, <1>5, <1>6 DEF Next, Quiet

THEOREM ServiceInvariant == Spec => []ServiceInv
BY InitInv, NextInv, PTL DEF Spec

(***************************************************************************)
(* Whatever clients, faults and signals do, a client that waits has its    *)
(* answer or is in the scheduler of a loop that has not returned: the      *)
(* check of _shutting_down and the admission have no await between them.   *)
(***************************************************************************)
THEOREM NoWaitIsForgotten == Spec => []NobodyForgotten
BY ServiceInvariant, PTL DEF ServiceInv

(***************************************************************************)
(* The scheduler holds only requests whose client still waits, apart from  *)
(* those a shutdown has cut off.                                           *)
(***************************************************************************)
THEOREM NoWorkForNobody == Spec => []WorkIsAwaited
BY ServiceInvariant, PTL DEF ServiceInv

-----------------------------------------------------------------------------
(***************************************************************************)
(* The gauge.  It is compared with the number of clients it stands for at  *)
(* every step that moves one of them.                                      *)
(***************************************************************************)
Gauged == Typed /\ GaugeCountsServed

IsCounted(h) == h \in {"waiting", "500", "dropped"} \cup Alone

LEMMA CountedFinite == IsFiniteSet(Counted)
BY ClientsAssumption, FS_Subset DEF Counted

(* Nobody starts or stops being counted.                                   *)
LEMMA GaugeStays ==
  ASSUME GaugeCountsServed, inFlight' = inFlight,
         \A d \in Clients : IsCounted(handler'[d]) <=> IsCounted(handler[d])
  PROVE  GaugeCountsServed'
<1>1. Counted' = Counted
  BY DEF Counted, IsCounted
<1> QED
  BY <1>1 DEF GaugeCountsServed

(* One client starts, or stops, being counted.                             *)
LEMMA GaugeMoves ==
  ASSUME Gauged, NEW c \in Clients, NEW a, handler' = [handler EXCEPT ![c] = a]
  PROVE  /\ (~IsCounted(handler[c]) /\ IsCounted(a) /\ inFlight' = inFlight + 1)
              => GaugeCountsServed'
         /\ (IsCounted(handler[c]) /\ ~IsCounted(a) /\ inFlight' = inFlight - 1)
              => GaugeCountsServed'
         /\ ((IsCounted(handler[c]) <=> IsCounted(a)) /\ inFlight' = inFlight)
              => GaugeCountsServed'
<1>1. \A d \in Clients : handler'[d] = IF d = c THEN a ELSE handler[d]
  BY DEF Gauged, Typed
<1>2. /\ Cardinality(Counted) \in Nat
      /\ inFlight = Cardinality(Counted)
  BY CountedFinite, FS_CardinalityType DEF Gauged, GaugeCountsServed
<1>3. ASSUME ~IsCounted(handler[c]), IsCounted(a), inFlight' = inFlight + 1
      PROVE  GaugeCountsServed'
  <2>1. Counted' = Counted \cup {c} /\ c \notin Counted
    BY <1>1, <1>3 DEF Counted, IsCounted
  <2>2. Cardinality(Counted \cup {c}) = Cardinality(Counted) + 1
    BY <2>1, CountedFinite, FS_AddElement
  <2> QED
    BY <1>2, <1>3, <2>1, <2>2 DEF GaugeCountsServed
<1>4. ASSUME IsCounted(handler[c]), ~IsCounted(a), inFlight' = inFlight - 1
      PROVE  GaugeCountsServed'
  <2>1. Counted' = Counted \ {c} /\ c \in Counted
    BY <1>1, <1>4 DEF Counted, IsCounted
  <2>2. Cardinality(Counted \ {c}) = Cardinality(Counted) - 1
    BY <2>1, CountedFinite, FS_RemoveElement
  <2> QED
    BY <1>2, <1>4, <2>1, <2>2 DEF GaugeCountsServed
<1>5. ASSUME IsCounted(handler[c]) <=> IsCounted(a), inFlight' = inFlight
      PROVE  GaugeCountsServed'
  BY <1>1, <1>5, GaugeStays DEF Gauged
<1> QED
  BY <1>3, <1>4, <1>5

(* The timeout: those who waited for the engine are counted out together.  *)
LEMMA StopServingGauge == ASSUME Gauged, StopServing PROVE GaugeCountsServed'
<1> DEFINE W == {c \in Clients : handler[c] = "waiting"}
<1>1. \A c \in Clients :
        handler'[c] = IF handler[c] = "waiting" THEN "503"
                      ELSE IF handler[c] \in Alone THEN "dropped" ELSE handler[c]
  BY DEF StopServing
<1>2. Counted' = Counted \ W /\ W \subseteq Counted
  BY <1>1 DEF Counted, Alone
<1>3. /\ IsFiniteSet(W)
      /\ Cardinality(Counted) \in Nat /\ Cardinality(W) \in Nat
  BY ClientsAssumption, CountedFinite, FS_Subset, FS_CardinalityType
<1>4. Cardinality(Counted \ W) = Cardinality(Counted) - Cardinality(Counted \cap W)
  BY CountedFinite, FS_Difference
<1>5. Counted \cap W = W
  BY <1>2
<1>6. inFlight' = inFlight - Cardinality(W)
  BY DEF StopServing
<1> QED
  BY <1>2, <1>4, <1>5, <1>6 DEF Gauged, GaugeCountsServed

LEMMA ClientGauge ==
  ASSUME Gauged, NEW c \in Clients,
         \/ TurnAway(c) \/ NotRendered(c) \/ NotEncoded(c) \/ Invalid(c) \/ Full(c)
         \/ Accept(c) \/ AcceptSingle(c) \/ Resume(c) \/ ThreadEnds(c)
  PROVE  GaugeCountsServed'
<1>1. CASE TurnAway(c)
  BY <1>1, GaugeMoves DEF TurnAway, Open, Handle, IsCounted, Alone
<1>2. CASE Invalid(c)
  BY <1>2, GaugeMoves DEF Invalid, Admissible, Open, Handle, IsCounted, Alone
<1>3. CASE Full(c)
  <2>1. /\ handler' = [handler EXCEPT ![c] = "429"] /\ inFlight' = inFlight
        /\ ~IsCounted(handler[c]) /\ ~IsCounted("429")
    BY <1>3 DEF Full, Admissible, Open, Handle, IsCounted, Alone
  <2> QED
    BY <2>1, GaugeMoves
<1>4. CASE Accept(c)
  BY <1>4, GaugeMoves DEF Accept, Admissible, Open, IsCounted, Alone
<1>5. CASE AcceptSingle(c)
  BY <1>5, GaugeMoves DEF AcceptSingle, Admissible, Open, Handle, IsCounted, Alone
<1>6. CASE Resume(c)
  BY <1>6, GaugeMoves DEF Resume, Handle, IsCounted, Alone
<1>7. CASE ThreadEnds(c)
  <2>1. CASE handler[c] = "dropped"
    BY <1>7, <2>1, GaugeStays DEF ThreadEnds, Gauged, Alone
  <2>2. CASE handler[c] # "dropped"
    BY <1>7, <2>2, GaugeMoves DEF ThreadEnds, Handle, IsCounted, Alone
  <2> QED
    BY <2>1, <2>2
<1>8. CASE NotRendered(c)
  <2>1. /\ handler' = [handler EXCEPT ![c] = "500 early"] /\ inFlight' = inFlight
        /\ ~IsCounted(handler[c]) /\ ~IsCounted("500 early")
    BY <1>8 DEF NotRendered, Admissible, Open, Handle, IsCounted, Alone
  <2> QED
    BY <2>1, GaugeMoves
<1>9. CASE NotEncoded(c)
  <2>1. ~IsCounted(handler[c])
    BY <1>9 DEF NotEncoded, Admissible, Open, IsCounted, Alone
  <2>2. ~IsCounted("429") /\ IsCounted("500")
    BY DEF IsCounted, Alone
  <2>3. \/ handler' = [handler EXCEPT ![c] = "429"] /\ inFlight' = inFlight
        \/ handler' = [handler EXCEPT ![c] = "500"] /\ inFlight' = inFlight + 1
    BY <1>9 DEF NotEncoded, Handle
  <2> QED
    BY <2>1, <2>2, <2>3, GaugeMoves
<1> QED
  BY <1>1, <1>2, <1>3, <1>4, <1>5, <1>6, <1>7, <1>8, <1>9

LEMMA NextGauge == ASSUME Gauged, [Next]_vars PROVE GaugeCountsServed'
<1>1. CASE \E c \in Clients :
             \/ TurnAway(c) \/ NotRendered(c) \/ NotEncoded(c) \/ Invalid(c) \/ Full(c)
             \/ Accept(c) \/ AcceptSingle(c) \/ Resume(c) \/ ThreadEnds(c)
  BY <1>1, ClientGauge
<1>2. CASE StopServing
  BY <1>2, StopServingGauge
<1>3. CASE \E F \in SUBSET Clients : Step(F) \/ StepRaises(F) \/ DecodeRaises(F)
  BY <1>3, GaugeStays DEF Step, StepRaises, DecodeRaises, EngineOnly, Gauged
<1>4. CASE Quiet
  BY <1>4, GaugeStays DEF Gauged, Quiet, StartUp, Start, StartFails, LoopEnds, Sigterm,
                          Sigint, Halt, Exit, EngineOnly, vars
<1> QED
  BY <1>1, <1>2, <1>3, <1>4 DEF Next, Quiet

(***************************************************************************)
(* requests_in_flight, for any number of clients: whatever fails, times    *)
(* out or is cancelled, it counts each client being served once, and       *)
(* besides them only those whose handler ended by an uncaught exception.   *)
(***************************************************************************)
THEOREM GaugeIsExact == Spec => []GaugeCountsServed
<1>1. Init => GaugeCountsServed
  <2> SUFFICES ASSUME Init PROVE GaugeCountsServed
    OBVIOUS
  <2>1. Counted = {}
    BY DEF Init, Counted, Alone
  <2> QED
    BY <2>1, FS_EmptySet DEF Init, GaugeCountsServed
<1>2. ServiceInv /\ GaugeCountsServed /\ [Next]_vars => GaugeCountsServed'
  BY NextGauge DEF Gauged, ServiceInv
<1> QED
  BY <1>1, <1>2, ServiceInvariant, PTL DEF Spec

-----------------------------------------------------------------------------
ControlTyped ==
  /\ threads \subseteq Clients
  /\ engine \in {"none", "running", "ended", "failed", "cancelled"}
  /\ shuttingDown \in BOOLEAN /\ engineShutdown \in BOOLEAN
  /\ phase \in {"starting", "up", "stopping", "lifespan", "leaving", "exited"}

LEMMA NextControl == ASSUME ControlTyped, [Next]_vars PROVE ControlTyped'
<1>1. CASE \E c \in Clients :
             \/ TurnAway(c) \/ NotRendered(c) \/ NotEncoded(c) \/ Invalid(c) \/ Full(c)
             \/ Accept(c) \/ AcceptSingle(c) \/ Resume(c) \/ ThreadEnds(c)
  BY <1>1 DEF ControlTyped, TurnAway, NotRendered, NotEncoded, Invalid, Full, Accept,
              AcceptSingle, Resume, ThreadEnds, Handle, stopVars
<1>2. CASE StopServing
  BY <1>2 DEF ControlTyped, StopServing, BeginShutdown
<1>3. CASE \E F \in SUBSET Clients : Step(F) \/ StepRaises(F) \/ DecodeRaises(F)
  BY <1>3 DEF ControlTyped, Step, StepRaises, DecodeRaises, EngineOnly, stopVars
<1>4. CASE Quiet
  BY <1>4 DEF ControlTyped, Quiet, StartUp, Start, StartFails, LoopEnds, Sigterm, Sigint,
              Halt, Exit, BeginShutdown, EngineOnly, stopVars, vars
<1> QED
  BY <1>1, <1>2, <1>3, <1>4 DEF Next, Quiet

(***************************************************************************)
(* The limits of the queue and of the pool.                                *)
(***************************************************************************)
Limits == Cardinality(queued) <= MaxWaiting /\ Cardinality(pool) <= 2 * MaxBatch

LEMMA Finite ==
  ASSUME Typed
  PROVE  /\ IsFiniteSet(queued) /\ IsFiniteSet(pool)
         /\ Cardinality(queued) \in Nat /\ Cardinality(pool) \in Nat
<1>1. queued \subseteq Clients /\ pool \subseteq Clients
  BY DEF Typed, B!InSystem
<1> QED
  BY <1>1, ClientsAssumption, FS_Subset, FS_CardinalityType

(* The smaller of two numbers.                                             *)
LEMMA MinOfTwo ==
  ASSUME NEW a \in Int, NEW b \in Int
  PROVE  B!Min({a, b}) = IF a <= b THEN a ELSE b
<1> DEFINE m == IF a <= b THEN a ELSE b
<1>1. m \in {a, b} /\ \A y \in {a, b} : m <= y
  OBVIOUS
<1>2. \A x \in {a, b} : (\A y \in {a, b} : x <= y) => x = m
  OBVIOUS
<1> HIDE DEF m
<1>3. B!Min({a, b}) = m
  BY <1>1, <1>2 DEF B!Min
<1> QED
  BY <1>3 DEF m

(* An iteration fills the pool to its limit and no further.                *)
LEMMA IterateLimits ==
  ASSUME Typed, Limits, NEW F, B!Iterate(F)
  PROVE  /\ Cardinality(queued') <= MaxWaiting /\ Cardinality(pool') <= 2 * MaxBatch
         /\ Cardinality(queued') \in Nat
<1> DEFINE n == Cardinality(queued)
           k == Cardinality(pool)
<1>1. PICK P \in B!Promotable : queued' = queued \ P /\ pool' = (pool \cup P) \ F
  BY DEF B!Iterate
<1>2. n \in Nat /\ k \in Nat /\ IsFiniteSet(queued) /\ IsFiniteSet(pool)
  BY Finite
<1>3. P \subseteq queued /\ Cardinality(P) = B!Min({n, 2 * MaxBatch - k})
  <2>1. \A S : B!Cardinality(S) = Cardinality(S)
    BY DEF B!Cardinality, Cardinality
  <2> QED
    BY <1>1, <2>1 DEF B!Promotable, B!kSubset
<1>4. Cardinality(P) <= 2 * MaxBatch - k
  BY <1>2, <1>3, MinOfTwo, LimitAssumption
<1>5. IsFiniteSet(P) /\ Cardinality(P) \in Nat
  BY <1>2, <1>3, FS_Subset, FS_CardinalityType
<1>6. /\ IsFiniteSet(pool \cup P)
      /\ Cardinality(pool \cup P) = k + Cardinality(P) - Cardinality(pool \cap P)
  BY <1>2, <1>5, FS_Union
<1>7. Cardinality(pool \cap P) \in Nat
  BY <1>2, FS_Subset, FS_CardinalityType
<1>8. Cardinality(pool') \in Nat /\ Cardinality(pool') <= Cardinality(pool \cup P)
  <2>1. pool' \subseteq pool \cup P
    BY <1>1
  <2> QED
    BY <2>1, <1>6, FS_Subset, FS_CardinalityType
<1>9. Cardinality(queued') \in Nat /\ Cardinality(queued') <= n
  <2>1. queued' \subseteq queued
    BY <1>1
  <2> QED
    BY <2>1, <1>2, FS_Subset, FS_CardinalityType
<1> QED
  BY <1>2, <1>4, <1>5, <1>6, <1>7, <1>8, <1>9, LimitAssumption DEF Limits

(* generate_async adds one request, and only where there is room.          *)
LEMMA AcceptLimits == ASSUME Typed, Limits, NEW c \in Clients, Accept(c) PROVE Limits'
<1>1. /\ c \notin queued /\ B!Cardinality(queued) < MaxWaiting
      /\ queued' = queued \cup {c} /\ pool' = pool
  BY DEF Accept, B!Admit, B!InSystem
<1>2. \A S : B!Cardinality(S) = Cardinality(S)
  BY DEF B!Cardinality, Cardinality
<1>3. Cardinality(queued \cup {c}) = Cardinality(queued) + 1
  BY <1>1, Finite, FS_AddElement
<1>4. Cardinality(queued) \in Nat
  BY Finite
<1> QED
  BY <1>1, <1>2, <1>3, <1>4, LimitAssumption DEF Limits

LEMMA NextLimits == ASSUME Typed, Limits, [Next]_vars PROVE Limits'
<1>1. CASE \E c \in Clients : Accept(c)
  BY <1>1, AcceptLimits
<1>2. CASE \E F \in SUBSET Clients : Step(F) \/ StepRaises(F) \/ DecodeRaises(F)
  <2>1. PICK F : B!Iterate(F)
    BY <1>2 DEF Step, StepRaises, DecodeRaises
  <2> QED
    BY <2>1, IterateLimits DEF Limits
<1>3. CASE UNCHANGED <<queued, pool>>
  BY <1>3 DEF Limits
<1>4. (\E c \in Clients :
         \/ TurnAway(c) \/ NotRendered(c) \/ NotEncoded(c) \/ Invalid(c) \/ Full(c)
         \/ AcceptSingle(c) \/ Resume(c) \/ ThreadEnds(c))
        => UNCHANGED <<queued, pool>>
  BY DEF TurnAway, NotRendered, NotEncoded, Invalid, Full, AcceptSingle, Resume, ThreadEnds,
         Handle, requestVars
<1>5. StopServing \/ Quiet => UNCHANGED <<queued, pool>>
  BY DEF StopServing, Quiet, StartUp, Start, StartFails, LoopEnds, Sigterm, Sigint, Halt,
         Exit, requestVars, vars
<1> QED
  BY <1>1, <1>2, <1>3, <1>4, <1>5 DEF Next, Quiet

(***************************************************************************)
(* Every variable keeps its type, neither the deque nor the active list    *)
(* outgrows its limit, whatever clients, faults and signals do, and the    *)
(* gauge never goes below zero.                                            *)
(***************************************************************************)
THEOREM ServiceTypes == Spec => []TypeOK
<1>1. Init => ControlTyped /\ Limits
  <2> SUFFICES ASSUME Init PROVE ControlTyped /\ Limits
    OBVIOUS
  <2>1. queued = {} /\ pool = {}
    BY DEF Init, B!Init
  <2>2. Limits
    BY <2>1, FS_EmptySet, LimitAssumption DEF Limits
  <2> QED
    BY <2>2 DEF Init, ControlTyped
<1>2. ServiceInv /\ ControlTyped /\ Limits /\ [Next]_vars => ControlTyped' /\ Limits'
  BY NextControl, NextLimits DEF ServiceInv
<1>3. ServiceInv /\ ControlTyped /\ Limits /\ GaugeCountsServed => TypeOK
  BY CountedFinite, FS_CardinalityType
     DEF ServiceInv, Typed, ControlTyped, Limits, GaugeCountsServed, TypeOK, B!InSystem
<1> QED
  BY <1>1, <1>2, <1>3, ServiceInvariant, GaugeIsExact, PTL DEF Spec

-----------------------------------------------------------------------------
(***************************************************************************)
(* The schema in front of the engine, for every body a client may send.    *)
(***************************************************************************)

(* A canvas of one block, whatever its length and number of steps.         *)
LEMMA OneBlockIsValid ==
  ASSUME NEW p \in ParamType, p.blockLength \in {None, p.genLength}
  PROVE  Valid(p)
<1>1. /\ p.genLength \in Nat \ {0} /\ p.numSteps \in Nat \ {0}
      /\ BlockLength(p) = p.genLength
  BY DEF ParamType, BlockLength
<1>2. \A n \in Nat \ {0} : n % n = 0 /\ n \div n = 1 /\ n % 1 = 0
  OBVIOUS
<1>3. NumBlocks(p) = 1
  BY <1>1, <1>2 DEF NumBlocks
<1> QED
  BY <1>1, <1>2, <1>3 DEF Valid

(***************************************************************************)
(* What passes the schema is a request the denoising loops are specified   *)
(* for (positive lengths, steps and radius), and one without a             *)
(* block_length always passes init_state: its client gets no 500 for its   *)
(* lengths.                                                                *)
(***************************************************************************)
THEOREM SchemaSuffices == AcceptedIsDenoisable
<1> SUFFICES ASSUME NEW b \in Single \cup Batched
             PROVE  /\ ParamsOf(b) \in ParamType
                    /\ b.blockLength = None => Valid(ParamsOf(b))
  BY DEF AcceptedIsDenoisable, Denoisable
<1>1. b \in BodyType /\ Schema(b)
  BY BodyAssumption DEF Single, Batched
<1>2. GenLength(b) \in Nat \ {0}
  BY <1>1, NoneAssumption DEF BodyType, Schema, IsLength, GenLength, Or
<1>3. ParamsOf(b) \in ParamType
  BY <1>1, <1>2, NoneAssumption DEF BodyType, Schema, IsLength, ParamsOf, Or, ParamType
<1>4. ASSUME b.blockLength = None PROVE Valid(ParamsOf(b))
  <2>1. ParamsOf(b).blockLength = ParamsOf(b).genLength
    BY <1>4 DEF ParamsOf, Or
  <2> QED
    BY <1>3, <2>1, OneBlockIsValid
<1> QED
  BY <1>3, <1>4
=============================================================================
