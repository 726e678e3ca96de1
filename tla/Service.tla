------------------------------- MODULE Service -------------------------------
(***************************************************************************)
(* The online service: the HTTP handlers of dlmserve/api/server.py, the    *)
(* futures they wait for, the engine loop that resolves them               *)
(* (dlmserve/engine.py) and the ways the process is asked to stop.         *)
(*                                                                         *)
(* Handlers, engine loop, signal handlers and lifespan are coroutines and  *)
(* callbacks of one asyncio thread: an action is what runs between two     *)
(* awaits.  Only denoise() of force_single_batch runs in another thread.   *)
(* The queue and the pool are those of Batching.                           *)
(*                                                                         *)
(* The HTTP server around the handlers, uvicorn, is external.  On SIGINT   *)
(* it refuses connections, waits for the handlers' tasks up to a timeout,  *)
(* cancels those left, and then lets the lifespan end.  Its own SIGTERM    *)
(* handler is the one the lifespan replaces.  The process ends when no     *)
(* worker thread is left.                                                  *)
(***************************************************************************)
EXTENDS Protocol, FiniteSetsExt

CONSTANTS
  Clients,     \* each sends one chat completion
  MaxBatch,    \* DLMSERVE_MAX_BATCH
  MaxWaiting,  \* DLMSERVE_MAX_WAITING
  Faults       \* what may raise: "template" (_prompt_from_messages), "encode"
               \* (_encode), "step" (step_batch), "decode" (_make_output)

ASSUME ClientsAssumption == IsFiniteSet(Clients)
ASSUME LimitAssumption == MaxBatch \in Nat \ {0} /\ MaxWaiting \in Nat
ASSUME FaultAssumption == Faults \subseteq {"template", "encode", "step", "decode"}

VARIABLES
  queued,          \* Batching
  pool,            \* Batching
  future,          \* future[c]: the Future of the request of c
  handler,         \* handler[c]: where chat_completions is, or what it answered
  threads,         \* clients for whom denoise() runs in a worker thread
  engine,          \* the task _engine_task
  shuttingDown,    \* server._shutting_down
  engineShutdown,  \* Engine._shutdown
  inFlight,        \* the gauge requests_in_flight
  phase            \* the process, as uvicorn and the lifespan see it

requestVars == <<queued, pool, future>>
stopVars == <<shuttingDown, engineShutdown, phase>>
vars == <<requestVars, handler, threads, engine, inFlight, stopVars>>

B == INSTANCE Batching WITH Requests <- Clients

Alone == {"thread", "doomed"}   \* in a worker thread, bound to end or to raise

\* "500 early": an internal error before the request was counted.
Answers == {"200", "404", "422", "429", "500 early", "500", "503", "dropped"}

Init ==
  /\ B!Init
  /\ future = [c \in Clients |-> "none"]
  /\ handler = [c \in Clients |-> "idle"]
  /\ threads = {}
  /\ engine = "none"
  /\ shuttingDown = FALSE
  /\ engineShutdown = FALSE
  /\ inFlight = 0
  /\ phase = "starting"

-----------------------------------------------------------------------------
(***************************************************************************)
(* Start-up: the model is loaded before anything is served.                *)
(***************************************************************************)
StartUp == phase = "starting" /\ UNCHANGED <<requestVars, handler, threads, inFlight,
                                             shuttingDown, engineShutdown>>

Start ==
  /\ StartUp
  /\ phase' = "up"
  /\ engine' = "running"

\* The loader raises, or a signal has uvicorn leave.
StartFails ==
  /\ StartUp
  /\ phase' = "exited"
  /\ engine' = engine

-----------------------------------------------------------------------------
(***************************************************************************)
(* chat_completions, up to its first await.  A connection that was open    *)
(* when uvicorn began to stop may still bring a request.                   *)
(***************************************************************************)
Open(c) == handler[c] = "idle" /\ phase \in {"up", "stopping"}

\* The handler of c goes to h; the engine and the signals are not concerned.
\* An answer is one step, streamed (in a single chunk) or not.
Handle(c, h) ==
  /\ handler' = [handler EXCEPT ![c] = h]
  /\ UNCHANGED <<requestVars, engine, stopVars>>

\* What needs no engine: by the schema, during shutdown, or for another model.
TurnAway(c) ==
  /\ Open(c)
  /\ \/ Unprocessable # {} /\ Handle(c, "422")
     \/ shuttingDown /\ Handle(c, "503")
     \/ ~shuttingDown /\ NotHosted # {} /\ Handle(c, "404")
  /\ UNCHANGED <<threads, inFlight>>

\* Mutant: whether the server shuts down is not looked at.
Admissible_Always(c) == Open(c)

\* A body for this server, while it is not shutting down: the gauge goes up.
Admissible(c) == Open(c) /\ ~shuttingDown

\* The chat template raises, before the gauge goes up.
NotRendered(c) ==
  /\ Admissible(c)
  /\ "template" \in Faults
  /\ Single \cup Batched # {}
  /\ Handle(c, "500 early")
  /\ UNCHANGED <<threads, inFlight>>

(***************************************************************************)
(* The tokenizer raises.  A RuntimeError from generate_async is caught,    *)
(* and answered like a full queue; anything else, and what the path of     *)
(* force_single_batch raises, nobody catches: 500, and the gauge stays up. *)
(***************************************************************************)
NotEncoded(c) ==
  /\ Admissible(c)
  /\ "encode" \in Faults
  /\ \/ /\ Batched # {}
        /\ Handle(c, "429")
        /\ inFlight' = inFlight
     \/ /\ Single \cup Batched # {}
        /\ Handle(c, "500")
        /\ inFlight' = inFlight + 1
  /\ threads' = threads

\* init_state raises ValueError: the same 500.
Invalid(c) ==
  /\ Admissible(c)
  /\ Batched \ Denoisable # {}
  /\ Handle(c, "500")
  /\ inFlight' = inFlight + 1
  /\ threads' = threads

\* Mutant: the gauge is incremented once the request is admitted.
Full_NotCounted(c) ==
  /\ Admissible(c)
  /\ Cardinality(queued) >= MaxWaiting
  /\ Handle(c, "429")
  /\ inFlight' = inFlight - 1
  /\ threads' = threads

\* The deque is full: the gauge goes up and down again.
Full(c) ==
  /\ Admissible(c)
  /\ Batched \cap Denoisable # {}
  /\ Cardinality(queued) >= MaxWaiting
  /\ Handle(c, "429")
  /\ UNCHANGED <<threads, inFlight>>

\* generate_async admits the request and waits for its future.
Accept(c) ==
  /\ Admissible(c)
  /\ Batched \cap Denoisable # {}
  /\ B!Admit(c)
  /\ future' = [future EXCEPT ![c] = "pending"]
  /\ handler' = [handler EXCEPT ![c] = "waiting"]
  /\ inFlight' = inFlight + 1
  /\ UNCHANGED <<threads, engine, stopVars>>

\* force_single_batch: denoise() in a thread, whose init_state may raise.
AcceptSingle(c) ==
  /\ Admissible(c)
  /\ \E b \in Single : Handle(c, IF b \in Denoisable THEN "thread" ELSE "doomed")
  /\ threads' = threads \cup {c}
  /\ inFlight' = inFlight + 1

-----------------------------------------------------------------------------
(***************************************************************************)
(* chat_completions, resumed.                                              *)
(***************************************************************************)

\* Mutant: the gauge goes down for results only.
Resume_FailedNotCountedOut(c) ==
  /\ handler[c] = "waiting"
  /\ \/ future[c] = "result" /\ Handle(c, "200") /\ inFlight' = inFlight - 1
     \/ future[c] = "failed" /\ Handle(c, "429") /\ inFlight' = inFlight
  /\ threads' = threads

\* A failed step is answered like a full queue.
Resume(c) ==
  /\ handler[c] = "waiting"
  /\ \/ future[c] = "result" /\ Handle(c, "200")
     \/ future[c] = "failed" /\ Handle(c, "429")
  /\ inFlight' = inFlight - 1
  /\ threads' = threads

(***************************************************************************)
(* The thread returns, or raises and leaves the gauge up; or nobody waits  *)
(* for it any more.                                                        *)
(***************************************************************************)
ThreadEnds(c) ==
  /\ c \in threads
  /\ threads' = threads \ {c}
  /\ \/ /\ handler[c] = "thread"
        /\ Handle(c, "200")
        /\ inFlight' = inFlight - 1
     \/ /\ handler[c] = "doomed" \/ (handler[c] = "thread" /\ "step" \in Faults)
        /\ Handle(c, "500")
        /\ inFlight' = inFlight
     \/ /\ handler[c] = "dropped"
        /\ UNCHANGED <<requestVars, handler, engine, inFlight, stopVars>>

-----------------------------------------------------------------------------
(***************************************************************************)
(* The engine loop.  An iteration runs from schedule() to the next await;  *)
(* Future.done() guards every resolution.                                  *)
(***************************************************************************)
Resolve(F, how) ==
  future' = [c \in Clients |-> IF c \in F /\ future[c] = "pending" THEN how
                               ELSE future[c]]

EngineOnly == UNCHANGED <<handler, threads, inFlight, stopVars>>

\* A step; the requests F are done.
Step(F) ==
  /\ engine = "running"
  /\ B!Iterate(F)
  /\ Resolve(F, "result")
  /\ engine' = engine
  /\ EngineOnly

\* Mutant: the exception is logged and the batch dropped.
StepRaises_Unanswered(F) ==
  /\ engine = "running"
  /\ "step" \in Faults
  /\ F # {}
  /\ B!Iterate(F)
  /\ UNCHANGED <<future, engine>>
  /\ EngineOnly

\* Mutant: the batch gets its exception and stays in the pool.
StepRaises_NotCompleted(F) ==
  /\ engine = "running"
  /\ "step" \in Faults
  /\ F # {} /\ F \subseteq pool
  /\ Resolve(F, "failed")
  /\ UNCHANGED <<queued, pool, engine>>
  /\ EngineOnly

\* step_batch raises: the batch F is aborted.
StepRaises(F) ==
  /\ engine = "running"
  /\ "step" \in Faults
  /\ F # {}
  /\ B!Iterate(F)
  /\ Resolve(F, "failed")
  /\ engine' = engine
  /\ EngineOnly

(***************************************************************************)
(* _make_output raises outside of the try: the requests F before it were   *)
(* completed, the one it was called for and the rest stay, and the task    *)
(* is over.                                                                *)
(***************************************************************************)
DecodeRaises(F) ==
  /\ engine = "running"
  /\ "decode" \in Faults
  /\ Cardinality(F) < MaxBatch
  /\ B!Iterate(F)
  /\ pool' # {}
  /\ Resolve(F, "result")
  /\ engine' = "failed"
  /\ EngineOnly

\* Mutant: the loop ends as soon as it is told to.
LoopEnds_AtOnce ==
  /\ engine = "running"
  /\ engineShutdown
  /\ engine' = "ended"
  /\ UNCHANGED requestVars
  /\ EngineOnly

\* while not self._shutdown or self._scheduler.has_work()
LoopEnds ==
  /\ engine = "running"
  /\ engineShutdown
  /\ ~B!HasWork
  /\ engine' = "ended"
  /\ UNCHANGED requestVars
  /\ EngineOnly

-----------------------------------------------------------------------------
(***************************************************************************)
(* Shutting down.                                                          *)
(***************************************************************************)

\* Mutant: the engine is not told.
BeginShutdown_ServerOnly ==
  shuttingDown' = TRUE /\ engineShutdown' = engineShutdown

\* _begin_shutdown
BeginShutdown == shuttingDown' = TRUE /\ engineShutdown' = TRUE

\* The handler the lifespan registers.
Sigterm ==
  /\ phase \notin {"starting", "exited"}
  /\ ~shuttingDown
  /\ BeginShutdown
  /\ UNCHANGED <<requestVars, handler, threads, engine, inFlight, phase>>

\* uvicorn: should_exit.
Sigint ==
  /\ phase = "up"
  /\ phase' = "stopping"
  /\ UNCHANGED <<requestVars, handler, threads, engine, inFlight,
                 shuttingDown, engineShutdown>>

(***************************************************************************)
(* uvicorn: every handler is done, or the timeout passes and those left    *)
(* are cancelled.  A handler waiting for the engine answers 503, even if   *)
(* its future was resolved and it had not run since, and corrects the      *)
(* gauge; one waiting for a thread just ends.  The lifespan resumes.       *)
(***************************************************************************)
StopServing ==
  /\ phase = "stopping"
  /\ phase' = "lifespan"
  /\ BeginShutdown
  /\ future' = [c \in Clients |->
                  IF handler[c] = "waiting" /\ future[c] = "pending"
                  THEN "cancelled" ELSE future[c]]
  /\ handler' = [c \in Clients |->
                   IF handler[c] = "waiting" THEN "503"
                   ELSE IF handler[c] \in Alone THEN "dropped"
                   ELSE handler[c]]
  /\ inFlight' = inFlight - Cardinality({c \in Clients : handler[c] = "waiting"})
  /\ UNCHANGED <<queued, pool, threads, engine>>

\* Mutant: draining without a timeout.
Halt_NoTimeout ==
  /\ phase = "lifespan"
  /\ ~B!HasWork
  /\ phase' = "leaving"
  /\ engine' = IF engine = "running" THEN "cancelled" ELSE engine
  /\ UNCHANGED <<requestVars, handler, threads, inFlight, shuttingDown, engineShutdown>>

\* The queue is drained, or GRACEFUL_SHUTDOWN_TIMEOUT passes; the loop is cancelled.
Halt ==
  /\ phase = "lifespan"
  /\ phase' = "leaving"
  /\ engine' = IF engine = "running" THEN "cancelled" ELSE engine
  /\ UNCHANGED <<requestVars, handler, threads, inFlight, shuttingDown, engineShutdown>>

\* The interpreter joins the worker threads.
Exit ==
  /\ phase = "leaving"
  /\ threads = {}
  /\ phase' = "exited"
  /\ UNCHANGED <<requestVars, handler, threads, engine, inFlight,
                 shuttingDown, engineShutdown>>

Next ==
  \/ Start \/ StartFails
  \/ \E c \in Clients :
       \/ TurnAway(c) \/ NotRendered(c) \/ NotEncoded(c) \/ Invalid(c)
       \/ Full(c) \/ Accept(c) \/ AcceptSingle(c) \/ Resume(c) \/ ThreadEnds(c)
  \/ \E F \in SUBSET Clients : Step(F) \/ StepRaises(F) \/ DecodeRaises(F)
  \/ LoopEnds
  \/ Sigterm \/ Sigint \/ StopServing \/ Halt \/ Exit

Spec == Init /\ [][Next]_vars

-----------------------------------------------------------------------------
(***************************************************************************)
(* Fairness.  The event loop runs what is ready, so handlers resume, the   *)
(* loop looks at its condition, and timeouts pass.  Whatever is in the     *)
(* pool or the queue leaves in the end while the engine loop runs: this is *)
(* Scheduler!NoStarvation.  Nobody has to send a request or a signal, and  *)
(* nothing has to fail.                                                    *)
(***************************************************************************)
Leaves(c) == \E F \in SUBSET Clients : c \in F /\ Step(F)

FairSpec ==
  /\ Spec
  /\ \A c \in Clients : WF_vars(Leaves(c)) /\ WF_vars(Resume(c)) /\ WF_vars(ThreadEnds(c))
  /\ WF_vars(LoopEnds)
  /\ WF_vars(StopServing)
  /\ WF_vars(Halt)
  /\ WF_vars(Exit)

-----------------------------------------------------------------------------
(***************************************************************************)
(* Properties                                                              *)
(***************************************************************************)

\* Every variable has its type, the queue and the pool keep their limits, and
\* the gauge never goes below zero.
TypeOK ==
  /\ queued \subseteq Clients /\ pool \subseteq Clients
  /\ Cardinality(queued) <= MaxWaiting /\ Cardinality(pool) <= 2 * MaxBatch
  /\ future \in [Clients -> {"none", "pending", "result", "failed", "cancelled"}]
  /\ handler \in [Clients -> {"idle", "waiting"} \cup Alone \cup Answers]
  /\ threads \subseteq Clients
  /\ engine \in {"none", "running", "ended", "failed", "cancelled"}
  /\ shuttingDown \in BOOLEAN /\ engineShutdown \in BOOLEAN
  /\ inFlight \in Nat
  /\ phase \in {"starting", "up", "stopping", "lifespan", "leaving", "exited"}

(***************************************************************************)
(* The in-flight gauge through every way out of a handler, cancellations   *)
(* included: it counts each client being served once, and besides them     *)
(* only those whose handler ended by an exception it does not catch.       *)
(***************************************************************************)
Counted == {c \in Clients : handler[c] \in {"waiting", "500", "dropped"} \cup Alone}

GaugeCountsServed == inFlight = Cardinality(Counted)

(***************************************************************************)
(* Whoever waits for an answer is still in the scheduler, and the engine   *)
(* loop has not returned behind its back: shutdown flags, failing steps,   *)
(* cancellations and admissions interleave, and never lose a wake-up.      *)
(***************************************************************************)
NobodyForgotten ==
  \A c \in Clients :
    handler[c] = "waiting" =>
      \/ future[c] \in {"result", "failed"}
      \/ future[c] = "pending" /\ c \in B!InSystem /\ engine # "ended"

(***************************************************************************)
(* The converse: no forward pass is spent on a request whose client was    *)
(* answered, except on those cut off by the timeout of a shutdown.         *)
(***************************************************************************)
WorkIsAwaited ==
  \A c \in B!InSystem :
    \/ handler[c] = "waiting" /\ future[c] = "pending"
    \/ handler[c] = "503" /\ future[c] = "cancelled" /\ phase \in {"lifespan", "leaving", "exited"}

(***************************************************************************)
(* Every client that was taken is answered, shutdown or not: with a        *)
(* status, or, if it waits for a worker thread when uvicorn's timeout      *)
(* cancels the handlers, by its connection being dropped.  A failed decode *)
(* is excepted: it ends the engine's task, and those who wait then do so   *)
(* until the process is told to stop.                                      *)
(***************************************************************************)
EveryClientAnswered ==
  \A c \in Clients :
    handler[c] \in {"waiting"} \cup Alone ~> handler[c] \in Answers \/ engine = "failed"

\* A shutdown, by whichever signal, empties the queue and ends the loop.
DrainEndsEngine == shuttingDown ~> engine # "running"

\* After SIGINT the process exits, even if the engine's task has failed.
InterruptExits == phase = "stopping" ~> phase = "exited"

-----------------------------------------------------------------------------
(***************************************************************************)
(* What the code says of itself and does not keep.                         *)
(***************************************************************************)

(***************************************************************************)
(* server.py: SIGTERM triggers graceful drain and then hard exit.          *)
(***************************************************************************)
SigtermExits == shuttingDown ~> phase = "exited"

(***************************************************************************)
(* metrics.py: requests_in_flight is the number of requests currently      *)
(* being denoised.  When all have been answered, it is zero.               *)
(***************************************************************************)
GaugeReturnsToZero ==
  (~B!HasWork /\ \A c \in Clients : handler[c] \notin {"waiting"} \cup Alone)
    => inFlight = 0
=============================================================================
