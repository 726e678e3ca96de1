# dlmserve in TLA+

Specifications of [dlmserve](../src/README.md), a serving engine for diffusion
language models: TLA+ modules translated from its Python source, TLC
configurations that model-check them on small instances, and proofs checked by
TLAPS for every value of the constants. `PROJECT.json` holds the map from each
definition to the lines it models, the hazards each property is for, and the
runs, mutants, findings and theorems.

To repeat everything: `tlc -config X.cfg M` for the pairs in the table of runs,
and `tlapm M.tla` for the seven `*Proofs` modules and for `SequenceLemmas`.

## 1. The system

A request is a prompt followed by a body of mask tokens. The body is cut into
blocks, a block into steps; a step runs the model once and commits the
predictions it is most confident of. Several requests share one model call
when the scheduler finds them at the same step.

```
 HTTP clients            Python script
      |                       |
 chat_completions         LLM.generate
 (api/server.py)          (engine.py)
      |  generate_async       |  a new event loop for every call
      v                       v
   admit() --> _pending --> _active          DiffusionScheduler (scheduler.py)
                              | schedule(): one batch
                              v
   _engine_loop --------> step_batch()       (denoise_loop.py, sampler.py)
      |                       | done
      +-- complete() <--------+ --> resolves the request's Future
```

Everything runs on one asyncio thread, except `denoise()` of a request with
`force_single_batch`. Interleaving is therefore between awaits, and an action of
these modules is what runs from one await to the next.

### Components

| Component | State | Operations | What is hard | What makes it correct |
|---|---|---|---|---|
| Commit rules, schedule (`sampler.py`) | none | `compute_transfer_schedule`, `commit_top_k_by_confidence`, `commit_with_local_leap` | remainders; `topk` over confidences that are minus infinity | the schedule's steps commit every mask of a block, no position outside the block is touched |
| Reference loop (`denoise_loop.py`) | `DenoiseState` | `init_state`, `denoise` | early end of a block | all masks filled |
| Batched loop (`denoise_loop.py`) | the states of the requests of a batch | `step_batch` | rows of different lengths share a canvas; blocks end on different steps; the first row's parameters are used for all | each row gets a run of the reference loop, whoever shares its batches |
| Scheduler (`scheduler.py`) | `_pending`, `_active`; per request its step and admission time | `admit`, `_promote_pending`, `schedule`, `complete`, `has_work` | largest group first against waiting time; ties; removal from the middle | bounded queues, nobody lost, bounded overtaking, nobody starves |
| Engine (`engine.py`) | the scheduler, `_shutdown`, futures | `_engine_loop`, `generate_async`, `generate` | steps and decodes that raise; calls that fail half way; reuse across event loops | whoever waits is served or told; no work for nobody; a call finds the engine clean |
| HTTP server (`api/server.py`) | `_shutting_down`, `_ready`, `_engine_task`, handlers | `chat_completions`, `lifespan`, `_begin_shutdown`, `_drain_active`, probes | signals, two timeouts, cancellations under a running loop | every client answered, shutting down ends |
| Metrics (`metrics.py`) | gauges, histograms, throughput window | `record_*` | every way out of a handler must count out; gauges set after successful steps only; a window of one entry | in-flight counts whom the server serves, gauges come to rest, the rate is one steps can reach |
| API schema (`api/protocol.py`) | none | validation, `_sampling_params` | bounds checked field by field, divisibility only by `init_state` | what is accepted is a request the loops are specified for |
| Vendored reference (`reference/llada_reference.py`) | a call's canvas | `generate` | what dlmserve without LocalLeap is to reproduce, batched or not | - |
| Logging, attention, model loading, KV cache, scripts | none that matters here | | | |

The components interact by calls on one thread and by futures: `chat_completions`
awaits a future that `complete()` resolves from inside the engine loop; shutdown
talks to the engine loop through the flag `Engine._shutdown` and to the handlers
through `_shutting_down`. `generate()` starts an event loop and an engine loop of
its own, so that futures outlive the loop they belong to when a call fails.

The hazards that follow from this, each at its line and with the properties that
catch it, are listed in `PROJECT.json`.

## 2. Modules

| Module | Models | Notes |
|---|---|---|
| `Sampler` | `sampler.py` | pure operators: the *set* of commits the code may make |
| `Params` | `SamplingParams`, the divisions of `init_state` | block length, blocks, steps per block; what `init_state` refuses |
| `DenoiseState` | `DenoiseState`, `init_state` | arithmetic of blocks, shared by the two loops |
| `Denoise` | `denoise()` | **abstract specification** of one request |
| `Reference` | `generate()` of the vendored reference | **abstract specification** of one request without LocalLeap |
| `DenoiseLoop` | `step_batch`, `Request.group_key` | every row implements `Denoise` (`RowsIsolated`) and, without LocalLeap, `Reference` (`RowsMatchReference`) |
| `Batching` | what the engine loop promises to the rest | **abstract specification** of queue, pool and iteration |
| `Scheduler` | `DiffusionScheduler` under `_engine_loop`, with time | implements `Batching` (`Batched`) |
| `Engine` | `_engine_loop` on the real states | **composition** of `Scheduler` and `DenoiseLoop`, implements both (`SchedulesAsSpecified`, `DenoisesAsSpecified`) |
| `Protocol` | `ChatCompletionRequest`, `_sampling_params` | which bodies are refused, by whom, and what the others become |
| `Service` | `chat_completions`, `lifespan`, `_engine_loop`, futures, threads, signals, in-flight gauge | built on `Batching` and `Protocol` |
| `Offline` | `generate`, again and again, `queue_depth` | built on `Batching` |
| `Metrics` | `record_step` | the throughput window |
| `MCParams`, `MCDenoiseLoop`, `MCEngine`, `MCScheduler`, `MCService` | | parameter spaces and bodies for TLC |
| `SequenceLemmas` | | removal, concatenation and cutting of sequences without duplicates, for the two queues |
| `SamplerProofs`, `DenoiseLoopProofs` | | theorems on the commit rules, and on the rows of a batch |
| `RowProofs` | | every row alone: `Denoise`, `Reference`, the schedule of a plain row |
| `SchedulerProofs` | | theorems on the scheduler, its bounds, and that it implements `Batching` |
| `EngineProofs` | | the engine implements `Scheduler` and `DenoiseLoop`; what follows for the answers |
| `ServiceProofs`, `OfflineProofs` | | theorems on the server with its schema, and on calls of `generate()` |

### How state and actions correspond to the code

**DenoiseLoop.** `params[r]`, `seq[r]`, `blockIdx[r]`, `stepInBlock[r]` and
`schedule[r]` are the fields of the `DenoiseState` of request `r`. `Submit` is
`init_state`, with the requests it refuses left out by `Valid`. `Step` is one call
of `step_batch` on any set of requests the group key allows, in any order: the
order matters by its first element only, the `leader`. Padding, the shift of a
row, the block end in canvas coordinates, write-back, fast-forward and the new
schedule are the code's, one operator each. Tokens are classes (mask, pad, prompt,
argmax, sampled); the confidences are reduced to finite or not, so that which
positions win is nondeterministic; LocalLeap's thresholds are reduced to "any
anchor and any neighbour may pass".

**Reference.** The vendored procedure with the arguments dlmserve is compared at. `Iterate`
is an iteration of the inner loop together with those after it whose number of transfers is zero:
they leave the tokens as they are, and `step_batch` skips them when a block is full. Under the
mapping `Published(r)`, the fields of a row without LocalLeap are the reference's
local variables. What is compared is the tokens' positions, order and source; with sampling, the
random numbers drawn differ, since the skipped iterations draw some.

**Scheduler.** `pending` and `active` are the deque and the list. `RunBatch` is one
iteration of the loop up to its completions: promotion, grouping, score, choice,
truncation, then a step that succeeds (`Denoise`) or raises (`Abort`). `Complete`
is one `complete()`; `leaving` holds the requests the loop has still to complete,
and nothing else may run while it is not empty, because the code does not await
there. The score is multiplied by `AGING_PERIOD_MS` to stay in the integers. The
contents of a sequence are gone: a step advances `step_idx` by one or to the next
block, which is what `StepIdx` of `DenoiseLoop` does. `age` is
`now - admitted_ms`, in ticks; only steps take time.

**Batching.** Order, scores and time are gone: requests are admitted to a bounded
queue; an iteration promotes as many as fit and lets at most a batch of requests
leave. `Service` and `Offline` instantiate it, so they hold for whatever order of
service the scheduler has.

**Engine.** The state is that of `DenoiseLoop` and of `Scheduler` at once; a request is
a row. The scheduler's profile and step index are no variables here: they are read from the row's
`DenoiseState`, as `Request.group_key` does (`ProfileOf`, `StepIdx`). The module extends `DenoiseLoop` and instantiates
`Scheduler` as `S`. `RunBatch` gives `step_batch` the
batch `schedule()` returns, led by the first of it in the order of the pool, and what leaves is what
`DenoiseState.done` says. What a request that leaves is given, result or exception, is decided by the path its iteration
took, which `raised` records, and not by its state: that only finished requests get results is for `ResultsAreComplete` to find.
The two modules' assumptions about each other become properties:
`SchedulesAsSpecified` is `S!Spec`, `DenoisesAsSpecified` is `DenoiseLoop`'s `Spec`. A step that raises
does so in the forward pass, before any state of the batch is written.

**Protocol.** A body is a record of the fields that matter. `Schema` is the field bounds and
`_reject_unsupported`, `ParamsOf` is `_sampling_params`, `Valid` (of `Params`) is what `init_state` checks.
The sets `Unprocessable`, `NotHosted`, `Single`, `Batched` and `Denoisable` are the ways of a body through the handler.

**Service.** `handler[c]` is where the coroutine of client `c` is, or its answer;
`future[c]` its future; `threads` the clients with `denoise()` in a worker thread. `Start` and `StartFails` are
`lifespan` up to its `yield`: nothing is served before, and a signal or a loader that raises ends the process.
`TurnAway`, `NotRendered`, `NotEncoded`, `Invalid`, `Full`, `Accept` and `AcceptSingle` are the ways through the handler
up to its first await, `Resume` and `ThreadEnds` the rest. What raises before the request is counted (`NotRendered`, the chat
template) ends as "500 early", and leaves the gauge alone; what raises after it is answered with 429 and counted out if
it is a RuntimeError of `generate_async`, and otherwise ends as a 500 that leaves the gauge up (`NotEncoded`, `Invalid`).
The answer, streamed in one chunk or not, is one step.
`Step`, `StepRaises` and `DecodeRaises` are iterations of the loop. A set `F`
in `DecodeRaises` is what had been completed before `_make_output` raised. `Sigterm`
is the handler `lifespan` registers; `Sigint` and `StopServing` are uvicorn's, which is
external: `should_exit`, then waiting for the handlers up to
`timeout_graceful_shutdown`, then cancelling them. `Halt` is the second half of
`lifespan`, and `Exit` the interpreter, which joins the worker threads.

**Offline.** `Generate` is a call whose prompts all fit; admissions come before the
first iteration of the new engine loop, because no await lies between. `RaiseHalfway` is
a call that raises on the way: the queue is full, the parameters are refused, or a prompt cannot be encoded. What
it had admitted stays, for a loop that is cancelled before its first iteration. `Interrupt` is Ctrl-C. `depth` is the gauge
`queue_depth`, which only iterations that succeed set. `clean` is a history variable, which no action reads but to keep it:
the running call, or the last one, met an empty scheduler and has not failed. The flag and the gauge may well be stale when
such a call begins. `own` are the requests of the running call, and
`Poisoned` are unresolved requests of earlier calls whose future has a callback of
`gather`: resolving one raises, since its event loop is closed (a future without
callbacks resolves silently). `CompletePoisoned` and `AbortPoisoned` are the two
places where that happens, which differ in whether the request has left the list by
then. `EndCall` is the `finally` of `generate()`.

**Metrics.** `RecordStep` is `record_step`, in units of the 1e-6 s that the code takes for a divisor of zero;
`Idle` is time without work, of which the window hears nothing.

## 3. Runs

| Run | Module, cfg | Shows |
|---|---|---|
| `denoise_plain` | `MCDenoiseLoop`, `DenoiseLoopPlain.cfg` | three requests of different prompts, lengths, blocks and steps in every possible batching, rows in different blocks included: types, no mask left behind, canvas filled, committed tokens never change, the step index only grows, on schedule, each row a run of `Denoise` and of `Reference`, everyone finishes |
| `engine` | `MCEngine`, `Engine.cfg` | scheduler and denoising loop together, LocalLeap on two blocks and requests without it, steps that fail: each module meets what the other assumes, and results are complete, rows isolated and clients answered in the batches really formed |
| `leap_leaves_block` | `MCDenoiseLoop`, `DenoiseLoopSemiAr.cfg` | *violation* of `SemiAutoregressive` |
| `mixed_temperature` | `MCDenoiseLoop`, `DenoiseLoopMixed.cfg` | *violation* of `GreedyRowsStayGreedy` |
| `scheduler_pool` | `MCScheduler`, `SchedulerPool.cfg` | endless arrivals, two buckets, failing steps: nobody lost or reordered, no step too many, overtaking and stay bounded, `Batching` implemented |
| `scheduler_fair` | `MCScheduler`, `SchedulerFair.cfg` | no starvation, with early block ends; no deadlock |
| `service` | `MCService`, `ServiceFair.cfg` | signals, and failing chat templates, tokenizers, steps and decodes, at any time, from start-up on: whoever waits is served or told, no work for nobody, the in-flight gauge exact, draining ends the loop, SIGINT ends the process |
| `sigterm_never_exits` | `MCService`, `ServiceSigterm.cfg` | *violation* of `SigtermExits` |
| `gauge_leaks` | `MCService`, `ServiceGauge.cfg` | *violation* of `GaugeReturnsToZero` |
| `offline_calls` | `Offline`, `OfflineCalls.cfg` | after failures and interrupts, whatever they left: a call that finds the scheduler empty leaves no work, no dead future and no flag unless it fails itself, ends, and leaves `queue_depth` at zero, stale or not before; no call loses a request of its own |
| `throughput_spike` | `Metrics`, `Metrics.cfg` | *violation* of `ThroughputAttainable` |
| `offline_hangs` | `Offline`, `OfflineHangs.cfg` | *violation* of `EveryCallEnds` |

TLC also evaluates, as assumptions, the `ASSUME`s of all modules and, in `MCService`, `AcceptedIsDenoisable` on the bodies of that run.

Every property of a passing run has a mutant of the code, listed in `PROJECT.json`
and kept beside the definition it changes (`X_How` before `X`), under which TLC
finds it violated.

Deadlock is checked for the scheduler, where something can always happen. It is
not for the others: requests all finish, the process exits, and a call of
`generate()` may hang, which is a finding.

### Bounds

* `denoise_plain`: three rows, up to four tokens of body. The parameters are chosen
  for the cases: a remainder (3 masks in 2 steps), more steps than masks (so that the
  fast-forward runs), one block and several, different prompt lengths (so that
  shifts differ and rows have padding on either side), requests `init_state`
  refuses, one that samples, and two of one bucket whose blocks have one step and two, so that rows of different blocks meet at one step index. Interference between rows is through the leader and
  the canvas' two maxima, and three rows have a leader, a longest and another.
* `engine`: two requests, in a queue and a batch that hold both, so that they meet at one step or are apart by any
  number of them. The first kind is 4 masks in 2 steps with radius 1:
  a leap of 3 leaves fewer masks than the next step asks for, in the first block
  and before the last. The third has the same bucket and no LocalLeap: only the group key keeps it out of the
  first one's batches. Limits, truncation and more requests than a batch holds are the business of `scheduler_pool`. `MaxAge` is above
  what two requests can reach.
* `scheduler_pool`: `MaxBatch` 2, hence a pool of 4, with six requests and a deque
  of 3, so that the pool is full with more waiting, groups exceed `MaxBatch`, and
  requests leave from the middle. Two buckets that never share a batch, of one step
  and of two. Requests are symmetric; the order of the queues is data.
* A tick stands for 50 ms: `FLUSH_WAIT_MS` is one tick and `AGING_PERIOD_MS` two.
  `FlushBonus` is the code's 1000, beyond any score the ages reach.
* `MaxAge` caps ages. `BoundedStay`, checked in both scheduler runs, says that no
  request reaches it, so it restricts nothing. In `scheduler_pool` 10 is the
  least value for which that holds: the bound on a stay is tight.
* `scheduler_fair`: three requests, `MaxAge` 11 and no symmetry, which liveness does not allow.
  The kinds of request differ by LocalLeap, and their blocks may end early.
* `service`: three clients, `MaxBatch` 2, a deque of one: it is full with two clients
  active and one more coming, and one request is in the batch when another's decode
  raises. A client sends one request; a process that serves more of them has no
  other state, apart from the gauge. The bodies are one of each way through the handler.
* `throughput_spike`: steps of one second, and of twelve, which the window does not reach back over; pauses longer than the window; a request of 32 tokens.
* `offline_*`: `MaxBatch` 1, a deque of two and calls of at most three of four prompts
  (`MaxCall`): a call may be too large by itself, or because of what is left there.

### Fairness

* `DenoiseLoop!FairSpec`: the engine loop runs some batch while a request is
  unfinished. Which one is left open.
* `Scheduler!FairSpec`: the same, and completions follow a step. The loop's condition
  and the absence of awaits justify both. Admissions need not happen, and may happen
  for ever. A step is assumed to return.
* `Engine!FairSpecEngine`: the same. Every iteration with a batch lets time pass, and nothing else does, so
  fairness of the step is stated as fairness of `Tick` on the ages.
* `Service!FairSpec`: a ready coroutine is resumed, the loop looks at its condition,
  uvicorn's and the server's timeouts pass, a thread ends. `Leaves(c)`, that what is in the
  scheduler leaves while the loop runs, is `Scheduler!NoStarvation`. No fairness for
  requests, signals or faults.
* `Offline!FairSpec`: as before, and the coroutine of a call resumes when its futures
  allow. A request with a dead future comes to its turn like any other: `Leaves(r)` includes
  the iteration that completes it and raises.

## 4. What the checks found

Each finding is a run that fails, listed in `PROJECT.json` with the line it contradicts.

1. **LocalLeap leaves the block** (`leap_leaves_block`). The schedule of a block is made
   on entry. After a step that commits more than planned, `k` exceeds the masks left in
   the block, and `topk` fills up with positions of confidence minus infinity, which
   may be masks of later blocks. `BudgetCoversBlock` shows that nothing is lost by it.
2. **A batch shares its first request's temperature** (`mixed_temperature`). The group key
   does not hold the temperature, though `engine.py:170` says so.
3. **SIGTERM does not end the process** (`sigterm_never_exits`). The handler replaces
   uvicorn's and only sets flags.
4. **The in-flight gauge leaks** (`gauge_leaks`), on requests that `init_state` refuses, on
   failures of `force_single_batch`, and on what the tokenizer raises unless it is a RuntimeError.
5. **A failed call of `generate()` makes a later one hang** (`offline_hangs`): the engine loop of
   the later call ends on a future of the closed event loop. A call that raises half way through its prompts leaves
   requests behind as well; no engine loop runs on them between calls, and once they fill the queue every call is refused.
6. **The throughput gauge spikes** (`throughput_spike`): a window of one entry has age zero, and the tokens of a request are
   counted at once, at its last step.

Met on the way, without a run of their own:

* `step_batch`'s docstring (`denoise_loop.py:120`) wants all states at the same block and
  step; the group key gives the same step index only, and rows may be in different
  blocks. The code handles that, and `RowsIsolated` covers it.
* `MIN_BATCH` (`scheduler.py`, ADR 003) is never used.
* A step that raised is answered with 429, like a full queue.
* Once the engine loop's task has failed, `/health` stays ok.
* When `generate()` awaits a failed engine task in its `finally`, the exception replaces the
  answers and `_shutdown` stays set; the call after it may still work.
* The seed a client sends has no effect on the batched path.
* LocalLeap's radius and thresholds, like the temperature, are the leader's.
* `server.py:123` says that per-model thresholds are applied automatically; `_sampling_params` takes those of the body,
  and nothing in the server calls `Engine.local_leap_params`.
* `server.py:9` and `protocol.py:4` say that unsupported parameters are rejected with 400; FastAPI answers 422. `logprobs` is
  listed among them (`protocol.py:48`) and accepted; `block_schedule`, `confidence_metric` and `attention_backend` are accepted
  and have no effect.
* `server.py:6` says one event per denoising step; the stream has one chunk for the whole answer (`server.py:329`).
* `_ready` is true whenever anything is served, and is not reset: `/ready` stays 200 while the server drains.
* A SIGTERM during start-up meets uvicorn's own handler, and does end the process.
* A client that disconnects is not noticed: its request is denoised to the end.
* `DLMSERVE_MAX_BATCH=0` is accepted, and nothing is ever scheduled.

## 5. Proofs

TLAPS proves the following for every value of the constants, under the `ASSUME`s of the
modules, which say what the code checks or configures: types of the parameters
(`ParamAssumption`, `ProfileAssumption`), positive limits (`LimitAssumption`), finitely many clients (`ClientsAssumption`), a pad token
that is not the mask (`PadAssumption`, which `_pad_token_id` sees to).

**DenoiseLoopProofs.** `TypeCorrect`: no index leaves a sequence or a schedule,
whatever is batched with what. `CommittedForGood`: a commit writes only masks, and the shift of
a row is undone by the same shift (`Padding`, `RowStepShape`). `BudgetCovers`: the inductive invariant is

> everything before the current block is committed, the schedule is that of some
> number `m` of masks, and the masks left in the block are at most what steps
> from `stepInBlock` on still commit.

`BudgetCoversBlock` says this of unfinished rows, and is not inductive by itself: the invariant
also keeps the counters of every row within their ranges, and says of a finished row, too, that all it
has left behind is committed. A step with `k` commits leaves no
mask or takes `k` of them (`TopKCovers`), with LocalLeap at least that. `CanvasIsFilled`
follows at the last block. Both assume `NoStrayMask`: neither prompt nor prediction holds the
mask token. The code does not exclude that; a model that predicts the mask token leaves a mask in
its answer. `StepsGoForward` follows from counters that stay within their ranges.

**RowProofs.** Three theorems on one row of a batch, seen alone.

`Isolation`: every row makes a run of `Denoise`, step by step (`IsolatedStep`). The heart is `RowStepAlone`: what a
batch does to a row, `denoise()` can do to it with the commits of the row alone. Columns and positions differ by the
padding, which moves the masks, the block end and the neighbourhoods of LocalLeap alike. `topk` over the canvas may
spend commits on pads, which a row alone does not have; when it does, the block has fewer masks than it is to commit, all of
them are among the commits, and the rest can be spent on committed tokens of the row itself, which a commit does not change
either. There are enough of them, because a schedule never asks for more than the
block's length (`Scheduled`, part of the invariant). The hypothesis `OneSampling` says that requests that can meet at
a group key ask for one temperature and, with LocalLeap, one radius. The comment of the group key (`engine.py:170`) claims the
first; nothing in the code enforces either, and the run `mixed_temperature` shows what happens without. Where all
requests use the server's defaults, it holds.

`PlainOnSchedule`: the inductive invariant `OnSchedule` counts, for a row without LocalLeap, the masks of its block *and* says that the
blocks after it are all masks, without which the next block's schedule could not be known on entry. A commit of
`k` takes exactly `k` masks off a block that has them (`PlainCommit`), whatever the other rows do. Assumes `NoStrayMask`.

`MatchesReference`: the vendored `generate()` computes its schedule by other arithmetic, with the same result
(`SameSchedule`); `Transfer` is `RowStepAlone` again, and `Iterate` skips the iterations that transfer nothing, which
`OnSchedule` shows to be those that `step_batch` leaves out (`IteratePublished`). Assumes both hypotheses.

**SchedulerProofs.** All of it is seen on `Queue`, the active list followed by the
deque: promotion leaves `Queue` as it is, admission appends, completion takes
one element out. `SchedulerInv` is `TypeOK`, `Placed`, `OldestFirst`, `NoStepAfterLast` and
`Blank` (a request not in the system has step and age 0, without which admission
would not preserve the others). `AgingBoundsOvertaking` compares the score of the
group chosen with that of the oldest request's group: sizes differ by at most
`2 * MaxBatch - 2`, so that waits differ by at most as many aging periods, and the
flush bonus only ever favours the older group; the oldest member of the chosen
group is in its batch, because members are cut in order of admission.

`StayIsBounded`: for steps of at most `d` ticks and requests of at most `n` steps, no stay exceeds

> `StayBound(d, n)` = `AGING_PERIOD` (2 `max_batch` - 2) + `d` (2 `max_batch` + `max_waiting`) `n`.

By `AgingBoundsOvertaking` some member of every batch is at most `Gap`, the first summand, younger than the head
of the list, hence than anyone (`LeaderMoves`). So once a request is older than `Gap`, only the requests that were there
by then can hold it up. Their work is counted as a set of steps, `WorkAhead`: an iteration takes one off it, or more,
at the cost of `d` ticks, and nobody admitted later adds to it. The invariant `InTime` is that age and `d` times the work
left stay below the bound together. A step that fails takes a whole request off. The bound is not tight: for the constants of
`scheduler_pool` it is 18, where TLC finds that 9 is reached and no more. The theorem takes `MaxAge` above the bound, so that the
cap on ages, which the code does not have, plays no part in it.

`SchedulerKeepsPromise`: `Scheduler!Spec` implements
`Batching!Spec` under `queued <- Members(pending)`, `pool <- Members(active) \ leaving`. Both
queues are segments of `Queue`, which has no duplicates, so lengths are cardinalities;
`Complete` is a stutter, since a request that is to leave has left the abstract pool already; a
batch is cut by rank, hence has at most `MaxBatch` members.

**EngineProofs.** Each of the two modules assumes something of the other, and the engine meets both.
`EngineInv` has to say what neither module can: the two queues hold no request twice (`QueuesApart`), whoever is in them
has parameters and, unless about to leave, steps to do (`QueuedIsUnfinished`), a future with a result belongs to a
request that is done, and after a step that did not raise so does every request about to leave (`LeavingIsDone`): `complete()` does not
look at the state. `EngineDenoises`: what `schedule()` returns is one of `DenoiseLoop!Batches` (`ChosenIsBatch`): not
empty, unfinished, of one bucket, LocalLeap setting and step index. `EngineSchedules`: `step_batch` moves the step index, which is computed from
`block_idx` and `step_in_block`, by one or to the next block (`StepsOfBatch`), and what the engine completes
is what the scheduler lets leave. As the engine implements `DenoiseLoop`, the theorems about rows hold in it:
`EngineKeepsCommitted`, `EngineCoversBlocks`, `EngineKeepsSchedules`, `EngineIsolates`. `EngineResults` joins the two sides: a
future gets a result only with all steps done, and then, by `CanvasIsFilled`, no mask is left.

**ServiceProofs.** `NoWaitIsForgotten` and `NoWorkForNobody`. The invariant adds to them that the
engine's flag implies the server's, that the loop has ended only with an empty scheduler and
the server's flag set, and that queue and pool are disjoint. The argument for admission against
the end of the loop is the pair of flags: a handler admits only while the server's is
down, and then the engine's is down too. `GaugeIsExact`: the gauge is the cardinality of `Counted`; a handler enters or leaves
that set in the steps that move the gauge, one at a time, except in `StopServing`, where all that wait leave at
once. `ServiceTypes`: that the gauge is never negative follows, since a cardinality is not; the limits of queue and pool are those of `Batching`, kept by an admission that looks at the length of the queue (`AcceptLimits`) and by an iteration that
promotes no more than the pool has room for (`IterateLimits`).

`SchemaSuffices`: whatever the schema accepts becomes parameters of `ParamType`, the type the denoising
loops assume; and without a `block_length` there is one block, so that `init_state` accepts it.

**OfflineProofs.** `CallsKeepTheirRequests` and `ReturningCallsLeaveNothing`. The invariant adds
that between calls no engine loop exists, that a pending future belongs to a request in the
scheduler (`PendingInSystem`), and that while `clean` holds the scheduler has only requests of the running call: so a call that meets an empty scheduler
meets no dead future either. `DepthComesToRest`: in such a call the gauge is
the length of the queue, or the call has had no result yet, whatever the gauge was when it began, or it is bound to fail (`CleanDepth`, with `CallHasPrompts`); a call that
returns has had one, and leaves the queue empty. `OfflineTypes`.

### Model-checked only

Every safety property and every refinement that a passing run checks is stated by one of the theorems. What stays with TLC is liveness:
`EveryRequestFinishes`, `NoStarvation`, `EveryClientAnswered`, `DrainEndsEngine`, `InterruptExits` and
`CallsEndOnCleanEngine`. Fairness and `ENABLED` are out of the prover's reach, as is induction over data; the modules declare no
`RECURSIVE` operator. `StayIsBounded` is the safety side of `NoStarvation`: a request does not stay while time passes.
That time passes is fairness.

## 6. Not modelled

* The model's forward pass, logits, Gumbel noise and the thresholds of LocalLeap: data.
* `/health`, `/ready`, `/metrics`, `/v1/models`: they read and change nothing. The streaming of an answer that is
  already complete. A second SIGINT, by which uvicorn leaves at once.
* Histograms, which only accumulate. The throughput gauge under the engine loop: `Metrics` takes any sequence of steps.
* The order of `complete()` inside, in `Service`: futures there have no callback that could raise. `Offline` has it, where it matters.
* Several requests of one client over a kept connection: the server keeps no state per client.
* `kv_cache.py`, whose operations nothing calls; `attention.py`, `models/llada.py` beyond its failing,
  `logging_config.py`: no state. Scripts and examples: straight-line clients.
* The reference's guidance, random remasking and EOS suppression, which dlmserve does not have.
* Failing of `denoise()` on one row only, which `step_batch` has no notion of.

## 7. Plan

The order followed: the denoising loops, whose correctness everything else presupposes
(`Sampler`, `DenoiseState`, `Denoise`, `DenoiseLoop`, and their proofs); the scheduler and its
proofs; what it promises (`Batching`); the two users of that
promise, `Service` and `Offline`, and their proofs; then the composition (`Engine`), the published
procedure (`Reference`), the schema (`Protocol`), start-up, threads, faults of calls and the gauges;
then isolation of the rows, the two refinements of the engine, and the bound on a stay.

Next, to prove:

1. That `Service` and `Offline` stay within `Batching`, as behaviours under a mapping of their own; so far they use its actions.
2. A tighter bound on a stay. The work of a batch is done by all its members at once, and the count
   of `WorkAhead` takes one step of one member.
3. The bound of stays in `Engine`, where `d` and `n` are those of its parameters.
