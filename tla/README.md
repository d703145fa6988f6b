# A TLA+ verification of the Babel L0 draft engine

The repository runs speech recognition ("transcribe"), text formatting
("draft") and voice enhancement ("enhance") for a transcription dashboard. It
has two servers: a *coordinator* that clients talk to and that delegates each
request to an official backend or to a volunteer's browser, and the *trusted
engine*, which is what an official backend runs. This directory holds TLA+
models of their concurrent cores, of how they spend a request's time and of how
audio becomes rows, TLC runs on small instances, and TLAPS proofs for every value
of the constants.

    tlc  -config Enhancement.cfg MCEnhancement      # any run of the table below
    tlapm Enhancement_proofs.tla                    # any proof module

## 1. Inventory

### Coordinator (`coordinator.py`, `enhancement.py`): one asyncio process

| part | state | operations |
|---|---|---|
| jobs and leases | `workers`, `jobs`, `by_request_id`, `waiting` (deque), `completed` (ordered, expiring), `inflight`, the lease fields of `Worker` and `Job`, `Job.result`, `Job.leased` | `prune`, `enqueue`, `queue_for_swarm`, `release`, `fail`, `finish`, `status`; handlers `register`, `lease`, `complete`; owners `draft`, `transcribe`, `run_job` |
| official backends | throughput averages, `Job.backend_url` | `_backend_request`, `ordered_backends`, `official_deadline` |
| timing cache | files `<digest>.json`, their mtimes, temporary files | `get`, `put`, `_rotate` |
| single flight | `timing_flights` | `transcribe`, `lookup`, `draft` around `run_job` |
| enhancement | the temporary directory, `io_lock`, `io_task`, `progress`, `output_paths` | `enhance` with `prepare_response` and `cleanup`, `run_enhancement`, `job_audio`, multipart `complete`, `progress`, `EnhancementResponse` |

### Trusted engine: an asyncio process with worker threads

| part | state | operations |
|---|---|---|
| inference queue (`inference_queue.py`) | `_running`, `_waiting`, `_active`, `_completed`, `_progress` | `register`, `abandon`, `complete`, `update_progress`, `status` |
| handlers (`app.py`) | the admission gate's `_inflight`, one thread per inference | `transcribe`, `draft`, `enhance`, `queue_status` |
| model residency (`engine.py`) | `_active_sessions`, idle timer and generation, `_closed`, the loaded models, state lock and GPU lock | `model_session`, `_evict_idle_models`, `_unload_models`, `close` |
| browser RPC (`browser_engine.py`) | the child process, its response queue, `_prepared`, `_closed`, a reentrant lock | `_start`, `_call`, `prepare`, `transcribe`, `draft`, `enhance`, `_stop`, `close` |
| audio pipeline (`pipeline.py`, `engine.py`) | none between requests but what the client brings back: the tokens and segments of a lane | `segment_track`, `_transcribe_lane`, `_group_rows`, `draft` |
| models (`gigaam_asr.py`, `production_text.py`, `l2.py`) | their weights | numerical |

### How they interact

A client's request enters the coordinator and becomes an *owner* coroutine with
a `Job`. The owner asks the official backends over HTTP one after the other
(each of them a trusted engine) and then offers the job to the swarm:
volunteers poll `/lease`, download audio, report progress and `/complete`. Owners
and the handlers of volunteers share the registries and run between each other's
awaits. Timing goes through a disk cache and is joined while under way. In the
trusted engine a handler goes through the admission gate, a model session, the
inference queue, and hands its work to a thread, which cannot be cancelled; idle
timers are threads too. `create_app` chooses between two engines: `DraftEngine`
runs the models itself, `BrowserDraftEngine` writes each operation to a child
process and waits for the line that answers it. A draft is a request of its own:
the tokens that transcribe answered come back from the cache, in the order they
were sent in.

### What is hard

Every await is a place where a client hangs up, a lease expires or somebody else
runs; results race timeouts; cleanup races transfers; threads outlive their
cancelled handlers; timers that are due race their cancellation; the coordinator
may die inside `put`; a child process may die between its preflight and its work,
and its last words may be read after its successor's first; a deadline is divided,
and what was divided is divided again. `hazards` in PROJECT.json lists the places,
line by line, with the properties that watch each.

## 2. Modules, and how they correspond to the code

| module | what it is |
|---|---|
| `Coordinator` | state and methods of class `Coordinator`, as operators |
| `SwarmJobs` | draft and transcribe owners, volunteers and time, on `Coordinator` |
| `LeaseBoard` | abstract: what the coordinator promises about a job |
| `InferenceQueue` | state and methods of class `InferenceQueue`, as operators |
| `TrustedEngine` | the three handlers of `app.py` and their threads |
| `TurnLine` | abstract: one line, one worker at its head, nobody overtakes |
| `ModelResidency` | sessions, timers, eviction and `close` of `DraftEngine` |
| `TimingCache` | the cache directory and its methods, with crashes |
| `TimingFlight` | uploads, lookups and drafts around cache and flights |
| `Enhancement` | one enhancement request from admission to cleanup |
| `BrowserRpc` | class `BrowserDraftEngine` and its child process |
| `Engines` | either engine behind the app, `ModelResidency` or `BrowserRpc`, sharing `_closed` and `close` |
| `OfficialFailover` | one request's time: officials, reserve, swarm, deadline |
| `DraftRows` | audio to segments, segments to words, words to rows |
| `MC...` | the small instances TLC checks |
| `..._proofs`, `CollectionLemmas` | theorems; shared lemmas about least elements, sums over finite sets and queues without repetitions |

Names are the source's where TLA+ allows it. An action is what runs between two
awaits (or, in a thread, between two lock operations), with every call it makes.
`map` in PROJECT.json gives the lines of each definition. The operators marked
*mutant* in the modules are plausible bugs of one definition each; no
specification uses them, they show that each property can fail.

Notable choices:

* **Time** is measured only in `OfficialFailover` and, per call, in `BrowserRpc`.
  Elsewhere, wherever the code arms a timeout, the model lets it
  fire at any moment; a completed ID's expiry and a volunteer's age are counters
  and classes. A volunteer's age has three values (polled just now, quiet, old
  enough for `prune`): the code's 45 s of `worker_idle_seconds` exceed the 3 s of
  `RECENT_WORKER_POLL_SECONDS`, so nothing in between is told apart.
* **Throughput** averages are classes from 0 ("not measured") to `MaxSpeed`.
* **Event loop.** What a thread posts with `call_soon_threadsafe` arrives in the
  order it was posted, so a thread's return is seen after its updates.
* **TimingCache**: the order of mtimes is the order of the calls. `put` is one
  step unless the process dies in it, when what the steps so far left on disk
  remains and a new process starts, perhaps with `require_current_release`
  changed. Deleting the old-format files at the start is left out.
* **ModelResidency**: any request may have the GPU lock in its turn; the queue
  that serialises them is `TrustedEngine`, so contention is a superset.
* **Enhancement**: an offered job is taken by some volunteer, the matching being
  that of `SwarmJobs`; request IDs come in as an `enqueue` that may refuse. A
  transfer's validation is a step that may fail in each way the code tells
  apart (401/403/404 keep the lease, all else ends it). Files are absent, in
  part or whole. Shutting the server down in the middle of `cleanup` is left out.
* **BrowserRpc**: a method runs under the lock, in steps from one wait to the next.
  Writing a request is such a wait (`Call` up to it, `Written`, `WriteFails`): it
  goes on once the process has read enough, fails when that ends or closes its
  stdin, and may never end. Any request may block, though in practice only one that
  exceeds the pipe's buffer does, such as the timing sent with a draft.
  `left` counts the ticks of a call down to its deadline, and `queue.get` with no
  time left is `Timeout`. A message is whose request it answers and what it
  claims: progress, error or result; a result that a check refuses (`Breach`,
  `Fails`) is told apart by what it costs, the process or only the answer. The
  process may die, close its stdin (then the next write raises), fall silent or
  send any message of a request it was given; it does not guess IDs it never got.
  Its end is one more line in the queue, and its output ends with it. `checked` and
  `proved` are history. Each caller calls once. `_enhancement` is set and cleared
  with `_prepared` and is left out, as is `health`, which only reads.
* **OfficialFailover**: ticks of any length, counted from the admission; the code's
  halves and quotients are compared after multiplying both sides. A coroutine
  wakes in the tick its timeout is due: an event loop that is late would pass
  every deadline by as much. Transcribe and draft have no health check, and the
  model lets any attempt begin with one or without.
* **DraftRows**: a frame is loud or not (`value >= threshold`), a time is a number
  of samples, a word is its span. Frames of which the last is short, bridging,
  bursts, boundaries, padding and the order of the tokens are the code's. The text
  the formatter makes of a row is "spoken"; the rounding of floats is ignored.
  The segmentation audio and the recognised audio have one length, as ffmpeg's
  `apad` and `atrim` see to. `sorted` is `Sorted`, which places each member by the
  number of those before it: unlike the library's `SortSeq`, which is built into
  TLC, it has a definition to reason from.

## 3. Runs

| run | instance | asks |
|---|---|---|
| `swarm_leases` | 2 owners, 2 volunteers of different size, 1 backend | leases, queue and results agree; implements `LeaseBoard`; every registered owner is answered, no volunteer held for ever |
| `swarm_ids` | 3 owners, 2 with the same ID, 1 volunteer, 2 slots, 1 remembered ID | the gate counts exactly; the ID registries never disagree |
| `trusted_engine` | 4 requests of 3 kinds, 2 with the same ID, 3 slots | inferences never overlap; implements `TurnLine`; every ticket is served |
| `engines` | in process: 3 requests, 2 models, timers, repeated `close`; in a browser: startup, 2 callers (one takes progress), 3 processes, 2 unread lines, deadline of 2 | models leave only when unused, after a whole idle period, and do leave; answers are one's own, work goes to proved processes, no process is forgotten, the lock comes back unless a living process never reads |
| `residency_close` | 2 requests | *violation*, finding 1 |
| `timing_flight` | 4 uploads of a task (one with other audio, one with another capability), a lookup, records of 1, 2 and 4 bytes in a cache of 2, crashes | privacy, one transcription at a time, who waits has a leader and is answered, no replacement, the limit, what was handed out had been stored |
| `timing_enforced`, `timing_disk` | 2 and 3 requests | *violations*, findings 2 and 3 |
| `enhancement` | 2 owners, 1 slot, a download and 2 uploads | directory, lock, answer, result, progress, slot |
| `enhancement_fallback` | the same | *violation*, finding 4 |
| `official_failover` | 3 backends; 23 ticks, of which 2 for the queue, 6 for a lease; attempts of 4, health checks of 2, bodies up to 2 late | every backend keeps its share, the swarm its reserve, the owner its deadline |
| `draft_rows` | 7 frames of 2 samples, the last cut to 1; bridge 1, minimum 2, silence 2 frames, padding 3 samples; all 128 patterns | no speech between segments, no word lost or doubled, preserved rows have theirs |

`timing_flight` has the uploads r1, r2 and r4 of one task and capability (r4 with
other audio, r2 with a record too large for the cache), the lookup r3, and r5 of
the same task with another capability, whose record fills the cache, so that
either key's record pushes the other's out.

**Why the bounds are enough to meet the cases.** Two owners and two volunteers
are what deferral to a faster volunteer, a job too large for one of them, and a
queue with two entries need. Three owners on two slots with a repeated ID fill
the gate and refuse a duplicate while the original is active and after; one
remembered completion makes `prune` drop by number as well as by age. Four
requests at the engine's gate give a runner, a line of two and one turned away.
Two uploads and a download meet at one `io_lock`: a holder, a waiter, and cleanup
in between or behind. `MaxInflight = 1` there makes the second owner wait for the
first one's slot, with transfers of the first still on their way. `MaxUpdates`,
`MaxChunks` and `MaxGeneration` bound updates in flight, chunks per track and
timer generations; the theorems below hold for every value of them.

Three child processes allow one that proved itself, one that replaced it, and one
more after that was stopped; two unread lines and the end of the output allow an
answer behind an answer and both behind a death. A deadline of two ticks has a
middle in which progress may come. In `official_failover` 23 - 8 is odd, 15 does
not divide by 3, and the body may arrive at any of 25 ticks, so the reserve is
whole, cut in half, odd, and gone. Seven frames hold two segments with a long
silence between, a bridged gap in one of them and a burst; a padding of three
samples reaches over a boundary; two words per segment may nest, abut, or end
outside it.

Deadlock is not checked: each request is sent once, and all of them may be done.

**Fairness** is assumed only where the code provides it.

* `SwarmJobs`: every await of a registered owner is under a timeout, so the
  owner moves on (`OwnerProceeds`). Nothing is assumed of volunteers, of
  backends, or of an owner still uploading, whose body is read without a timeout.
* `TrustedEngine`: the event loop runs what is ready, and a thread's inference
  ends. For the browser runtime this takes, beyond its RPC deadline, that the
  worker reads what is written to it (see `BrowserRpc`).
* `ModelResidency`: timers elapse, and a lock that is free is got.
* `BrowserRpc`: time passes (`Tick`), and the holder of the lock goes on where it
  need not wait, also past a deadline (`HolderGoesOn`). Nothing is assumed of the
  child process. Every wait for a response has the call's absolute deadline; the
  write of the request (`browser_engine.py:74-75`) has none, so no fairness is
  assumed of `Written`, and `LockComesBack` names what is left: the lock comes back
  again and again, or from some moment on a process that lives is not taking in the
  request being written to it. Without that exception TLC finds the holder stuck
  in the write, its deadline past.
* `TimingFlight`: a leader ends, as `run_job` ends by its deadlines, and a waiter
  whose future is set wakes. A waiter's own timeout is *not* assumed.
  `WaitersAnswered` says that nobody waits from some moment on; with each request
  sent once this is that each waiter is answered.
* `Enhancement`: the request's time limit (`asyncio.wait_for` around
  `prepare_response`) cuts slow uploads, backends and volunteers; cancellations
  arrive; a free lock is granted. Nothing is assumed of a volunteer's transfer,
  which may stall for ever, nor of how fast an owner reads its answer: so
  `SlotReturned` leads to an answer being streamed, or the end.

## 4. Proofs

All theorems are for any sets and bounds that satisfy the named assumptions of
the modules (finite sets of requests, `NoOne`/`Nobody` not among them, positive
limits). Each follows from one inductive invariant per subsystem.

Sums, sorted sequences, runs of frames and the bisection are recursive data. The
provers cannot use the library's induction theorems, which take an operator as a
parameter; `CollectionLemmas` argues by a least counterexample instead: a set of
naturals, or of subsets of a finite set, that is not empty has a least or minimal
member (`LeastNatural`, `MinimalSubset`), because `<` and strict inclusion are
well-founded. Every statement so proved is about the set of arguments that
violate it, and its least member is refuted.

* **`SwarmJobs_proofs`.** The checked invariants are not inductive: an action's
  guard reads where the owner is, the promise is about the job. `JobStages` ties
  the owner's place to `leased`, `result`, `phase` and the lease; with it types,
  gate, registries, `LeaseMutual`, the parts of `JobInOnePlace` and
  `LeaseEndsWithAnswer` are inductive together, and every step
  maps to a step or a stutter of `LeaseBoard` (`Refinement`). `DeferralHasTaker`
  needs of it only the types and that whoever waits is live: of finitely many idle
  workers that suit a job one is the fastest (`FastestWorker`, over the speeds), and
  that one does not defer it.
* **`TrustedEngine_proofs`.** `LineShape`: the line has no repetitions, its
  members have not been told, and a handler's place says whether its thread
  exists. Then `OneInference`, `TurnHasOwner`, `IdsDistinct`, `ProgressIsOwn`,
  `SlotsExact` (the parts of `GateInHands` and `StatusOfOne`) and the refinement
  of `TurnLine`.
* **`TimingFlight_proofs`.** `RecordsOwn`, `FlightsLed`, `LeadersShape`, `Fresh`,
  `WaitersShape`, `AnswersOwn`: a record belongs to its key, a flight to the
  request that leads it, a waiter to a flight of its own key and input. Privacy,
  one transcription at a time, that a record is never replaced and that what is
  handed out had been stored (`HandedOutIsStored`) follow. `DiskBounded`: the
  bytes of the cache are a sum over its files, which drops with every file
  `_rotate` takes from the old end, so it stops within the budget or with nothing
  left, and a record that fits by itself is not what it takes after storing it
  (`RotateFits`, `RotateKeepsNewest`).
* **`Enhancement_proofs`.** `OwnerShape` and `LeaseShape` say which places of the
  owner, its task and the lease go together; `TransferShape`, that a transfer at
  work has the lock and is `io_task`, and is cancelled once cleanup waits;
  `FileShape`, what the two files are worth at each place. The heart is that the
  checks after the awaits (the second and third `authorized_job`) keep
  `result = pending` under a live lease, so that whoever writes, or sets the
  result, finds neither a finished pair nor a decided future.
* **`Engines_proofs`.** The app has one engine or the other; what they share is
  `closed`. The invariant is that of `ModelResidency`, that of `BrowserRpc`
  (`RpcInv`), and that the engine not chosen stays as it started, so both are
  theorems of the composition. In the former, `TimerShape`: only the latest timer
  counts, only while there is no session, and one that is due is of an older
  generation; and `LockShape`: who unloads found no session and lets none start.
  In `RpcInv`, `PipeOwn`: the queue of the present process holds only what answers
  requests written to it, because a new process comes with a new queue;
  `ReadyShape`: whoever is about to ask for work has found this very process
  prepared, so another can have taken its place only if it died. These, with
  types, `WorkOnProved` and `NoneLeftBehind`, are inductive.
* **`OfficialFailover_proofs`.** By pure arithmetic from `queue_seconds +
  lease_seconds < request_timeout_seconds`: at the start of each attempt the
  backends still to be tried have their full part of the official time, which is
  at least half of what there was; an attempt that keeps its share leaves the
  others theirs (`Fair`), and all attempts together end by the official deadline.
* **`DraftRows_proofs`.** `NothingLost` for any lanes, loudness, limits, answers
  of the recogniser and rows of the client. The invariant is short: the segments
  of a lane are those of its loud frames, each word was heard within one of them,
  and the rows of an answer are the sorted `SegmentRows` or the `RowOf` what was
  asked. The work is in the operators. `RankedEnumerates`: places by rank are an
  enumeration in order. `RunsMeet`, `SpokenIsActive`: runs of frames are disjoint,
  and smoothing drops nothing that lasts. `BoundariesDivide`, `PaddedHolds`,
  `SegmentsApart`: boundaries cut the audio without gaps, a segment's padding
  stays between its boundaries, so segments hold all active frames and never
  overlap. `BisectFinds`: on ordered midpoints `bisect_left` returns the place
  that separates the smaller from the rest, so that `WordsOfSpan` gives a row
  exactly the words whose middle it contains, and each word of a segment to that
  segment's row alone (`OwnWords`, `WordHasRow`). `Unnested` is a premise only of
  what is said about preserved rows.

**Only proved.** Two facts have a theorem and no run: that idle models always
have a timer or a closed engine on its way to them (`IdleModelsWatched`; the run
checks that they go, `IdleModelsGo`), and that a volunteer's progress never goes
back (`ProgressAdvances`).

**Only model-checked.** Liveness, because the provers do not reason about fairness:
`EveryOwnerAnswered`, `EveryLeaseEnds`, `EveryTicketServed`, `IdleModelsGo`,
`LockComesBack`, `WaitersAnswered`, `SlotReturned`. Every other property of a
passing run is a theorem.

## 5. Findings

1. `residency_close`: `DraftEngine.close` promises to let accepted work finish,
   but the session an accepted request's inference opens is refused once
   `close` was called (`engine.py:109`), and the request fails.
2. `timing_enforced`: a record cached before `require_current_release` was
   switched on may lack labels; `lookup` and `draft` then answer 404
   (`coordinator.py:1351`), and a new upload gets the same record from the cache.
3. `timing_disk`: a crash between writing and renaming leaves a temporary file
   that `_rotate` never counts or removes (`coordinator.py:432`).
4. `enhancement_fallback`: an official attempt cut off after it moved its files
   into the request's directory (`coordinator.py:842-849`) leaves them there; the
   volunteer's `open("xb")` then fails and the owner gets a 503 although a
   fallback had done the work.

Read, or tried while modelling, and not among the runs:

* The README says cache records are "version-2" (`src/README.md:130`), the code
  writes version 3 (`coordinator.py:404`).
* `_stop` closes the child's stdin first (`browser_engine.py:197`); after a broken
  pipe that flushes again and raises out of `_call`'s handler, so the caller sees
  a 500 where a 503 was meant, and the process is not waited for (`StopDeaf`).
  `NoneLeftBehind` therefore speaks of processes that still listen.
* `_call` looks at its deadline only after the request is written and flushed
  (`browser_engine.py:74-80`). A worker that lives but does not read, and a request
  larger than the pipe's buffer, keep `_lock` for ever, with later callers and
  `close` behind it; the inference queue, one at a time, waits with them.
  `LockComesBack` shows that nothing else keeps it.
* A transcript or draft that its schema refuses (`browser_engine.py:126`, `:139`)
  raises a validation error that is no `ModelUnavailableError`, unlike enhance's.
* `health` reads `_prepared` and twice `_process` without the lock
  (`browser_engine.py:185`): between `_stop` and `_start` of another thread it may
  fail on `None`, or call a process ready that has proved nothing yet.
* Preserved rows: transcribe sends the tokens sorted by their start
  (`engine.py:556`), draft bisects them by midpoint (`engine.py:374`). If the
  recogniser puts one word inside another, the midpoints are out of order and a
  preserved row may miss a word. `PreservedHaveTheirs` therefore assumes
  `Unnested`, and TLC finds the lost word without it; the rows of segments are not
  affected (`WordsInOneRow` has no such premise).

## 6. What is not modelled

* Decoding and denoising by ffmpeg, loudness and its threshold, the windows in
  which `gigaam_asr.py` reads a segment, and the neural models: numerical code.
* `BrowserDraftEngine.health` and the enhancement model it reports.
* Schemas, configuration, release middleware, entry points and scripts: stateless
  checks of data and process start.
* External systems (backends over HTTP, asyncio, threading, the file system) as
  the code uses them; `map` marks such definitions as external.

## 7. Plan

Done, in this order: (1) `Coordinator`, `SwarmJobs`, `LeaseBoard`; (2)
`InferenceQueue`, `TrustedEngine`, `TurnLine`; (3) `ModelResidency`; (4)
`TimingCache`, `TimingFlight`; (5) `Enhancement`; (6) `BrowserRpc` and, with
`ModelResidency`, `Engines`; (7) `OfficialFailover`; each with its proofs; (8)
`DraftRows`.

What could follow:

9. Composition: `Enhancement` with the worker registry of `Coordinator`, so that
   lease matching and enhancement are checked together; an abstract
   specification for `Enhancement` in the manner of `LeaseBoard`.
10. `health` of the browser engine as a second reader beside the lock.
11. Proofs: what an abstract specification for `Enhancement` would add, its
    refinement.
