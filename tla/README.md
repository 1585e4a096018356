# Verification of the CLARE2 policy service

`ai-vllm` runs a shared inference stack on one machine whose GPU and CPU share
one memory.  A vLLM server answers inference requests; at night a trainer
fine-tunes LoRA adapters; an image worker edits pictures.  They do not fit
side by side, so a service, `clare2-policy` (`src/clare2/pipeline/app`), lends
the memory out: it shuts a gate in front of inference, drains it, stops vLLM,
starts the trainer or grants an image lease, and later starts vLLM again,
evaluates what was trained and promotes or rejects it.  Around it stand the
jobs that turn captured sessions into a training corpus, the image worker that
the leases are for, and a video segmentation service.  This directory holds
TLA+ models of them, configurations for TLC and proofs for TLAPS.

Line numbers without a path are those of `src/clare2/pipeline/app/lifecycle.py`.

## 1. Inventory

| Component | State | Operations | What makes it correct |
|---|---|---|---|
| lifecycle coordinator (`lifecycle.py`) | `meta/lifecycle.json`; the `single_run` file lock | nightly run, four trainer callbacks, recovery, lease acquire and release, two reconcilers (every minute), rollback, dream start | one tenant of the memory; inference comes back; runs end; verdicts are kept |
| gate and startup (`runtime.py`, `main.py`) | `_enabled`, `_active`; the asyncio server | enter, exit, drain, request; HTTP endpoints; background tasks; startup | no admitted request is cut off; the gate is shut only while somebody owns it |
| registry (`registry.py`) | `registry.json`, replaced atomically under a lock; the adapters' directories | initialize, add, transition, promote, rollback, update | aliases name approved adapters; a verdict is final; what is served is whole and fits the base |
| evaluator (`evaluator.py`) | none | compare candidate and current on probes | scores are compared on equal probes |
| callback authentication (`security.py`) | none | HMAC over a time stamp | a request can be repeated for 300 s |
| admission (`admission.py`) | counts of active and waiting requests, per workload | acquire, release, wait | limits hold; every reservation is returned once |
| proxy and transport (`proxy.py`, `proxy_transport.py`) | a guard and a reservation per request | forward, stream, cancel on disconnect | every way out returns both |
| adapter cache and router (`controller.py`, `routing.py`) | LRU of loaded adapters; live routes | ensure_loaded, unload, reconcile; create_route, get | capacity holds; a pinned adapter stays loaded |
| trainer (`train/entrypoint.sh`, `train.sh`, `train.py`) | container state, corpus hash per project | authorize, train, call back once | trains only while the record says so |
| dream script (`scripts/dream-train.sh`) | its own shell variables | stop services, train, wake, post adapters one by one | leaves the services running |
| lease client (`image-api/resource_lease.py`) | the lease in a request's context | acquire, DELETE | a lease is returned |
| trainer's nights (`train.sh`, `train.py`, `complete_training_batch`) | corpus and hash of each project; the registry's word on the last adapter for a hash | pass over, prepare, train, save, offer, judge | what is passed over was learnt; what is new is judged in the end |
| distiller, corpus, sync (`distiller.py`, `corpus.py`, `corpus_sync.py`) | session files, pattern store, session index, `current.jsonl` | sync, distill, assemble, read for training | nothing lost or doubled by a crash; what is trained is what was hashed |
| summarizer (`summarizer.py`) | daily, weekly, monthly, quarterly files, themes | one run for each period | every day reaches the longer periods |
| image API (`image-api/app.py`, `rpc.py`) | the lease of a request, if `IMAGE_API_EXCLUSIVE_VLLM` asks for one | invoke_edit | every call ends |
| image worker (`qwen-image-edit/api.py`) | tables of progress, previews and cancellations; the pipeline and its lock; a status file and a cache on disk | invoke, progress, preview, cancel; load by sections | a cancel takes effect; an end is an end; the worker comes up and its status is true |
| video segmentation (`sam3-video/api.py`) | session, seeds, masks and checkpoint on disk; lock and cancel flag in memory | create, add seeds, propagate, cancel | no seed is lost; a checkpoint is true |
| parsing, notifications, audit, metrics, MCP, still-image segmentation, spam, monitoring, deployment, tooling | none worth a model (section 6) | | |

How they interact.  Requests pass proxy, admission and gate to vLLM.  The
scheduler (`main.py:98-142`) calls the nightly job and, every minute, both
reconcilers, each in a thread of its own; callbacks are answered first and run
later as background tasks; leases, rollback and the maintenance switch are HTTP
handlers.  All lifecycle operations meet at the `single_run` lock, which fails
at once when it is taken; the reconcilers read the record *before* they take
it, and the maintenance switch does not take it at all.  The containers and the
two JSON documents survive the process; the gate, the background tasks and the
requests do not.  A request's route is resolved before it waits for admission
and its adapter loaded after it, while the lifecycle loads and lists adapters
in a thread of its own.  The corpus is written by day and read by the trainer
hours later, or by a dream run that stops the policy while it may be writing
it.  Trainer and policy each have the base model as .env had it when their
container was created.  Where `IMAGE_API_EXCLUSIVE_VLLM` is set the image API
holds a lease while it waits for the worker, which knows nothing of leases; by
default it is off (`src/README.md:289-298`, `src/docker-compose.yml:347`) and image
edits run beside vLLM.

The hard behaviours follow from this: every container call may fail with or
without effect, callbacks come once or twice or never, reads go stale before
the lock is taken, the process may die between any two writes, files are
rewritten in place, and the recovery itself can fail.  `PROJECT.json` lists
them under "hazards", each at its line, with the properties that watch it.

## 2. Modules

| Module | Models |
|---|---|
| `AdapterRegistry` | the registry document and its mutations, as a value |
| `LifecycleState` | the state of the service, the record, the lock holder, container calls, drain, gate |
| `TrainingRun` | nightly run, trainer container, callbacks, evaluation, recovery, stalled-run reconciler |
| `ImageLease` | acquire, release, expiry, lease clients, lease reconciler |
| `PolicyLifecycle` | composes the two; rollback, maintenance switch, crash, compose cycle, restart; `Spec`, `FairSpec` |
| `DreamTraining` | adds the dream script beside `PolicyLifecycle`; `DreamSpec` |
| `GpuArbiter` | abstract: tenants enter an empty memory and leave it |
| `PolicyProperties` | the properties, and the refinement of `GpuArbiter` |
| `InferenceProxy` | requests in proxy, admission and gate, beside the thread that shuts the gate |
| `MaintenanceGate` | abstract: what the gate promises that thread |
| `AdapterCache` | requests with routes, the cache of vLLM's adapters, beside the lifecycle operations that use it; on the document of `AdapterRegistry` |
| `CorpusPipeline` | a project's sessions on their way to the trainer |
| `SummaryCalendar` | which days, weeks and months the summaries take |
| `TrainingNights` | the trainer night after night, project by project |
| `BaseUpgrade` | the base model is replaced: registry file, adapter directories, containers created before and after; on the document of `AdapterRegistry` |
| `ImageWorker` | image edits from the API to the worker and back, cancels and previews |
| `WorkerLoad` | the start of the image worker, section by section |
| `VideoSessions` | one session of the video worker |
| `MCPolicy`, `MCDream`, `MCProxy`, `MCCache`, `MCCorpus` | small instances and symmetry |
| `MCParts` | `ImageWorker`, `WorkerLoad`, `VideoSessions`, `TrainingNights` and `BaseUpgrade`, one at a time |
| `PolicyTypeProofs`, `PolicyProofs`, `ProxyProofs`, `CacheProofs`, `CorpusProofs`, `ImageProofs` (with `WorkerLoad`), `VideoProofs`, `PartsProofs` (with `TrainingNights`, `BaseUpgrade` and the sum `MCParts`) | theorems and proofs |

`InferenceProxy` and the lifecycle modules meet at the gate.  `LifecycleState`
counts the requests behind it (`Admit`, `Finish`) and lends the memory after
`Drain`, the steps of `MaintenanceGate`; `InferenceProxy` shows that requests
with quotas, a queue and streams are no more than that to the lifecycle.
`AdapterCache` takes from both what concerns adapters: who resolves, loads and
lists when.  `TrainingNights` has the registry's verdicts as outcomes of a
night; how one comes about is `TrainingRun`.  `BaseUpgrade` lets a verdict fall
on any adapter that is registered, which includes what `TrainingRun` decides,
and adds what the other two leave out: the file, the directories, the base.
`ImageWorker` has a lease only as a call that goes on or ends; what a lease
does to vLLM is `ImageLease`.

### State

| Variable | In the code |
|---|---|
| `rec` | `meta/lifecycle.json` (95-98, 959-985); fields nobody decides by are left out; `expires_at` is the flag `expired` |
| `reg` | `registry.json` (`registry.py:41-48`) |
| `job` | who holds `single_run()` (993-1004), where it stands, its local variables |
| `maint`, `inflight` | `MaintenanceState._enabled`, `_active` (`runtime.py:20-64`) |
| `vllm`, `trainer` | container states as `_container` and `_container_state` see them |
| `tasks`, `posted` | background tasks of the callback handlers; every callback answered "accepted" |
| `look` | what the reconcilers read before they take the lock (248-256, 269-284) |
| `clients` | image clients inside `async with image_edit_lease` |
| `serving` | the process: down, starting (inside `startup()`), up |
| `dream` | the dream script's shell variables and its place |
| `spent`, `enabled` | ids already generated; `CLARE2_TRAINING_ENABLED` |

### Steps

An operation that takes the lock is a chain of actions, one for each container
call, each wait, each gate change and each record write after one of them: a
crash, a request, a reconciler or a callback can come between any two.  A
registry write and the record write right after it are one action, since
nothing of the program runs between them but a crash, which `SettledRecord` and
`SettledRegistry` (297-325) handle for the verdicts.  The gate's own operations
are atomic under its condition variable.  Constants say who is present
(`Actors`) and what may fail (`Faults`); `LifecycleState` describes each.  With
an actor absent or a fault excluded, only its own disjunct is disabled.

Abstractions: names, times, scores, HTTP bodies and log lines are left out.
The evaluation's verdict is a free choice, and so are the trainer's report and
Prometheus' answer.  `expires_at` passes at any time.  The outer retry loop of
`acquire_image_edit_lease` (194-209) is a client that asks again.

`DreamTraining` runs the script, whose state is the variable `dream` (idle in
`PolicyLifecycle`).  While it holds the services stopped nothing restarts the
policy.  What the dream's own trainer
container uses is not counted as `trainer`: the two trainers are different
containers.

### Requests

In `InferenceProxy` a request is out, waiting, working (its handler runs) or
streaming (the handler has returned and its generator runs).  `active`,
`byWorkload` and `waiting` are the fields of `AdmissionController`, `enabled`
and `count` those of `MaintenanceState`; `keeper` is where the lifecycle thread
stands.  The handlers share one asyncio loop: what has no await in it is one
step, so the test of the gate (`proxy.py:279`), the reservation and the entry
of a newcomer are one action, and so are a waiter's poll, its reservation and
its entry.  The lifecycle thread can shut the gate between them; the entry then
fails and the reservation is returned (193-203), which in `WaitEnds` costs the
waiter its place and for a newcomer changes nothing.  Deadlines, disconnects,
errors and answers of vLLM all end in the same `finally`, so they are one
action for each stage.  Left out: a stream whose upstream raises when it is
closed (`proxy_transport.py:190-191`), which would keep both counts for ever.

### Adapters

| Variable of `AdapterCache` | In the code |
|---|---|
| `registry` | `registry.json` |
| `pins` | `Router._routes`: whom each live route pins |
| `engine`, `cached` | the adapters vLLM has; `AdapterController._loaded` |
| `loader` | where the thread of the proxy's loop, and the lifecycle's, stands in `ensure_loaded` |
| `stage`, `using` | a request: out, waiting for admission, loading, ready, sent; the route and adapter it resolved |
| `shut`, `life` | the gate; the lifecycle operation, its place and its variables |
| `behind` | history, until the next reconcile: what the cache was not told (vLLM restarted; a drain that timed out; an adapter dropped or loaded by a call whose answer was lost) |
| `condemned` | history: adapters that were marked failed after they were approved |

`ensure_loaded` (`controller.py`) is a chain of steps, one for each time it
takes or gives back the guard and for each call of vLLM: look, choose a victim,
unload it, pop it, load, note.  A load or an unload may fail, or succeed while
its answer is lost; it has then happened by the time the caller gives it up.
The loop runs one handler at a time between awaits, and while it is in
`ensure_loaded` it runs no other; but between the load and the dispatch a
request awaits its body (`ready`), and others, routes and the lifecycle go on.
The lifecycle's `reconcile` reads vLLM's list before the guard and writes the
cache after it.

The lifecycle operation is a lease, a night's training or a rollback, one at a
time under `single_run`.  A training run reports one candidate, which is
registered before vLLM restarts, or a batch, registered one after the other
after it; each is loaded beside the adapter in service, judged, and after a
promotion the cache is rebuilt.  Stopping vLLM, listing its models,
registering, loading and evaluating may fail, and `Recovers` says what follows:
the candidate in flight is failed, promoted or not, and vLLM is listed again,
which may fail as well; then the gate opens over a cache nobody rebuilt.  A
rollback that fails its load or its probe restores the aliases.

### Corpus, summaries and nights

In `CorpusPipeline` a session is a number by which it is ordered by day;
`local` are those synced, `episodes` counts how often the store has a session's
patterns, `index` is `session_index.json` (torn, or a set of sessions),
`current` is `current.jsonl` and `job` is where each thread stands: the
pipeline of the evening, an assembly on its own, the night's training, which
assembles, hashes and reads again, or a dream run.  The last is a script: it
asks for an assembly, which another thread does in the background, waits, and
unless the policy forbids it stops the policy, whatever that is doing, and
trains on the corpus it finds.  Writing a file in place is two steps (truncate
and fill), renaming one is one; a crash comes between any two, and any job may
raise.  Which sessions are found worth keeping is a free choice.  `barren`,
`troubles` and `cut` (dream runs during which a job of the policy was cut off)
are histories.

`SummaryCalendar` has the calendar of the code in numbers (ISO weeks,
`strptime`'s `%W`, months) and `today`, `weekly`, `monthly`, `quarterly` and
`themes`, the files by the keys of their names.  A step is a day.

In `TrainingNights` the content of a corpus is a number, and its hash the same
number; 0 is a corpus that is not there or has fewer records than
`MIN_TRAIN_RECORDS`.  An assembly moves the corpus away, writes parts of it and
ends, or is cut off; what it writes may be an old content again.  `latest` is
the registry's status of the newest adapter of a project for a hash, `night` is
`train.sh`'s loop, `train.py` in it and the verdicts that follow, `unfit` are
the contents that cannot be trained on.  `learnt`, `misread`, `judged` and
`failures` are histories.  Assemblies take their steps between any two of the
trainer's.

### The base model

In `BaseUpgrade` a base is a number, since its fingerprint agrees as a whole or
not.  `deployed` is what .env names, `policyBase` and `trainerBase` what the
containers were created with.  `artifact` is how far an adapter's weights are
written, `manifests` the directories with a `candidate_manifest.json`, and
`madeFor` the `inference_base` in it; `making` is `train.py` at work.  `stored`
is `registry.json`, `pending` the temporary file of `_atomic_write`, so that
the policy can die between the two.  A mutation reads and validates the file
first (`Readable`); `PolicyStarts` is `initialize_registry`, which may take the
new base.  vLLM reads .env too and is left out, see section 6.

### Image and video workers

In `ImageWorker` a call goes from lease to worker to answer: `call` says where
it is, with its id, operation and steps done, `pipe` who has `_pipeline_lock`,
and `progress`, `preview`, `cancelled` are the tables by id, `old` the ids that
the next pruning forgets.  Where a lease is asked for it is granted or ends the
call; the worker is told neither of it nor of a client that has left.  The
callback after a denoising step is three steps (preview, publish, test of the
cancellation), since cancels arrive in another thread.  The worker may die.
The histories `asked`, `late`, `shared` say who was told to stop, how many
steps it began since, and which ids two calls used at a time.

In `WorkerLoad` a start boots, writes its status, looks at the free memory for
each section and loads it after the look, may save the quantized transformer,
says "ready", and only then has its two pipelines assigned, one after the
other.  The container is started again when the process exits.  What a look at
the memory finds is any amount, since a section uses what it uses
(`api.py:527-537` only measures it) and other tenants take and return memory at
any time; the amounts themselves are not modelled.

In `VideoSessions` the files are `seedFile`, `masks` and `checkpoint`, in
memory are `lock` and `cancelling`, and `adding` and `run` are the requests.
Adding seeds reads, truncates and writes; a propagation takes the lock, clears
the flag, writes the masks frame by frame with a look at the flag before each
and rewrites the checkpoint.  A mask is a file of an object and a frame, so two
seeds of one object share it; `spoilt` are those whose last write failed, which
`cv2.imwrite` reports by an answer nobody looks at (`api.py:184`), or was cut
short.  A full disk may leave seeds and checkpoint truncated.  `kept`,
`disturbed`, `notified` are histories.

## 3. Model checking

Run `tlc -config <run>.cfg <module>`; `PROJECT.json` names the module of each
run.  All runs but `proxy`, `cache` and `corpus` set `CHECK_DEADLOCK FALSE`:
ids, days, versions and calls are finite there, so the system legitimately
comes to rest when they are spent.

| Run | Instance | Shows |
|---|---|---|
| `safety` | 1 adapter, 2 runs, 2 leases, 1 request; nightly, leases, reconcilers, rollback, repeats, crashes; all faults but a late trainer | `TypeOK`, `LeaseExcludesInference`, `OneTenant` (refinement of `GpuArbiter`), `DrainedBeforeStop`, `LeaseEndsByItsClient` |
| `gate` | 2 adapters, 2 runs, 2 leases, 1 request; nightly, leases, stalled-run reconciler, repeats; all faults | `GateMatchesPhase` |
| `progress` | 2 adapters, 1 run, 1 lease; `FairSpec` | `TrainingEnds`, `InferenceReturns` |
| `registry` | 2 adapters, 2 runs; dream and nightly runs, rollback, maintenance switch, compose cycles | `AliasesApproved`, `VerdictIsFinal` |
| `proxy` | 6 requests, 2 workloads with quotas 1 and 2, 2 active, 2 waiting; `FairSpec` | `TypeOK`, `CountsMatch`, `EngineBounded`, `GateHolds` (refinement of `MaintenanceGate`), `DrainEnds` |
| `cache` | 3 adapters of which 2 fit, one of them in service, 2 routes, 2 requests, of which 1 waits and 1 has no adapter at a time, 2 lifecycle operations; any failure | `TypeOK`, `CacheBounded`, `SentToLoaded`, `OnlyApprovedServed`, `InUseStays` |
| `corpus` | 2 sessions, 2 jobs (a dream run and its assembly are two), a window of 1 day, 1 crash, jobs that raise | `TypeOK`, `SkippedIsWritten`, `StoredOnce`, `TrainedAsRecorded` |
| `parts`, image edits | 2 calls, 2 ids, 2 denoising steps, 1 crash | `CancelBinds`, `PreviewIsOwn`, `TerminalIsFinal`, `EveryCallEnds` |
| `parts`, worker's start | 3 sections, 2 deaths | `StatusIsTrue`, `ComesUp` |
| `parts`, video session | 2 requests for seeds of 2 objects, 2 propagations, 2 frames, 1 crash | `CheckpointHasMasks`, `SeedsKept`, `ToldStops` |
| `parts`, nights | 2 projects, 2 contents each, of which at most 1 is unfit, 1 assembly of each, 1 chance failure | `SkippedIsLearnt`, `EveryCorpusJudged` |
| `parts`, base | 3 adapters, 2 base models | `ServableFits`, `RegisteredIsWhole` |

`parts` chooses one of five systems that share nothing and runs it while the
others rest; its type invariant `PartsTypeOK` is theirs.

Bounds.  Two runs and two leases let a stale read, a repeated callback or a
postponed run meet a successor; a third adds no new relation, since the record
knows one run and one lease.  Two adapters are what a batch, a promotion that
displaces another and a rollback need.  One request is enough to be cut off
(the gate only counts to zero).  The safety runs identify states up to renaming
of ids; the run with liveness does not.  In `proxy` one quota is below the
engine's limit and one equal to it, so that either can be the one that refuses;
two active, two waiting and two to be turned away make six requests.  In
`cache` the third adapter forces an eviction, two routes pin two adapters or
one, two requests are one that loads and one that has resolved and waits (two
that wait only take turns, and without an adapter they only keep the gate), and
two operations are one that leaves something behind (a promotion, a stale
cache, an adapter nobody knows of) and one that meets it.  In `corpus` two
sessions are one inside the window and one that has left it, and two jobs
overlap; the crash can hit any step, and what it leaves meets every kind of
job.  In `parts` two calls share an id or do not, and the second step is the
one a late cancel must prevent; three sections are one that the cache concerns,
one between and the last; the second death can hit the start after the first;
two frames are one written and one to come when a propagation is cancelled; two
projects are one that blocks or is passed over and one behind it, and two
contents are half a corpus and the whole, or one that was learnt and another
that comes between (the theorem has any number of either); three adapters are
two that the aliases name and a candidate, and two bases are the one they were
made for and the next.

What the runs leave out, and why.  The omitted actor or fault does break the
property, and the code, its comments or README call for it or accept it:

* `safety` without `lateTrainer`: when the start of the trainer raises although
  it started (911-943), `_recover` starts vLLM beside it.
* `safety` without `compose`: `docker compose up` starts every container,
  including a trainer that finds phase `training` (`README.md:497-500`).
* `safety` and `gate` without a disabled nightly job, and `gate` without the
  lease reconciler, rollback and crashes: the findings of section 4, and a
  rollback that reopens the gate while the memory is lent (778-808).
* `registry` without `refresh`: when `controller.reconcile` raises after a
  promotion (501-504), `_recover` marks the adapter that is now current as
  failed (838-840).  Without `crash`: its crashes are those of `compose`.
* `progress` without `docker` (a container call that fails for ever), `crash`
  (draining, starting_training, restarting, loading, evaluating, recovering and
  preparing_training are never left after a restart), `corpus` (an exception of
  `corpus.assemble` leaves preparing_training for ever, 437) and rollback.
  `InferenceReturns` is about vLLM and not about the gate, which finding
  `gate_left_shut` can leave shut.

Fairness (`PolicyLifecycle!Fairness`) is weak, per thread of control: the lock
holder runs on; background tasks are run by the server; vLLM becomes healthy
once started; compose ends up creating the trainer container; a container that
boots and a training end; requests end; a client leaves its `async with`; a
lease's time passes; the scheduler calls each reconciler; a restart policy
brings the process back.  Nobody has to send requests, start operations, repeat
callbacks or fail.  `InferenceProxy!Fairness` is weak for each request: a waiter
polls or meets its deadline (`admission.py:94-102`), a request that is with
vLLM ends, by its answer, `VLLM_TIMEOUT` or its client (a stream has no end but
vLLM's or the client's), and a drain that has succeeded is noticed, since every
leaver notifies the condition.  Nobody has to come, and the gate's opening by
time-out is not counted on.

`ImageFairness` is weak for each call in the worker or before it: its thread
runs on, a lock that is free is taken, a lease is granted or the call ends, and
an inference ends.  Cancels, departures, pruning and crashes are nobody's duty.
`MCParts` asks the same of the worker's start (`LoadGoesOn`: Docker restarts
the container, a section loads) and of the trainer (`NightGoesOn`: a night
comes, and its steps end).  `ComesUp` excepts a quantized cache whose save was
cut short, and `EveryCorpusJudged` a project that cannot be trained on; both
exceptions are the code's, see section 6.  No liveness is claimed of
`AdapterCache`, `CorpusPipeline` and `VideoSessions`.

## 4. Where code and documents disagree

Four runs expect a violation; each checks one statement of the documents.

* `lease_erased`: a nightly job with training disabled resets the record in any
  phase (394-402).  An active lease disappears; its client's DELETE is answered
  `already_released`; vLLM stays stopped and the gate shut.
* `gate_left_shut`: the lease reconciler enters maintenance (251) on a record
  read before the client's own release, and nobody leaves it again.
* `callback_repeated`: only the last completed adapter is remembered (543), so
  the repeated callback of an earlier adapter of a dream run is evaluated again,
  and the approved adapter is rejected or marked failed.
* `weeks_lost`: a weekly summary is written on its Sunday; the monthly run of
  the 1st takes the weeks whose Monday was in the month before
  (`summarizer.py:177-188`).  A week that begins in one month and is written in
  the next has no file on that 1st, and the next run does not take it: it is in
  no monthly summary.  In 2026, when ISO and `%W` weeks differ by one, the
  Monday is read a week off and it is the year's last week that is lost.

Two more were met and have no run of their own.  `registry.rollback()` (785)
raises outside the `try` when there is no rollback alias, after the gate was
shut (780), and nobody opens it.  A run is marked failed by the stalled-run
reconciler although its callback was accepted and waits for its turn (269-294).

## 5. Proofs

TLAPS checks, for every value of the constants:

* `PolicyTypeProofs!TypeCorrect`: `Spec => []TypeOK`.  `TypeOK` is inductive.
  Lemmas state what the shared operators preserve (`GotoType`, `TakeType`,
  `ContainerType`, ...), then one lemma per group of actions has a step per
  action.  Assumption: `ConstantsOK`.
* `PolicyProofs!DrainedTheorem`: `Spec => DrainedBeforeStop` when nobody works
  the maintenance switch by hand.  The property speaks of the step that stops
  vLLM; what makes it true is that the gate has been shut since the drain
  began.  The inductive invariant `DrainInv` says so: `ShutWhileDraining` (the
  gate is shut in the places "drain" and "stop"), `DrainedAtStop` (nothing is
  in flight in "stop"), `NobodyWhileDown` (a dead process holds no lock, task
  or look, so a restart, which opens the gate, surprises nobody).
  `WhoStopsVllm` then says that only an operation in "stop" stops vLLM.
* `PolicyProofs!LeaseExclusive`: `Spec => []LeaseExcludesInference` unless
  compose recreates the containers.  The inductive invariant `LendInv` adds
  what the lock holder may do meanwhile: `OnlyRollbackMeetsLease` (beside a
  lease only a rollback can hold the lock), `StoppedWhileWaiting` (an acquire
  that waits for memory has stopped vLLM) and `KindFitsPlace`.
* `PolicyProofs!LeaseEndsTheorem`: `Spec => LeaseEndsByItsClient`, without
  compose and with training enabled if the nightly job runs.  The reconciler
  acts on a record it read without the lock, so `HeldInv` says what such a
  reading is worth: a lease that was seen to have run out has run out still, if
  it is the one in the record (`SeenLateIsLate`), and is not the one being
  acquired (`AcquiredUnseen`), because ids are not generated twice
  (`LeasesSpent`); and a restart has no outcome to settle (`LeaseUnsettled`).
* `PolicyProofs!GateMatchesTheorem`: `Spec => []GateMatchesPhase` for the actors
  of run `gate` (all but rollback, the switch, the lease reconciler, crashes and
  compose).  `AccordInv` names the places of the operations in which the gate is
  shut and those in which it is open, that a night which has not reached the
  trainer has lent nothing, and that the record carries no outcome of an earlier
  run while the memory is lent.
* `PolicyProofs!AliasesTheorem`, `VerdictTheorem`: `DreamSpec` implies
  `[]AliasesApproved` and `VerdictIsFinal` unless a controller's refresh fails
  or a callback is repeated (finding `callback_repeated`).  `VerdictInv`: an
  adapter that waits for its verdict is new and in one place only (`FreshInv`:
  a background task, the lock holder's batch or the dream script), what the
  lock holder judges is a candidate and what it marks failed is unjudged
  (`JudgeInv`), and what a rollback would restore was approved.
* `PolicyProofs!OneTenantTheorem`: `Spec => OneTenant`, that is, the policy
  implements `GpuArbiter` with `users <- GpuUsers`, when compose does not start
  containers and a failed start of the trainer has not started it (the fault
  `lateTrainer`, which section 3 treats).  `OneMoves` says that a step moves one
  tenant at most, and in only when nobody else is there; `OneMovesIsTurn` that
  such a step is one of the arbiter's.  What makes every step one is `TurnInv`:
  vLLM is stopped and nobody but a rollback has the lock while a trainer runs
  (`RunningTrainer`), which its callbacks could break; so the run in the record
  is one nothing was heard of yet (`NightIsNew`), its ids are not generated
  twice (`RunsKnown`), the record says so before the trainer starts
  (`RecordedBeforeLaunch`), and vLLM was stopped before that
  (`StoppedForTrainer`).
* `ProxyProofs!ProxyTypeCorrect`, `CountsTheorem`, `BoundTheorem`,
  `GateTheorem`: `Spec` implies `[]TypeOK`, `[]CountsMatch`, `[]EngineBounded`
  and `GateHolds`.  The inductive invariant `ProxyInv` adds two things to the
  counts: `WithinLimits` (the limits hold of the counters) and `KeptShut` (the
  gate is shut while somebody keeps it, and nobody is inside once the drain has
  been reported).  The argument is about finite sets: a request that moves
  makes the sets it enters larger by one and those it leaves smaller by one
  (`MovedSets`, `OneMore`), so each counter follows its set (`CountsIn`,
  `CountsOut`) and the `max(0, ...)` of `release` is never needed.  Assumption:
  `ProxyConstantsOK` (finitely many requests at a time, limits that are natural
  numbers).

* `CacheProofs`: `CacheTypeCorrect`, `BoundedTheorem`, `SentTheorem`,
  `ApprovedTheorem`, `InUseTheorem` (`AdapterCache!Spec` implies each property
  of run `cache`).  Capacity is tested under the guard and the load comes after
  it, so the limit depends on who may load at once: `OrderInv` says that the
  lifecycle loads only behind a shut gate with nobody inside, unless a drain
  timed out, that it then is the only loader, and where its variables agree
  with its place.  On it stand `SizeInv` (cache, plus the one being loaded,
  within the limit, and vLLM has no more than the cache knows of or was told to
  load) and `HeldInv` (what is cached is loaded, when the cache was told
  everything, but for what is being evicted).  `ServedInv`: what a route or a
  request names was approved and is so still, or was condemned.  `UseInv`: a
  request that has resolved a route is pinned by it, so that what it uses is no
  victim; it holds even beside a recovery that loads while undrained requests
  stream, since that asks for the pins too.  Assumption: `CacheConstantsOK`.
* `CorpusProofs`: `CorpusTypeCorrect`, `SkippedTheorem`, `OnceTheorem`.
  `SkipInv` follows a session through a job: what it calls done has patterns in
  the store, or is still in its hands, or had none; what it will index has them
  in the store.  `OnceInv` says, of a store that was never disturbed, that what
  is stored is indexed or about to be.  `TrainedTheorem`: what the trainer
  reads is the corpus the manifest describes, and its sessions are the newest
  of the store, `Window` of them when older ones were left out; a dream run
  whose assembly was cut off reads what it hashed, but that may be half a
  corpus.  While a dream run trains no job of the policy is at work, and
  without overlap one job and the assembly a dream run asked for are all there
  are: of each of its steps the invariant says what it has collected and what
  the file holds.  The counting is in `WindowIsFull`: a window one wider takes
  one session more while any is left out (`NextNewest`), so there is no least
  window that is not full.  Assumption: `CorpusConstantsOK`.
* `ImageProofs`: `CancelTheorem`, `PreviewTheorem`, `FinalTheorem`,
  `ImageTypeCorrect`; and of the worker's start `StatusTheorem`,
  `LoadTypeCorrect`.  `ToldInv`: a call that was told has its id among the
  cancelled, and a step begun late is its last.  `OwnInv`: the tables of an id
  no two calls share are its call's.  `StatusInv`: what the status file may say
  at each place of the start, and which pipelines there are.  Assumptions:
  `ImageConstantsOK`, `LoadConstantsOK`.
* `VideoProofs`: `VideoTypeCorrect`, `CheckpointTheorem`, `ToldTheorem`,
  `SeedsTheorem`.  `MaskInv`: of the frames behind the one a propagation stands
  at, each mask was written or its last write failed; nothing takes a file out
  of both sets.  The theorem supposes nothing about which seeds name one object;
  the run gives each its own.  `LockInv` and `ToldRunInv`: one propagation is
  active, and if it was told to stop the flag is up or it is past the last look.
  `SeedInv`: a request that writes alone has read what was kept.  Assumption:
  `VideoConstantsOK`.
* `PartsProofs`, of the nights: `NightTypeCorrect`, `SkippedNightTheorem`.
  `KnownContent`: a content that was read undisturbed is the one that was
  hashed.  `LearntInv`: if an adapter for a hash was approved, its content was
  learnt, or its corpus rewritten between hash and reading (`misread`).  Nothing
  is supposed about how contents follow each other.  Assumption:
  `NightConstantsOK`.
* `PartsProofs`, of the base: `BaseTypeCorrect`, `ServableTheorem`,
  `WholeTheorem`, all from one inductive invariant, `BaseInv`.  `ManifestsInv`:
  a manifest stands in a directory with all its weights, and nobody is at work
  there.  `FitsBase(d)`: what a document lists or names has a manifest, and what
  it serves was made for its base.  `FitsBase` must hold of the temporary file
  as well as of the stored one, or it would not survive the replacement.  Every
  mutation but two leaves base, list and served set as they are or smaller
  (`Narrows`); the two are a registration, which compares the bases first, and
  the change of the base, which happens when nothing is served.  Nothing is
  supposed about statuses: the invariant holds with aliases of failed adapters.
  Assumption: `BaseConstantsOK` (null is no adapter; there is a base).
* `PartsProofs`, of the sum: `SumOfParts` shows that a behaviour of `MCSpec` is
  one of each of the five specifications, so the run `parts` loses nothing by
  exploring them together and every theorem about one of them is a theorem
  about the sum; `PartsTypeCorrect` is the first such.

Every safety property of the passing runs, invariant or action property, is
stated by a theorem.  Only model-checked are `TrainingEnds`, `InferenceReturns`,
`DrainEnds`, `EveryCallEnds`, `ComesUp` and `EveryCorpusJudged`, since liveness
under fairness is beyond the prover.  `EveryWeekCounted` fails.

## 6. Not modelled

What the models assume or leave out of the code they translate:

* A lease restarts vLLM and does not tell the adapter cache, and a recovery may
  fail before it reconciles and open the gate (841-849); the cache then claims
  adapters vLLM has lost until the next reconcile.  A drain that times out lets
  a recovery list and load beside requests, and an eviction or load whose answer
  is lost leaves the cache with an adapter too many or too few.  `AdapterCache`
  models all of it; `SentToLoaded` and `CacheBounded` except that time
  (`behind`).
* When the cache cannot be rebuilt right after a promotion (501-504), the
  recovery marks the promoted adapter failed (838-840), although routes may name
  it already.  `AdapterCache` models it; `OnlyApprovedServed` excepts those
  adapters (`condemned`).
* `AdapterCache` leaves out the end of the policy's own process, after which an
  empty cache meets a vLLM that has adapters; a rollback during a lease or a
  training run, which the lifecycle modules have; and writes of the two JSON
  documents that fail.
* A project that cannot be trained on ends the whole night: `train.py` raises
  and `train.sh:183` reports the run failed and exits, so that the adapters of
  the projects before it are never offered, night after night
  (`lifecycle.py:615-616` promises for the evaluation that "one project's
  outcome never blocks another's").  `TrainingNights` models it;
  `EveryCorpusJudged` excepts it.
* A corpus that is rewritten after its hash was taken and before it is read is
  trained on under the other's hash, and may later be passed over as known
  (`train.py:174`).  `TrainingNights` models it; `SkippedIsLearnt` excepts it
  (`misread`).  `CorpusPipeline` shows when it can happen: only beside another
  job (`TrainedAsRecorded`).
* A dream run whose assembly raised or was not over when it stopped the policy
  trains on half a corpus, or an old one.  `CorpusPipeline` models it;
  `TrainedAsRecorded` excepts it (`cut`), but not from being what was hashed.
* A crash between append and index, a torn index and overlapping jobs make the
  distiller store patterns twice; `StoredOnce` is about undisturbed jobs.
* A session that grows after it was processed is not distilled again: sessions
  are whole in `CorpusPipeline`.  Themes do not change there, and the second
  snapshot of a day is the first.  That every session is distilled in the end
  is not checked.
* An image id that is cancelled after its end was forgotten stays cancelled,
  and its next use is refused with 409 until the id is pruned again.  An edit
  of strength 0 leaves the preview of an earlier call.  A worker whose client
  or lease has left computes on, beside vLLM, as every edit does where
  `IMAGE_API_EXCLUSIVE_VLLM` is off; `ImageWorker` has no lease and claims
  nothing of it.  The status `cancel_requested` can be overwritten by
  `running`; `CancelBinds` holds all the same, since the set of the cancelled
  is asked, not the status.
* `_set_progress_stage` prunes and writes under two takings of the lock, which
  are one step here.  The worker's outpainting cannot be reached by
  `/v1/invoke` and is left out.
* The amounts of memory of the worker's start: a section may use more than the
  gate asked for, above all when the transformer is quantized afresh
  (`src/README.md:223-231`), so no property says that the margin stays free.
* A mask whose write failed is in the checkpoint all the same (`cv2.imwrite`
  answers False, `sam3-video/api.py:184`); `CheckpointHasMasks` says that each
  frame was come to, and counts a failed write as such.  Two requests for seeds
  at once forget one of them; `SeedsKept` excepts it (`disturbed`).
* A quantized cache whose save was cut short keeps the worker from starting
  until somebody removes it; `ComesUp` excepts it.
* A stream whose upstream raises when it is closed (`proxy_transport.py:190`).
* As long as an adapter of the old base is a candidate, approved or named by an
  alias, the registry keeps the old base and refuses every candidate made for
  the new one, while vLLM, recreated, serves the new one; nothing in the code
  settles that (`registry.py:236-248`).  `BaseUpgrade` leaves vLLM out, so
  `ServableFits` is about the registry's base.
* Promotion by an operator (`main.py:298-306`), which succeeds for no adapter
  the service has: a candidate has no evaluation to promote it with, and what
  has one is no longer a candidate.
* `drain_and_stop_infer` and `start_training` of the lifecycle, which nobody
  calls; its read-only endpoints; the evaluator's arithmetic; signatures.

Components without a model: parsing of model output, the still-image
segmentation worker, the local LLM client, the MCP server and the spam
classifier are stateless; notifications, audit log and metrics are written and
never read back by an operation (Prometheus' answer is a free choice);
monitoring, deployment and tooling are configuration and clients' scripts, and
what they decide (restart policies, health checks, environment) appears as
actions and as fairness.
