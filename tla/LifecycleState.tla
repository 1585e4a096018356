--------------------------- MODULE LifecycleState ---------------------------
(***************************************************************************)
(* What the lifecycle of clare2-policy (clare2/pipeline/app/lifecycle.py)  *)
(* reads and writes, and the calls its operations share: the persisted     *)
(* record, the single_run lock, the maintenance gate in front of inference,*)
(* the vLLM container.                                                     *)
(*                                                                         *)
(* At most one lifecycle operation holds the single_run file lock.  It is  *)
(* "job": its kind, the place it has reached ("at") and its arguments.     *)
(* Each container call, each wait and each write of the record after one   *)
(* is a step of its own, so that a crash or another thread can fall        *)
(* between any two of them; a registry write and the record write that     *)
(* follows it at once are one step.                                        *)
(***************************************************************************)
EXTENDS FiniteSets, AdapterRegistry

CONSTANTS
  Runs,             \* training run ids the policy can generate
  Leases,           \* image-edit lease ids it can generate
  Requests,         \* inference requests that may be in flight together
  TrainingEnabled,  \* the values CLARE2_TRAINING_ENABLED is given
  Actors,           \* who is present: see AllActors
  Faults            \* which calls may fail: see AllFaults

AllActors == {"nightly", "lease", "leaseReconciler", "stalledReconciler",
              "rollback", "operator", "duplicate", "crash", "compose"}

\* "docker": a container call raises, its effect happened or not; "health":
\* vLLM misses START_TIMEOUT; "drain": a request outlives DRAIN_TIMEOUT;
\* "memory": the image worker's memory never becomes free; "corpus":
\* corpus.assemble or the container lookup after it raises; "probe": loading
\* or probing an adapter raises; "refresh": controller.reconcile raises;
\* "manifest": a trained adapter does not register; "post": a callback's or
\* a client's HTTP call is lost; "trainer": the trainer dies without calling
\* back; "lateTrainer": starting the trainer raises although it started.
AllFaults == {"docker", "health", "drain", "memory", "corpus", "probe",
              "refresh", "manifest", "post", "trainer", "lateTrainer"}

ASSUME ConstantsOK ==
  /\ TrainingEnabled \subseteq BOOLEAN
  /\ Actors \subseteq AllActors
  /\ Faults \subseteq AllFaults
  /\ None \notin Runs \cup Leases
  /\ Runs \cap Adapters = {}
  /\ IsFiniteSet(Requests)

VARIABLES
  rec,       \* the persisted lifecycle record, meta/lifecycle.json
  reg,       \* the adapter registry
  job,       \* the operation inside single_run()
  maint,     \* MaintenanceState._enabled
  inflight,  \* the requests counted by MaintenanceState._active
  vllm,      \* the vLLM container
  trainer,   \* the nightly trainer container and the run it works for
  tasks,     \* callbacks answered "accepted", waiting as background tasks
  posted,    \* every callback ever answered "accepted"
  look,      \* what the two reconcilers read before taking the lock
  clients,   \* leases image clients hold and have not tried to release
  serving,   \* the policy process: "down", "starting" or "up"
  spent,     \* run, lease and adapter ids already generated
  enabled,   \* the containers' CLARE2_TRAINING_ENABLED
  dream      \* the dream training script, which only DreamTraining runs

\* What the lock holder writes, and what its steps seldom touch.
core == <<rec, reg, job, maint, vllm>>
mail == <<tasks, posted>>
world == <<clients, serving, spent, enabled, dream>>
edge == <<inflight, trainer, mail, look, world>>

vars == <<core, edge>>

-----------------------------------------------------------------------------
(***************************************************************************)
(* The persisted record.                                                   *)
(***************************************************************************)
Phases == {"idle", "postponed", "preparing_training",
           "waiting_for_training_container", "draining", "starting_training",
           "training", "restarting", "loading", "evaluating", "recovering",
           "failed", "image_edit"}

TerminalOutcomes == {"promoted", "rejected", "skipped_no_eligible_corpus",
                     "disabled_by_operator", "batch_complete"}

Records ==
  [phase     : Phases,
   outcome   : TerminalOutcomes \cup {"none", "failed"},
   run       : Runs \cup {None},
   cand      : Adapters \cup {None},         \* candidate_id
   rejected  : SUBSET (Adapters \cup {None}), \* batch_results: rejections
   doneId    : Adapters \cup Runs \cup {None}, \* completed_adapter_id; a run
                                             \* stands for "skipped:<run>"
   doneRun   : Runs \cup {None},             \* completed_run_id
   lease     : Leases \cup {None},
   expired   : BOOLEAN,                      \* expires_at has passed
   requested : BOOLEAN]                      \* trainer_start_requested

\* What _set_state(phase, reset=True) leaves apart from the given fields.
Blank(p) ==
  [phase |-> p, outcome |-> "none", run |-> None, cand |-> None,
   rejected |-> {}, doneId |-> None, doneRun |-> None, lease |-> None,
   expired |-> FALSE, requested |-> FALSE]

LeaseRecord(l, late) ==
  [Blank("image_edit") EXCEPT !.lease = l, !.expired = late]

\* reconcile_terminal_state: the record, and the registry it may correct.
SettledRecord ==
  IF rec.outcome \in TerminalOutcomes /\ rec.phase \notin {"idle", "failed"}
  THEN [rec EXCEPT !.phase = "idle"]
  ELSE rec

SettledRegistry ==
  LET refused == IF rec.outcome = "rejected" THEN {rec.cand}
                 ELSE IF rec.outcome = "batch_complete" THEN rec.rejected ELSE {}
  IN TransitionAll(reg, {a \in refused \cap Adapters : reg.status[a] = "candidate"},
                   "rejected")

-----------------------------------------------------------------------------
(***************************************************************************)
(* The lock holder.                                                        *)
(***************************************************************************)
Kinds == {"nightly", "acquire", "release", "done", "batch", "skipped",
          "failure", "rollback", "dream"}

Places == {"sense", "prepare", "enter", "drain", "stop", "memory", "request",
           "launch", "launched", "start", "wait", "load", "evaluate", "decide",
           "refresh", "finish", "reopen", "swap", "verify", "restore", "undo",
           "undoStart", "undoWait", "undoExit", "undoFailed", "recover",
           "recoverStart", "recoverWait", "recoverExit", "recoverFailed", "none"}

Jobs ==
  [kind     : Kinds \cup {"free"},
   at       : Places,
   run      : Runs \cup {None},
   lease    : Leases \cup {None},
   cand     : Adapters \cup {None},   \* the adapter in flight
   todo     : SUBSET Adapters,        \* adapters of the callback still to do
   rejected : SUBSET (Adapters \cup {None}),
   outcome  : TerminalOutcomes \cup {"none"},
   prior    : [current : Adapters \cup {None}, rollback : Adapters \cup {None}]]

FreeJob ==
  [kind |-> "free", at |-> "none", run |-> None, lease |-> None, cand |-> None,
   todo |-> {}, rejected |-> {}, outcome |-> "none",
   prior |-> [current |-> None, rollback |-> None]]

Free == job.kind = "free"
Working == serving # "down"

\* The lock is taken by an operation of kind k that next stands at s.
Take(k, s) == [FreeJob EXCEPT !.kind = k, !.at = s]

At(k, s) == job.kind = k /\ job.at = s
Goto(s) == job' = [job EXCEPT !.at = s]
Leave == job' = FreeJob

Fails(f) == f \in Faults
Present(a) == a \in Actors

-----------------------------------------------------------------------------
(***************************************************************************)
(* Containers and requests.                                                *)
(***************************************************************************)
Started == IF vllm = "stopped" THEN "starting" ELSE vllm

\* _container("start"/"stop", VLLM_CONTAINER) leaves vLLM as v; a call that
\* raises (a 30 s timeout, an error answer) may have had its effect.
Container(v, ok, bad) ==
  \/ vllm' = v /\ Goto(ok)
  \/ Fails("docker") /\ vllm' \in {vllm, v} /\ Goto(bad)

\* _wait_for_vllm: polled until healthy or until START_TIMEOUT.
Await(ok, bad) ==
  \/ vllm = "healthy" /\ Goto(ok)
  \/ Fails("health") /\ vllm # "healthy" /\ Goto(bad)

\* A bug the runs must detect: the answer of wait_for_drain is not looked at.
DrainUnchecked(ok, bad) ==
  \/ inflight = {} /\ Goto(ok)
  \/ Fails("drain") /\ inflight # {} /\ Goto(ok)

\* maintenance.wait_for_drain(DRAIN_TIMEOUT).
Drain(ok, bad) ==
  \/ inflight = {} /\ Goto(ok)
  \/ Fails("drain") /\ inflight # {} /\ Goto(bad)

VllmBecomesHealthy ==
  /\ vllm = "starting"
  /\ vllm' = "healthy"
  /\ UNCHANGED <<rec, reg, job, maint, edge>>

\* MaintenanceState.request(): the gate is tested and the request counted
\* under one condition variable.
Admit(q) ==
  /\ serving = "up"
  /\ ~maint
  /\ q \notin inflight
  /\ inflight' = inflight \cup {q}
  /\ UNCHANGED <<core, trainer, mail, look, world>>

Finish(q) ==
  /\ q \in inflight
  /\ inflight' = inflight \ {q}
  /\ UNCHANGED <<core, trainer, mail, look, world>>

\* maintenance.exit of every operation that succeeds.
Reopens ==
  /\ job.at = "reopen"
  /\ maint' = FALSE
  /\ IF job.kind \in {"done", "rollback"} THEN Leave ELSE Goto("finish")
  /\ UNCHANGED <<rec, reg, vllm, edge>>

-----------------------------------------------------------------------------
(***************************************************************************)
(* What the two reconcilers remember of a record read without the lock:    *)
(* the lease, whether it had expired, whether maintenance was entered      *)
(* since; the training run.                                                *)
(***************************************************************************)
Looks == [lease : Leases \cup {None}, late : BOOLEAN, entered : BOOLEAN,
          run : Runs \cup {None}]

Unlooked == [lease |-> None, late |-> FALSE, entered |-> FALSE, run |-> None]

-----------------------------------------------------------------------------
(***************************************************************************)
(* The dream training script: its place, its run, the adapters it still    *)
(* has to post, the one whose outcome it awaits, whether training broke.   *)
(***************************************************************************)
Dreams ==
  [at : {"off", "asked", "stop", "asleep", "train", "wake", "report", "await"},
   run : Runs \cup {None}, todo : SUBSET Adapters, cand : Adapters \cup {None},
   broken : BOOLEAN]

NoDream == [at |-> "off", run |-> None, todo |-> {}, cand |-> None, broken |-> FALSE]

\* docker compose stop took the policy and vLLM down; nothing restarts them.
Asleep == dream.at \in {"asleep", "train", "wake"}
=============================================================================
