---------------------------- MODULE TrainingRun -----------------------------
(***************************************************************************)
(* A training run: the nightly job that prepares it and lends the GPU to   *)
(* the trainer container, the trainer and its callbacks, the evaluation    *)
(* and promotion of what it trained, the recovery from any failure, and    *)
(* the reconciler that notices a trainer gone without a word.              *)
(***************************************************************************)
EXTENDS LifecycleState

-----------------------------------------------------------------------------
(***************************************************************************)
(* run_nightly_training.                                                   *)
(***************************************************************************)
\* With training disabled the record is rewritten whatever the phase is.
NightlyDisabled ==
  /\ Present("nightly") /\ Working /\ Free
  /\ ~enabled
  /\ \E r \in Runs \ spent :
       /\ rec' = [Blank("idle") EXCEPT !.run = r,
                                      !.outcome = "disabled_by_operator"]
       /\ spent' = spent \cup {r}
  /\ UNCHANGED <<reg, job, maint, vllm, inflight, trainer, mail, look, clients,
                 serving, enabled, dream>>

NightlyStarts ==
  /\ Present("nightly") /\ Working /\ Free
  /\ enabled
  /\ SettledRecord.phase \in {"postponed", "idle", "failed"}
  /\ reg' = SettledRegistry
  /\ IF SettledRecord.phase = "postponed"
     THEN /\ job' = [Take("nightly", "sense") EXCEPT !.run = rec.run]
          /\ UNCHANGED <<rec, spent>>
     ELSE \E r \in Runs \ spent :
            /\ rec' = [Blank("idle") EXCEPT !.run = r]
            /\ job' = [Take("nightly", "sense") EXCEPT !.run = r]
            /\ spent' = spent \cup {r}
  /\ UNCHANGED <<maint, vllm, inflight, trainer, mail, look, clients, serving,
                 enabled, dream>>

\* Prometheus reports running inference (or none); a failed query is retried.
NightlySenses ==
  /\ At("nightly", "sense")
  /\ \/ rec' = [rec EXCEPT !.phase = "postponed"] /\ UNCHANGED job
     \/ rec' = [rec EXCEPT !.phase = "preparing_training"] /\ Goto("prepare")
  /\ UNCHANGED <<reg, maint, vllm, edge>>

\* corpus.assemble and _wait_for_training_container run outside any handler:
\* when they raise, the lock is released and the record stays as it is.
NightlyPrepares ==
  /\ At("nightly", "prepare")
  /\ \/ /\ Fails("corpus") /\ Leave /\ UNCHANGED rec
     \/ /\ trainer.at = "absent"
        /\ rec' = [rec EXCEPT !.phase = "waiting_for_training_container"]
        /\ UNCHANGED job
     \/ /\ trainer.at # "absent"
        /\ rec' = [rec EXCEPT !.phase = "draining"]
        /\ Goto("enter")
  /\ UNCHANGED <<reg, maint, vllm, edge>>

NightlyEnters ==
  /\ At("nightly", "enter")
  /\ maint' = TRUE
  /\ Goto("drain")
  /\ UNCHANGED <<rec, reg, vllm, edge>>

NightlyDrains ==
  /\ At("nightly", "drain")
  /\ Drain("stop", "recover")
  /\ UNCHANGED <<rec, reg, maint, vllm, edge>>

NightlyStops ==
  /\ At("nightly", "stop")
  /\ Container("stopped", "request", "recover")
  /\ UNCHANGED <<rec, reg, maint, edge>>

\* _start_training_container: ask, start, confirm; a 404 asks again.
NightlyRequests ==
  /\ At("nightly", "request")
  /\ rec' = [rec EXCEPT !.phase = "starting_training", !.requested = TRUE]
  /\ Goto("launch")
  /\ UNCHANGED <<reg, maint, vllm, edge>>

TrainerRunning == trainer.at \in {"booting", "training"}

\* Docker answers 304 when the container already runs.
TrainerStarted ==
  IF TrainerRunning THEN trainer ELSE [trainer EXCEPT !.at = "booting"]

NightlyLaunches ==
  /\ At("nightly", "launch")
  /\ \/ /\ trainer.at = "absent"
        /\ rec' = [rec EXCEPT !.phase = "waiting_for_training_container"]
        /\ Goto("request")
        /\ UNCHANGED trainer
     \/ /\ trainer.at # "absent"
        /\ trainer' = TrainerStarted
        /\ Goto("launched") \/ (Fails("lateTrainer") /\ Goto("recover"))
        /\ UNCHANGED rec
     \/ /\ Fails("docker")
        /\ Goto("recover")
        /\ UNCHANGED <<rec, trainer>>
  /\ UNCHANGED <<reg, maint, vllm, inflight, mail, look, world>>

NightlyConfirms ==
  /\ At("nightly", "launched")
  /\ rec' = [rec EXCEPT !.phase = "training", !.requested = TRUE]
  /\ Leave
  /\ UNCHANGED <<reg, maint, vllm, edge>>

-----------------------------------------------------------------------------
(***************************************************************************)
(* The trainer container (clare2/train) and its callbacks.                 *)
(***************************************************************************)
Messages ==
  [kind : {"done", "batch", "skipped", "failed"}, run : Runs \cup {None},
   adapters : SUBSET Adapters]

\* The answer "already_completed" of the /training/* handlers, which is also
\* the first test of the operation they schedule.
AlreadyDone(m) ==
  CASE m.kind = "done"    -> rec.doneId \in m.adapters
    [] m.kind = "batch"   -> rec.doneRun = m.run
    [] m.kind = "skipped" -> rec.doneId = m.run
    [] m.kind = "failed"  -> rec.run = m.run /\ rec.phase = "failed"

\* A callback request reaches the policy: answered and scheduled.
Accept(m) ==
  /\ serving = "up"
  /\ IF AlreadyDone(m)
     THEN UNCHANGED <<tasks, posted>>
     ELSE tasks' = tasks \cup {m} /\ posted' = posted \cup {m}

\* Compose finishes creating the container, or takes a stopped one away.
TrainerCreated ==
  /\ trainer.at = "absent"
  /\ trainer' = [trainer EXCEPT !.at = "created"]
  /\ UNCHANGED <<core, inflight, mail, look, world>>

TrainerRemoved ==
  /\ Present("compose")
  /\ trainer.at \in {"created", "exited"}
  /\ trainer' = [trainer EXCEPT !.at = "absent"]
  /\ UNCHANGED <<core, inflight, mail, look, world>>

\* entrypoint.sh authorizes itself from the record, then train.sh reads run_id.
TrainerBoots ==
  /\ trainer.at = "booting"
  /\ trainer' = IF /\ enabled /\ rec.requested
                   /\ rec.phase \in {"starting_training", "training"}
                THEN [at |-> "training", run |-> rec.run]
                ELSE [at |-> "exited", run |-> None]
  /\ UNCHANGED <<core, inflight, mail, look, world>>

\* What one run of train.sh may report: every project unchanged, the adapters
\* of all projects trained, or the one whose training failed.  Adapter ids
\* carry a time stamp: they are new.
Reports ==
  {[kind |-> "skipped", run |-> trainer.run, adapters |-> {}]}
  \cup {[kind |-> "batch", run |-> trainer.run, adapters |-> A] :
          A \in SUBSET (Adapters \ spent) \ {{}}}
  \cup {[kind |-> "failed", run |-> trainer.run, adapters |-> {a}] :
          a \in Adapters \ spent}

\* A single curl: if it does not get through nobody repeats it.
TrainerReports(m) ==
  /\ trainer.at = "training"
  /\ m \in Reports
  /\ spent' = spent \cup m.adapters
  /\ trainer' = [at |-> "exited", run |-> None]
  /\ \/ Accept(m)
     \/ (Fails("post") \/ serving # "up") /\ UNCHANGED <<tasks, posted>>
  /\ UNCHANGED <<core, inflight, look, clients, serving, enabled, dream>>

TrainerDies ==
  /\ Fails("trainer")
  /\ trainer.at = "training"
  /\ trainer' = [at |-> "exited", run |-> None]
  /\ UNCHANGED <<core, inflight, mail, look, world>>

\* A signed request repeated inside its 300 s window.
CallbackRepeated(m) ==
  /\ Present("duplicate")
  /\ m \in posted
  /\ Accept(m)
  /\ UNCHANGED <<core, inflight, trainer, look, world>>

-----------------------------------------------------------------------------
(***************************************************************************)
(* The callbacks' operations: complete_training ("done"), its batch form,  *)
(* complete_training_skipped and report_training_failure.                  *)
(***************************************************************************)
Matches(r) == rec.run = r /\ rec.phase \in {"training", "idle"}

\* The task finds the lock taken, its work done or another run active.  The
\* exception ends in the server's log: the callback is gone.
CallbackDropped(m) ==
  /\ m \in tasks
  /\ ~Free \/ AlreadyDone(m) \/ ~Matches(m.run)
  /\ tasks' = tasks \ {m}
  /\ UNCHANGED <<core, inflight, trainer, posted, look, world>>

CallbackApplies(m, k) ==
  /\ m \in tasks /\ m.kind = k
  /\ Free /\ ~AlreadyDone(m) /\ Matches(m.run)
  /\ tasks' = tasks \ {m}
  /\ UNCHANGED <<maint, vllm, inflight, trainer, posted, look, world>>

FailureReported(m) ==
  /\ CallbackApplies(m, "failed")
  /\ \E a \in IF m.adapters = {} THEN {None} ELSE m.adapters :
       job' = [Take("failure", "recover") EXCEPT !.run = m.run, !.cand = a]
  /\ UNCHANGED <<rec, reg>>

SkipReported(m) ==
  /\ CallbackApplies(m, "skipped")
  /\ rec' = [rec EXCEPT !.phase = "restarting", !.requested = FALSE]
  /\ job' = [Take("skipped", "start") EXCEPT !.run = m.run]
  /\ UNCHANGED reg

BatchReported(m) ==
  /\ CallbackApplies(m, "batch")
  /\ rec' = [rec EXCEPT !.phase = "restarting", !.requested = FALSE]
  /\ job' = [Take("batch", "start") EXCEPT !.run = m.run, !.todo = m.adapters]
  /\ UNCHANGED reg

Registered(a) == IF a \in Known(reg) THEN reg ELSE AddAdapter(reg, a)

DoneReported(m) ==
  /\ CallbackApplies(m, "done")
  /\ \E a \in m.adapters :
       \/ /\ reg' = Registered(a)
          /\ rec' = [rec EXCEPT !.phase = "restarting", !.cand = a,
                                !.requested = FALSE]
          /\ job' = [Take("done", "start") EXCEPT !.run = m.run, !.cand = a]
       \/ /\ Fails("manifest")
          /\ job' = [Take("done", "recover") EXCEPT !.run = m.run, !.cand = a]
          /\ UNCHANGED <<rec, reg>>

Completing == job.kind \in {"done", "batch", "skipped"}

CallbackStartsVllm ==
  /\ Completing /\ job.at = "start"
  /\ Container(Started, "wait", "recover")
  /\ UNCHANGED <<rec, reg, maint, edge>>

\* Healthy again; then controller.reconcile, which may raise.
CallbackAwaitsVllm ==
  /\ Completing /\ job.at = "wait"
  /\ \/ Await(IF job.kind = "skipped" THEN "reopen" ELSE "load", "recover")
     \/ Fails("refresh") /\ vllm = "healthy" /\ Goto("recover")
  /\ UNCHANGED <<rec, reg, maint, vllm, edge>>

\* A bug the runs must detect: in_flight_adapter_id is assigned only after the
\* adapter is registered.
CandidateChosenLate ==
  /\ At("batch", "load")
  /\ job.todo # {}
  /\ \E a \in job.todo :
       \/ /\ reg' = Registered(a)
          /\ rec' = [rec EXCEPT !.phase = "loading", !.cand = a]
          /\ job' = [job EXCEPT !.at = "evaluate", !.cand = a, !.todo = @ \ {a}]
       \/ /\ Fails("manifest")
          /\ Goto("recover")
          /\ UNCHANGED <<rec, reg>>
  /\ UNCHANGED <<maint, vllm, edge>>

\* _complete_one_candidate takes the next adapter of a batch.
CandidateChosen ==
  /\ At("batch", "load")
  /\ job.todo # {}
  /\ \E a \in job.todo :
       \/ /\ reg' = Registered(a)
          /\ rec' = [rec EXCEPT !.phase = "loading", !.cand = a]
          /\ job' = [job EXCEPT !.at = "evaluate", !.cand = a, !.todo = @ \ {a}]
       \/ /\ Fails("manifest")
          /\ job' = [job EXCEPT !.at = "recover", !.cand = a, !.todo = @ \ {a}]
          /\ UNCHANGED <<rec, reg>>
  /\ UNCHANGED <<maint, vllm, edge>>

CandidateLoads ==
  /\ At("done", "load")
  /\ rec' = [rec EXCEPT !.phase = "loading", !.cand = job.cand]
  /\ Goto("evaluate")
  /\ UNCHANGED <<reg, maint, vllm, edge>>

\* ensure_loaded of the current adapter and of the candidate.
CandidateEvaluates ==
  /\ Completing /\ job.at = "evaluate"
  /\ \/ /\ rec' = [rec EXCEPT !.phase = "evaluating"]
        /\ Goto("decide")
     \/ /\ \/ Fails("probe")
           \/ ~Loadable(reg, job.cand)
           \/ reg.current # None /\ ~Loadable(reg, reg.current)
        /\ Goto("recover")
        /\ UNCHANGED rec
  /\ UNCHANGED <<reg, maint, vllm, edge>>

\* Where an operation goes once its candidate has a verdict.
AfterVerdict ==
  IF job.kind = "done" THEN "finish"
  ELSE IF job.todo = {} THEN "reopen" ELSE "load"

CandidateRejected ==
  /\ Completing /\ job.at = "decide"
  /\ reg' = Transition(reg, job.cand, "rejected")
  /\ job' = [job EXCEPT !.at = AfterVerdict, !.outcome = "rejected",
                        !.rejected = @ \cup {job.cand}]
  /\ UNCHANGED <<rec, maint, vllm, edge>>

\* registry.promote, which raises unless the adapter is still a candidate.
CandidatePromoted ==
  /\ Completing /\ job.at = "decide"
  /\ IF MayPromote(reg, job.cand)
     THEN reg' = Promote(reg, job.cand) /\ Goto("refresh")
     ELSE UNCHANGED reg /\ Goto("recover")
  /\ UNCHANGED <<rec, maint, vllm, edge>>

CandidateRaises ==
  /\ Completing /\ job.at = "decide"
  /\ Fails("probe")
  /\ Goto("recover")
  /\ UNCHANGED <<rec, reg, maint, vllm, edge>>

\* controller.reconcile after the promotion.
ControllerRefreshes ==
  /\ Completing /\ job.at = "refresh"
  /\ \/ job' = [job EXCEPT !.at = AfterVerdict, !.outcome = "promoted"]
     \/ Fails("refresh") /\ Goto("recover")
  /\ UNCHANGED <<rec, reg, maint, vllm, edge>>

\* The final record.  complete_training writes it before it leaves
\* maintenance, the others after.
DoneFinishes ==
  /\ At("done", "finish")
  /\ rec' = [rec EXCEPT !.phase = "idle", !.cand = job.cand, !.doneId = job.cand,
                        !.outcome = job.outcome]
  /\ Goto("reopen")
  /\ UNCHANGED <<reg, maint, vllm, edge>>

BatchFinishes ==
  /\ At("batch", "finish")
  /\ rec' = [rec EXCEPT !.phase = "idle", !.doneRun = job.run,
                        !.outcome = "batch_complete", !.rejected = job.rejected]
  /\ Leave
  /\ UNCHANGED <<reg, maint, vllm, edge>>

SkipFinishes ==
  /\ At("skipped", "finish")
  /\ rec' = [rec EXCEPT !.phase = "idle", !.doneId = job.run,
                        !.outcome = "skipped_no_eligible_corpus"]
  /\ Leave
  /\ UNCHANGED <<reg, maint, vllm, edge>>

-----------------------------------------------------------------------------
(***************************************************************************)
(* _recover, entered by every failing operation of a training run.         *)
(***************************************************************************)
Recovers ==
  /\ job.at = "recover"
  /\ rec' = [rec EXCEPT !.phase = "recovering", !.run = job.run,
                        !.cand = job.cand, !.requested = FALSE]
  /\ Goto("recoverStart")
  /\ UNCHANGED <<reg, maint, vllm, edge>>

\* The adapter in flight, if it is registered, is marked failed.
RecoveryStartsVllm ==
  /\ job.at = "recoverStart"
  /\ reg' = TransitionAll(reg, {job.cand} \cap Known(reg), "failed")
  /\ Container(Started, "recoverWait", "recoverExit")
  /\ UNCHANGED <<rec, maint, edge>>

\* Whatever the wait and the reload of the current adapter come to, the
\* finally clause follows.
RecoveryAwaitsVllm ==
  /\ job.at = "recoverWait"
  /\ Await("recoverExit", "recoverExit")
  /\ UNCHANGED <<rec, reg, maint, vllm, edge>>

\* A bug the runs must detect: the finally clause does not exit maintenance.
RecoveryStaysShut ==
  /\ job.at = "recoverExit"
  /\ Goto("recoverFailed")
  /\ UNCHANGED <<rec, reg, maint, vllm, edge>>

RecoveryReopens ==
  /\ job.at = "recoverExit"
  /\ maint' = FALSE
  /\ Goto("recoverFailed")
  /\ UNCHANGED <<rec, reg, vllm, edge>>

\* A bug the runs must detect: a phase that PHASES does not list.
RecoveryRecordsUnknown ==
  /\ job.at = "recoverFailed"
  /\ rec' = [rec EXCEPT !.phase = "recovered", !.outcome = "failed",
                        !.run = job.run, !.cand = job.cand]
  /\ Leave
  /\ UNCHANGED <<reg, maint, vllm, edge>>

RecoveryRecords ==
  /\ job.at = "recoverFailed"
  /\ rec' = [rec EXCEPT !.phase = "failed", !.outcome = "failed",
                        !.run = job.run, !.cand = job.cand]
  /\ Leave
  /\ UNCHANGED <<reg, maint, vllm, edge>>

-----------------------------------------------------------------------------
(***************************************************************************)
(* reconcile_stalled_training runs every minute: it reads the record       *)
(* without the lock and acts on what it read.                              *)
(***************************************************************************)
\* reconcile_stalled_training: read ...
StalledReconcilerReads ==
  /\ Present("stalledReconciler") /\ Working
  /\ look.run = None
  /\ rec.phase = "training"
  /\ look' = [look EXCEPT !.run = rec.run]
  /\ UNCHANGED <<core, inflight, trainer, mail, world>>

\* Bugs the runs must detect: a running container counts as stalled; a stopped
\* one does not.
StalledReconcilerHasty ==
  /\ look.run # None
  /\ look' = [look EXCEPT !.run = None]
  /\ IF Free /\ Matches(look.run)
     THEN job' = [Take("failure", "recover") EXCEPT !.run = look.run]
     ELSE UNCHANGED job
  /\ UNCHANGED <<rec, reg, maint, vllm, inflight, trainer, mail, world>>

StalledReconcilerBlind ==
  /\ look.run # None
  /\ look' = [look EXCEPT !.run = None]
  /\ UNCHANGED <<core, inflight, trainer, mail, world>>

\* ... inspect the container, and report the run failed if it stopped.
StalledReconcilerActs ==
  /\ look.run # None
  /\ look' = [look EXCEPT !.run = None]
  /\ IF /\ trainer.at \in {"created", "exited"}
        /\ Free /\ Matches(look.run)
     THEN job' = [Take("failure", "recover") EXCEPT !.run = look.run]
     ELSE UNCHANGED job
  /\ UNCHANGED <<rec, reg, maint, vllm, inflight, trainer, mail, world>>
=============================================================================
