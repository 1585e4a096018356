-------------------------- MODULE PolicyLifecycle ---------------------------
(***************************************************************************)
(* The lifecycle coordinator of clare2-policy: training runs and image     *)
(* leases under one lock, the operator's rollback and maintenance switch,  *)
(* crashes and restarts of the process, and inference requests beside it   *)
(* all.                                                                    *)
(***************************************************************************)
EXTENDS TrainingRun, ImageLease

-----------------------------------------------------------------------------
(***************************************************************************)
(* The operator's rollback.  It asks for the lock, not for the phase.      *)
(***************************************************************************)
RollbackStarts ==
  /\ Present("rollback") /\ serving = "up" /\ Free
  /\ maint' = TRUE
  /\ job' = Take("rollback", "drain")
  /\ UNCHANGED <<rec, reg, vllm, edge>>

RollbackDrains ==
  /\ At("rollback", "drain")
  /\ Drain("swap", "reopen")
  /\ UNCHANGED <<rec, reg, maint, vllm, edge>>

\* registry.rollback stands outside the try block: when it raises, the
\* operation ends here, in maintenance.
RollbackSwaps ==
  /\ At("rollback", "swap")
  /\ IF MayRollback(reg)
     THEN /\ reg' = Rollback(reg)
          /\ job' = [job EXCEPT !.at = "verify",
                       !.prior = [current |-> reg.current,
                                  rollback |-> reg.rollback]]
     ELSE Leave /\ UNCHANGED reg
  /\ UNCHANGED <<rec, maint, vllm, edge>>

\* ensure_loaded and the smoke request; both need a healthy vLLM.
RollbackVerifies ==
  /\ At("rollback", "verify")
  /\ \/ vllm = "healthy" /\ Goto("reopen")
     \/ /\ Fails("probe") \/ vllm # "healthy" \/ ~Loadable(reg, reg.current)
        /\ Goto("restore")
  /\ UNCHANGED <<rec, reg, maint, vllm, edge>>

RollbackRestores ==
  /\ At("rollback", "restore")
  /\ reg' = [reg EXCEPT !.current = job.prior.current,
                        !.rollback = job.prior.rollback]
  /\ Goto("reopen")
  /\ UNCHANGED <<rec, maint, vllm, edge>>

\* POST /operator/maintenance/{enter|exit} writes the flag the lifecycle uses.
OperatorSwitches ==
  /\ Present("operator")
  /\ serving = "up"
  /\ maint' = ~maint
  /\ UNCHANGED <<rec, reg, job, vllm, edge>>

-----------------------------------------------------------------------------
(***************************************************************************)
(* The policy process dies and comes back; the record, the registry and    *)
(* the containers outlive it, the maintenance flag does not.               *)
(***************************************************************************)
ProcessGone ==
  /\ serving' = "down"
  /\ job' = FreeJob
  /\ maint' = FALSE
  /\ inflight' = {}
  /\ tasks' = {}
  /\ look' = Unlooked
  /\ UNCHANGED <<rec, reg, posted, clients, spent>>

Crash ==
  /\ Present("crash") /\ Working
  /\ ProcessGone
  /\ UNCHANGED <<vllm, trainer, enabled, dream>>

\* docker compose down && docker compose up -d: new containers, all started.
ComposeCycle ==
  /\ Present("compose") /\ Working
  /\ ProcessGone
  /\ vllm' = "starting"
  /\ trainer' = [at |-> "booting", run |-> None]
  /\ enabled' \in TrainingEnabled
  /\ UNCHANGED dream

\* startup(): reconcile_terminal_state, then the lease reconciler's first
\* half; no request is served before its second half is over.  What the dream
\* script stopped stays down until the script wakes it.
Restart ==
  /\ serving = "down" /\ ~Asleep
  /\ serving' = "starting"
  /\ rec' = SettledRecord
  /\ reg' = SettledRegistry
  /\ LET reenters == /\ Present("leaseReconciler")
                     /\ SettledRecord.phase = "image_edit"
     IN /\ maint' = reenters
        /\ look' = IF reenters THEN LeaseLookedAt(SettledRecord, TRUE) ELSE look
  /\ UNCHANGED <<job, vllm, inflight, trainer, mail, clients, spent, enabled,
                 dream>>

Serves ==
  /\ serving = "starting"
  /\ look.lease = None
  /\ job.kind # "release"
  /\ serving' = "up"
  /\ UNCHANGED <<core, inflight, trainer, mail, look, clients, spent, enabled,
                 dream>>

-----------------------------------------------------------------------------
(***************************************************************************)
(* The system.                                                             *)
(***************************************************************************)
\* The registries promotions can have left behind: the current adapter and
\* the one it displaced, both approved.
SeedRegistry(c, r) ==
  [status   |-> [a \in Adapters |-> IF a \in {c, r} THEN "approved" ELSE "absent"],
   current  |-> c,
   rollback |-> r]

Init ==
  /\ rec = Blank("idle")
  /\ \E c, r \in Adapters \cup {None} :
       /\ c = None => r = None
       /\ c # None => r # c
       /\ reg = SeedRegistry(c, r)
       /\ spent = {c, r} \cap Adapters
  /\ job = FreeJob
  /\ maint = FALSE
  /\ inflight = {}
  /\ vllm = "healthy"
  /\ trainer \in [at : {"absent", "created"}, run : {None}]
  /\ tasks = {}
  /\ posted = {}
  /\ look = Unlooked
  /\ clients = {}
  /\ serving = "up"
  /\ enabled \in TrainingEnabled
  /\ dream = NoDream

\* Operations take the lock.
Begins ==
  \/ NightlyDisabled \/ NightlyStarts \/ AcquireStarts \/ RollbackStarts

\* Callbacks accepted earlier run as background tasks.
BackgroundTask ==
  \E m \in tasks : \/ CallbackDropped(m) \/ FailureReported(m) \/ SkipReported(m)
                   \/ BatchReported(m) \/ DoneReported(m)

\* The operation that has the lock goes on.
NightlyGoesOn ==
  \/ NightlySenses \/ NightlyPrepares \/ NightlyEnters \/ NightlyDrains
  \/ NightlyStops \/ NightlyRequests \/ NightlyLaunches \/ NightlyConfirms

CallbackGoesOn ==
  \/ CallbackStartsVllm \/ CallbackAwaitsVllm \/ CandidateChosen
  \/ CandidateLoads \/ CandidateEvaluates \/ CandidateRejected
  \/ CandidatePromoted \/ CandidateRaises \/ ControllerRefreshes
  \/ DoneFinishes \/ BatchFinishes \/ SkipFinishes

RecoveryGoesOn ==
  \/ Recovers \/ RecoveryStartsVllm \/ RecoveryAwaitsVllm \/ RecoveryReopens
  \/ RecoveryRecords

LeaseGoesOn ==
  \/ AcquireDrains \/ AcquireStops \/ LeaseGranted \/ MemoryNeverFree
  \/ AcquireRestoresVllm \/ AcquireAwaitsVllm \/ AcquireReopens \/ AcquireFails
  \/ LeaseKeptForRetry \/ ReleaseStartsVllm \/ ReleaseAwaitsVllm
  \/ ReleaseFinishes

RollbackGoesOn ==
  \/ RollbackDrains \/ RollbackSwaps \/ RollbackVerifies \/ RollbackRestores

LockHolder ==
  \/ NightlyGoesOn \/ CallbackGoesOn \/ RecoveryGoesOn \/ LeaseGoesOn
  \/ RollbackGoesOn \/ Reopens

\* What goes on without the lock.
Trainer ==
  \/ TrainerCreated \/ TrainerRemoved \/ TrainerBoots \/ TrainerDies
  \/ \E m \in Reports : TrainerReports(m)

Clients ==
  \/ \E q \in Requests : Admit(q) \/ Finish(q)
  \/ LeaseExpires
  \/ \E l \in Leases : ClientReleases(l)
  \/ \E m \in posted : CallbackRepeated(m)
  \/ OperatorSwitches

Reconcilers ==
  \/ LeaseReconcilerReads \/ LeaseReconcilerEnters \/ LeaseReconcilerActs
  \/ StalledReconcilerReads \/ StalledReconcilerActs

Process == Crash \/ ComposeCycle \/ Restart \/ Serves

Next ==
  \/ Begins \/ BackgroundTask \/ LockHolder
  \/ VllmBecomesHealthy \/ Trainer \/ Clients \/ Reconcilers \/ Process

Spec == Init /\ [][Next]_vars

\* Threads and containers keep running, requests and edits end, time passes
\* (the lease's), the scheduler calls the reconcilers every minute, and a
\* restart policy brings the process back.  Compose ends up creating the
\* trainer container.  Nothing obliges anybody to
\* send a request, start an operation, repeat a callback or fail.
Fairness ==
  /\ WF_vars(LockHolder)
  /\ WF_vars(BackgroundTask)
  /\ WF_vars(VllmBecomesHealthy)
  /\ WF_vars(TrainerCreated) /\ WF_vars(TrainerBoots)
  /\ WF_vars(TrainerDies \/ \E m \in Reports : TrainerReports(m))
  /\ \A q \in Requests : WF_vars(Finish(q))
  /\ \A l \in Leases : WF_vars(ClientReleases(l))
  /\ WF_vars(LeaseExpires)
  /\ WF_vars(LeaseReconcilerReads) /\ WF_vars(LeaseReconcilerEnters)
  /\ WF_vars(LeaseReconcilerActs)
  /\ WF_vars(StalledReconcilerReads) /\ WF_vars(StalledReconcilerActs)
  /\ WF_vars(Restart) /\ WF_vars(Serves)

FairSpec == Spec /\ Fairness
=============================================================================
