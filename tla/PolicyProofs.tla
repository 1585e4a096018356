---------------------------- MODULE PolicyProofs -----------------------------
(***************************************************************************)
(* Safety of PolicyLifecycle, and of DreamTraining beside it, for every    *)
(* value of the constants: a drained gate before vLLM is stopped, no vLLM  *)
(* beside an image lease, leases that end by their clients, a gate that is *)
(* shut while the memory is lent, verdicts that stay, and tenants that take *)
(* turns at the memory.                                                    *)
(***************************************************************************)
EXTENDS PolicyTypeProofs, DreamTraining

\* Where the lock holder stands after a move, an exit and a start.
LEMMA Moves ==
  ASSUME TypeOK
  PROVE  /\ \A s : Goto(s) => job'.at = s /\ job'.kind = job.kind
         /\ Leave => job'.at = "none" /\ job'.kind = "free"
         /\ \A k, s : Take(k, s).at = s /\ Take(k, s).kind = k
<1>1. \A s : Goto(s) => job'.at = s /\ job'.kind = job.kind
  BY DEF TypeOK, Goto, Jobs
<1>2. Leave => job'.at = "none" /\ job'.kind = "free"
  BY DEF Leave, FreeJob
<1>3. \A k, s : Take(k, s).at = s /\ Take(k, s).kind = k
  BY DEF Take, FreeJob
<1> QED
  BY <1>1, <1>2, <1>3

-----------------------------------------------------------------------------
(***************************************************************************)
(* DrainedBeforeStop.  A stop follows a drain directly, and no request is  *)
(* admitted between them because the gate stays closed: nobody else opens  *)
(* it while the lock is held.  A restart leaves the gate as the record     *)
(* asks, but then nobody holds the lock.                                   *)
(***************************************************************************)
ShutWhileDraining == job.at \in {"drain", "stop"} => maint
DrainedAtStop == job.at = "stop" => inflight = {}
NobodyWhileDown ==
  serving = "down" => job.kind = "free" /\ job.at = "none" /\ tasks = {} /\ look = Unlooked

DrainInv == ShutWhileDraining /\ DrainedAtStop /\ NobodyWhileDown

\* The nightly job drains and stops.
LEMMA NightlyDrain ==
  ASSUME TypeOK, DrainInv, NightlyGoesOn
  PROVE  DrainInv'
<1> USE Moves DEF DrainInv, ShutWhileDraining, DrainedAtStop, NobodyWhileDown
<1>1. UNCHANGED <<serving, tasks, look, inflight>> /\ serving # "down"
  BY DEF NightlyGoesOn, NightlySenses, NightlyPrepares, NightlyEnters,
       NightlyDrains, NightlyStops, NightlyRequests, NightlyLaunches,
       NightlyConfirms, At, edge, mail, world
<1> QED
  BY <1>1
     DEF NightlyGoesOn, NightlySenses, NightlyPrepares, NightlyEnters,
       NightlyDrains, NightlyStops, NightlyRequests, NightlyLaunches,
       NightlyConfirms, At, Container, Drain

\* The callbacks' operations pass neither place.
LEMMA CallbackDrain ==
  ASSUME TypeOK, DrainInv, CallbackGoesOn
  PROVE  DrainInv'
<1> USE Moves DEF DrainInv, ShutWhileDraining, DrainedAtStop, NobodyWhileDown
<1>1. UNCHANGED <<maint, serving, tasks, look, inflight>> /\ serving # "down"
  BY DEF CallbackGoesOn, CallbackStartsVllm, CallbackAwaitsVllm,
       CandidateChosen, CandidateLoads, CandidateEvaluates, CandidateRejected,
       CandidatePromoted, CandidateRaises, ControllerRefreshes, DoneFinishes,
       BatchFinishes, SkipFinishes, Completing, At, edge, mail, world
<1>2. job'.at \notin {"drain", "stop"}
  <2>1. CASE CandidateChosen
    BY <2>1 DEF CandidateChosen, TypeOK, Jobs
  <2>2. CASE CandidateRejected
    BY <2>2 DEF CandidateRejected, AfterVerdict, TypeOK, Jobs
  <2>3. CASE ControllerRefreshes
    <3>1. AfterVerdict \notin {"drain", "stop"}
      BY DEF AfterVerdict
    <3>2. ASSUME job' = [job EXCEPT !.at = AfterVerdict, !.outcome = "promoted"]
          PROVE  job'.at = AfterVerdict
      BY <3>2 DEF TypeOK, Jobs
    <3> QED
      BY <2>3, <3>1, <3>2 DEF ControllerRefreshes
  <2> QED
    BY <2>1, <2>2, <2>3
       DEF CallbackGoesOn, CallbackStartsVllm, CallbackAwaitsVllm,
         CandidateLoads, CandidateEvaluates, CandidatePromoted,
         CandidateRaises, DoneFinishes, BatchFinishes, SkipFinishes, Container,
         Await
<1> QED
  BY <1>1, <1>2

\* Nor does the recovery; it opens the gate, at places of its own.
LEMMA RecoveryDrain ==
  ASSUME TypeOK, DrainInv, RecoveryGoesOn \/ Reopens
  PROVE  DrainInv'
<1> USE Moves DEF DrainInv, ShutWhileDraining, DrainedAtStop, NobodyWhileDown
<1>1. UNCHANGED <<serving, tasks, look, inflight>> /\ serving # "down"
  BY DEF RecoveryGoesOn, Recovers, RecoveryStartsVllm, RecoveryAwaitsVllm,
       RecoveryReopens, RecoveryRecords, Reopens, edge, mail, world
<1>2. job'.at \notin {"drain", "stop"}
  BY DEF RecoveryGoesOn, Recovers, RecoveryStartsVllm, RecoveryAwaitsVllm,
       RecoveryReopens, RecoveryRecords, Reopens, Container, Await
<1> QED
  BY <1>1, <1>2

\* The lease drains and stops like the nightly job.
LEMMA LeaseDrain ==
  ASSUME TypeOK, DrainInv, LeaseGoesOn
  PROVE  DrainInv'
<1> USE Moves DEF DrainInv, ShutWhileDraining, DrainedAtStop, NobodyWhileDown
<1>1. UNCHANGED <<serving, tasks, look, inflight>> /\ serving # "down"
  BY DEF LeaseGoesOn, AcquireDrains, AcquireStops, LeaseGranted,
       MemoryNeverFree, AcquireRestoresVllm, AcquireAwaitsVllm, AcquireReopens,
       AcquireFails, LeaseKeptForRetry, ReleaseStartsVllm, ReleaseAwaitsVllm,
       ReleaseFinishes, At, edge, mail, world
<1>2. CASE AcquireDrains
  BY <1>1, <1>2 DEF AcquireDrains, At, Drain
<1>3. CASE LeaseGoesOn /\ ~AcquireDrains
  <2>1. job'.at \notin {"drain", "stop"}
    <3>1. CASE AcquireStops \/ AcquireRestoresVllm \/ ReleaseStartsVllm
      BY <3>1
         DEF AcquireStops, AcquireRestoresVllm, ReleaseStartsVllm, Container
    <3>2. CASE AcquireAwaitsVllm \/ ReleaseAwaitsVllm
      BY <3>2 DEF AcquireAwaitsVllm, ReleaseAwaitsVllm, Await
    <3>3. CASE MemoryNeverFree \/ AcquireReopens
      BY <3>3 DEF MemoryNeverFree, AcquireReopens
    <3>4. CASE LeaseGranted \/ AcquireFails \/ LeaseKeptForRetry \/ ReleaseFinishes
      BY <3>4
         DEF LeaseGranted, AcquireFails, LeaseKeptForRetry, ReleaseFinishes
    <3> QED
      BY <1>3, <3>1, <3>2, <3>3, <3>4 DEF LeaseGoesOn
  <2> QED
    BY <1>1, <2>1
<1> QED
  BY <1>2, <1>3

\* The rollback drains but stops nothing.
LEMMA RollbackDrain ==
  ASSUME TypeOK, DrainInv, RollbackGoesOn
  PROVE  DrainInv'
<1> USE Moves DEF DrainInv, ShutWhileDraining, DrainedAtStop, NobodyWhileDown
<1>1. UNCHANGED <<serving, tasks, look, inflight>> /\ serving # "down"
  BY DEF RollbackGoesOn, RollbackDrains, RollbackSwaps, RollbackVerifies,
       RollbackRestores, At, edge, mail, world
<1>2. job'.at \notin {"drain", "stop"}
  <2>1. CASE RollbackSwaps
    <3>1. ASSUME job' = [job EXCEPT !.at = "verify",
                            !.prior = [current |-> reg.current,
                                       rollback |-> reg.rollback]]
          PROVE  job'.at = "verify"
      BY <3>1 DEF TypeOK, Jobs
    <3> QED
      BY <2>1, <3>1 DEF RollbackSwaps
  <2> QED
    BY <2>1
       DEF RollbackGoesOn, RollbackDrains, RollbackVerifies, RollbackRestores,
         Drain
<1> QED
  BY <1>1, <1>2

\* Who begins with a drain has shut the gate before.
LEMMA BeginsDrain ==
  ASSUME TypeOK, DrainInv, Begins
  PROVE  DrainInv'
<1> USE Moves DEF DrainInv, ShutWhileDraining, DrainedAtStop, NobodyWhileDown
<1>1. UNCHANGED <<serving, tasks, look, inflight>> /\ serving # "down"
  BY DEF Begins, NightlyDisabled, NightlyStarts, AcquireStarts, RollbackStarts,
       Working, edge, mail, world
<1>2. CASE NightlyDisabled
  BY <1>1, <1>2 DEF NightlyDisabled
<1>3. CASE NightlyStarts
  BY <1>1, <1>3 DEF NightlyStarts, Take, FreeJob
<1>4. CASE AcquireStarts
  BY <1>1, <1>4 DEF AcquireStarts, Take, FreeJob
<1>5. CASE RollbackStarts
  BY <1>1, <1>5 DEF RollbackStarts
<1> QED
  BY <1>2, <1>3, <1>4, <1>5 DEF Begins

\* No callback begins with a drain.
LEMMA BackgroundDrain ==
  ASSUME TypeOK, DrainInv, BackgroundTask
  PROVE  DrainInv'
<1> USE Moves DEF DrainInv, ShutWhileDraining, DrainedAtStop, NobodyWhileDown
<1>1. UNCHANGED <<maint, serving, look, inflight>> /\ serving # "down"
  BY DEF BackgroundTask, CallbackDropped, FailureReported, SkipReported,
       BatchReported, DoneReported, CallbackApplies, core, world
<1>2. ASSUME NEW m \in tasks, CallbackDropped(m)
      PROVE  UNCHANGED job
  BY <1>2 DEF CallbackDropped, core
<1>3. ASSUME NEW m \in tasks, FailureReported(m)
      PROVE  job'.at = "recover"
  BY <1>3 DEF FailureReported, Take, FreeJob
<1>4. ASSUME NEW m \in tasks, SkipReported(m) \/ BatchReported(m)
      PROVE  job'.at = "start"
  BY <1>4 DEF SkipReported, BatchReported, Take, FreeJob
<1>5. ASSUME NEW m \in tasks, DoneReported(m)
      PROVE  job'.at \in {"start", "recover"}
  BY <1>5 DEF DoneReported, Take, FreeJob
<1> QED
  BY <1>1, <1>2, <1>3, <1>4, <1>5 DEF BackgroundTask

\* Requests come only through an open gate, and the trainer's steps leave all
\* this alone.
LEMMA OutsideDrain ==
  ASSUME TypeOK, DrainInv, "operator" \notin Actors,
         VllmBecomesHealthy \/ Trainer \/ Clients
  PROVE  DrainInv'
<1> USE DEF DrainInv, ShutWhileDraining, DrainedAtStop, NobodyWhileDown
<1>1. CASE VllmBecomesHealthy
  BY <1>1 DEF VllmBecomesHealthy, edge, mail, world
<1>2. CASE Trainer
  <2>1. UNCHANGED <<maint, job, serving, look, inflight>>
    BY <1>2
       DEF Trainer, TrainerCreated, TrainerRemoved, TrainerBoots, TrainerDies,
         TrainerReports, core, world
  <2>2. serving = "down" => UNCHANGED tasks
    BY <1>2
       DEF Trainer, TrainerCreated, TrainerRemoved, TrainerBoots, TrainerDies,
         TrainerReports, Accept, mail
  <2> QED
    BY <2>1, <2>2
<1>3. CASE Clients
  <2>1. ASSUME NEW q \in Requests, Admit(q)
        PROVE  DrainInv'
    BY <2>1 DEF Admit, core, mail, world
  <2>2. ASSUME NEW q \in Requests, Finish(q)
        PROVE  DrainInv'
    BY <2>2 DEF Finish, core, mail, world
  <2>3. CASE LeaseExpires
    BY <2>3 DEF LeaseExpires, edge, mail, world
  <2>4. ASSUME NEW l \in Leases, ClientReleases(l)
        PROVE  DrainInv'
    BY <2>4 DEF ClientReleases, Release, Take, FreeJob, mail
  <2>5. ASSUME NEW m \in posted, CallbackRepeated(m)
        PROVE  DrainInv'
    BY <2>5 DEF CallbackRepeated, Accept, core, world
  <2> QED
    BY <1>3, <2>1, <2>2, <2>3, <2>4, <2>5
       DEF Clients, OperatorSwitches, Present
<1> QED
  BY <1>1, <1>2, <1>3

\* A reconciler may shut the gate, and starts operations that do not drain.
LEMMA ReconcilersDrain ==
  ASSUME TypeOK, DrainInv, Reconcilers
  PROVE  DrainInv'
<1> USE DEF DrainInv, ShutWhileDraining, DrainedAtStop, NobodyWhileDown
<1>1. UNCHANGED <<serving, tasks, inflight>>
  BY DEF Reconcilers, LeaseReconcilerReads, LeaseReconcilerEnters,
       LeaseReconcilerActs, StalledReconcilerReads, StalledReconcilerActs,
       mail, world
<1>2. serving = "down" => look.lease = None /\ ~look.entered /\ look.run = None
  BY DEF Unlooked
<1>3. serving # "down"
  BY <1>2
     DEF Reconcilers, LeaseReconcilerReads, LeaseReconcilerEnters,
       LeaseReconcilerActs, StalledReconcilerReads, StalledReconcilerActs,
       Working
<1>4. UNCHANGED job \/ job'.at \in {"start", "recover"}
  BY DEF Reconcilers, LeaseReconcilerReads, LeaseReconcilerEnters,
       LeaseReconcilerActs, StalledReconcilerReads, StalledReconcilerActs,
       Release, Take, FreeJob, core
<1>5. maint' = maint \/ maint' = TRUE
  BY DEF Reconcilers, LeaseReconcilerReads, LeaseReconcilerEnters,
       LeaseReconcilerActs, StalledReconcilerReads, StalledReconcilerActs, core
<1> QED
  BY <1>1, <1>3, <1>4, <1>5

\* A process that is gone holds neither the lock nor requests.
LEMMA ProcessDrain ==
  ASSUME TypeOK, DrainInv, Process
  PROVE  DrainInv'
<1> USE DEF DrainInv, ShutWhileDraining, DrainedAtStop, NobodyWhileDown
<1>1. CASE Crash \/ ComposeCycle
  BY <1>1 DEF Crash, ComposeCycle, ProcessGone, FreeJob
<1>2. CASE Restart
  BY <1>2 DEF Restart
<1>3. CASE Serves
  BY <1>3 DEF Serves, core, mail
<1> QED
  BY <1>1, <1>2, <1>3 DEF Process

\* Every step keeps the invariant.
LEMMA NextDrain ==
  ASSUME TypeOK, DrainInv, "operator" \notin Actors, [Next]_vars
  PROVE  DrainInv'
<1>1. CASE UNCHANGED vars
  BY <1>1
     DEF DrainInv, ShutWhileDraining, DrainedAtStop, NobodyWhileDown, vars,
       core, edge, mail, world
<1> QED
  BY <1>1, NightlyDrain, CallbackDrain, RecoveryDrain, LeaseDrain,
     RollbackDrain, BeginsDrain, BackgroundDrain, OutsideDrain,
     ReconcilersDrain, ProcessDrain DEF Next, LockHolder

\* Only a drained operation stops vLLM.
LEMMA WhoStopsVllm ==
  ASSUME TypeOK, [Next]_vars, vllm # "stopped", vllm' = "stopped"
  PROVE  job.at = "stop"
<1> USE DEF core, edge, mail, world
<1>2. CASE NightlyGoesOn
  BY <1>2
     DEF NightlyGoesOn, NightlySenses, NightlyPrepares, NightlyEnters,
       NightlyDrains, NightlyStops, NightlyRequests, NightlyLaunches,
       NightlyConfirms, At
<1>3. CASE CallbackGoesOn
  BY <1>3
     DEF CallbackGoesOn, CallbackStartsVllm, CallbackAwaitsVllm,
       CandidateChosen, CandidateLoads, CandidateEvaluates, CandidateRejected,
       CandidatePromoted, CandidateRaises, ControllerRefreshes, DoneFinishes,
       BatchFinishes, SkipFinishes, Container, Started
<1>4. CASE RecoveryGoesOn \/ Reopens
  BY <1>4
     DEF RecoveryGoesOn, Recovers, RecoveryStartsVllm, RecoveryAwaitsVllm,
       RecoveryReopens, RecoveryRecords, Reopens, Container, Started
<1>5. CASE LeaseGoesOn
  BY <1>5
     DEF LeaseGoesOn, AcquireDrains, AcquireStops, LeaseGranted,
       MemoryNeverFree, AcquireRestoresVllm, AcquireAwaitsVllm, AcquireReopens,
       AcquireFails, LeaseKeptForRetry, ReleaseStartsVllm, ReleaseAwaitsVllm,
       ReleaseFinishes, At, Container, Started
<1>6. CASE RollbackGoesOn \/ Begins
  BY <1>6
     DEF RollbackGoesOn, RollbackDrains, RollbackSwaps, RollbackVerifies,
       RollbackRestores, Begins, NightlyDisabled, NightlyStarts, AcquireStarts,
       RollbackStarts
<1>7. CASE BackgroundTask
  BY <1>7
     DEF BackgroundTask, CallbackDropped, FailureReported, SkipReported,
       BatchReported, DoneReported, CallbackApplies
<1>8. CASE VllmBecomesHealthy \/ Trainer
  BY <1>8
     DEF VllmBecomesHealthy, Trainer, TrainerCreated, TrainerRemoved,
       TrainerBoots, TrainerDies, TrainerReports
<1>9. CASE Clients
  BY <1>9
     DEF Clients, Admit, Finish, LeaseExpires, ClientReleases,
       CallbackRepeated, OperatorSwitches
<1>10. CASE Reconcilers
  BY <1>10
     DEF Reconcilers, LeaseReconcilerReads, LeaseReconcilerEnters,
       LeaseReconcilerActs, StalledReconcilerReads, StalledReconcilerActs
<1>11. CASE Process
  BY <1>11 DEF Process, Crash, ComposeCycle, Restart, Serves
<1>12. CASE UNCHANGED vars
  BY <1>12 DEF vars
<1> QED
  BY <1>2, <1>3, <1>4, <1>5, <1>6, <1>7, <1>8, <1>9, <1>10, <1>11, <1>12
     DEF Next, LockHolder

\* The lifecycle stops vLLM only when the gate has let every request finish
\* (lifecycle.py:149-155, 448-452), for any number of requests, runs, leases
\* and adapters, whatever fails; provided that no operator works the gate by
\* hand (main.py:317), which the lifecycle could not tell from its own doing.
THEOREM DrainedTheorem ==
  ASSUME "operator" \notin Actors
  PROVE  Spec => DrainedBeforeStop
<1>1. Init => DrainInv
  BY DEF Init, DrainInv, ShutWhileDraining, DrainedAtStop, NobodyWhileDown,
       FreeJob
<1>2. TypeOK /\ DrainInv /\ [Next]_vars => DrainInv'
  BY NextDrain
<1>3. TypeOK /\ DrainInv /\ [Next]_vars
        => [vllm # "stopped" /\ vllm' = "stopped" => inflight = {}]_vars
  BY WhoStopsVllm DEF DrainInv, DrainedAtStop
<1> QED
  BY <1>1, <1>2, <1>3, TypeCorrect, PTL DEF Spec, DrainedBeforeStop

-----------------------------------------------------------------------------
(***************************************************************************)
(* LeaseExcludesInference.  While the record says "image_edit" only a      *)
(* rollback can hold the lock, and a rollback never starts vLLM.           *)
(***************************************************************************)
OnlyRollbackMeetsLease == rec.phase = "image_edit" => job.kind \in {"free", "rollback"}
StoppedWhileWaiting == job.at = "memory" => vllm = "stopped"
KindFitsPlace ==
  /\ job.kind = "free" => job.at = "none"
  /\ job.kind = "rollback" => job.at \in {"drain", "swap", "verify", "restore", "reopen"}

LendInv ==
  /\ OnlyRollbackMeetsLease
  /\ LeaseExcludesInference
  /\ StoppedWhileWaiting
  /\ KindFitsPlace

\* An operation that keeps the record out of "image_edit" keeps the invariant.
LEMMA NoLeaseLend ==
  ASSUME rec'.phase # "image_edit", job'.at # "memory",
         \/ job'.kind \notin {"free", "rollback"}
         \/ job'.kind = "free" /\ job'.at = "none"
  PROVE  LendInv'
BY DEF LendInv, OnlyRollbackMeetsLease, LeaseExcludesInference, LeaseHeld,
     StoppedWhileWaiting, KindFitsPlace

\* So does anything that leaves record, lock and vLLM alone.
LEMMA StillLend ==
  ASSUME LendInv, UNCHANGED <<rec, job, vllm>>
  PROVE  LendInv'
BY DEF LendInv, OnlyRollbackMeetsLease, LeaseExcludesInference, LeaseHeld,
     StoppedWhileWaiting, KindFitsPlace

\* The nightly job stays out of "image_edit".
LEMMA NightlyLend ==
  ASSUME TypeOK, LendInv, NightlyGoesOn
  PROVE  LendInv'
<1> USE Moves
<1>1. job.kind = "nightly"
  BY DEF NightlyGoesOn, NightlySenses, NightlyPrepares, NightlyEnters,
       NightlyDrains, NightlyStops, NightlyRequests, NightlyLaunches,
       NightlyConfirms, At
<1>2. rec.phase # "image_edit"
  BY <1>1 DEF LendInv, OnlyRollbackMeetsLease
<1>3. rec'.phase # "image_edit"
  BY <1>2
     DEF TypeOK, Records, NightlyGoesOn, NightlySenses, NightlyPrepares,
       NightlyEnters, NightlyDrains, NightlyStops, NightlyRequests,
       NightlyLaunches, NightlyConfirms
<1>4. \/ job'.kind = "nightly" /\ job'.at # "memory"
      \/ job'.kind = "free" /\ job'.at = "none"
  BY <1>1
     DEF NightlyGoesOn, NightlySenses, NightlyPrepares, NightlyEnters,
       NightlyDrains, NightlyStops, NightlyRequests, NightlyLaunches,
       NightlyConfirms, At, Container, Drain
<1> QED
  BY <1>3, <1>4, NoLeaseLend

\* So do the callbacks' operations.
LEMMA CallbackLend ==
  ASSUME TypeOK, LendInv, CallbackGoesOn
  PROVE  LendInv'
<1> USE Moves
<1>1. Completing
  BY DEF CallbackGoesOn, CallbackStartsVllm, CallbackAwaitsVllm,
       CandidateChosen, CandidateLoads, CandidateEvaluates, CandidateRejected,
       CandidatePromoted, CandidateRaises, ControllerRefreshes, DoneFinishes,
       BatchFinishes, SkipFinishes, Completing, At
<1>2. rec.phase # "image_edit"
  BY <1>1 DEF LendInv, OnlyRollbackMeetsLease, Completing
<1>3. rec'.phase # "image_edit"
  BY <1>2
     DEF TypeOK, Records, CallbackGoesOn, CallbackStartsVllm,
       CallbackAwaitsVllm, CandidateChosen, CandidateLoads, CandidateEvaluates,
       CandidateRejected, CandidatePromoted, CandidateRaises,
       ControllerRefreshes, DoneFinishes, BatchFinishes, SkipFinishes
<1>4. \/ job'.kind = job.kind /\ job'.at # "memory"
      \/ job'.kind = "free" /\ job'.at = "none"
  <2>1. AfterVerdict # "memory"
    BY DEF AfterVerdict
  <2>2. CASE CandidateChosen
    <3>1. PICK a \in job.todo, p \in {"evaluate", "recover"} :
            job' = [job EXCEPT !.at = p, !.cand = a, !.todo = job.todo \ {a}]
      BY <2>2 DEF CandidateChosen
    <3>2. job'.kind = job.kind /\ job'.at = p
      BY <3>1 DEF TypeOK, Jobs
    <3> QED
      BY <3>2
  <2>3. CASE CandidateRejected
    BY <2>1, <2>3 DEF CandidateRejected, TypeOK, Jobs
  <2>4. CASE ControllerRefreshes
    <3>1. ASSUME job' = [job EXCEPT !.at = AfterVerdict, !.outcome = "promoted"]
          PROVE  job'.at = AfterVerdict /\ job'.kind = job.kind
      BY <3>1 DEF TypeOK, Jobs
    <3> QED
      BY <2>1, <2>4, <3>1 DEF ControllerRefreshes
  <2>5. CASE CallbackStartsVllm \/ CallbackAwaitsVllm
    BY <2>5 DEF CallbackStartsVllm, CallbackAwaitsVllm, Container, Await
  <2> QED
    BY <2>2, <2>3, <2>4, <2>5
       DEF CallbackGoesOn, CandidateLoads, CandidateEvaluates,
         CandidatePromoted, CandidateRaises, DoneFinishes, BatchFinishes,
         SkipFinishes
<1> QED
  BY <1>1, <1>3, <1>4, NoLeaseLend DEF Completing

\* So does the recovery.
LEMMA RecoveryLend ==
  ASSUME TypeOK, LendInv, RecoveryGoesOn
  PROVE  LendInv'
<1> USE Moves
<1>1. job.kind \notin {"free", "rollback"}
  BY DEF RecoveryGoesOn, Recovers, RecoveryStartsVllm, RecoveryAwaitsVllm,
       RecoveryReopens, RecoveryRecords, LendInv, KindFitsPlace
<1>2. rec.phase # "image_edit"
  BY <1>1 DEF LendInv, OnlyRollbackMeetsLease
<1>3. rec'.phase # "image_edit"
  BY <1>2
     DEF TypeOK, Records, RecoveryGoesOn, Recovers, RecoveryStartsVllm,
       RecoveryAwaitsVllm, RecoveryReopens, RecoveryRecords
<1>4. \/ job'.kind = job.kind /\ job'.at # "memory"
      \/ job'.kind = "free" /\ job'.at = "none"
  BY DEF RecoveryGoesOn, Recovers, RecoveryStartsVllm, RecoveryAwaitsVllm,
       RecoveryReopens, RecoveryRecords, Container, Await
<1> QED
  BY <1>1, <1>3, <1>4, NoLeaseLend

\* Only acquire and release meet a lease, with vLLM stopped.
LEMMA LeaseLend ==
  ASSUME TypeOK, LendInv, LeaseGoesOn
  PROVE  LendInv'
<1> USE Moves
<1>1. CASE AcquireStops
  BY <1>1
     DEF AcquireStops, Container, At, LendInv, OnlyRollbackMeetsLease,
       LeaseExcludesInference, LeaseHeld, StoppedWhileWaiting, KindFitsPlace
<1>2. CASE LeaseGranted
  <2>1. vllm' = "stopped"
    BY <1>2 DEF LeaseGranted, At, LendInv, StoppedWhileWaiting
  <2> QED
    BY <1>2, <2>1
       DEF LeaseGranted, LendInv, OnlyRollbackMeetsLease,
         LeaseExcludesInference, LeaseHeld, StoppedWhileWaiting, KindFitsPlace
<1>3. CASE LeaseKeptForRetry
  <2>1. rec'.expired
    BY <1>3 DEF LeaseKeptForRetry, LeaseRecord, Blank
  <2> QED
    BY <1>3, <2>1
       DEF LeaseKeptForRetry, LendInv, OnlyRollbackMeetsLease,
         LeaseExcludesInference, LeaseHeld, StoppedWhileWaiting, KindFitsPlace
<1>4. CASE AcquireFails \/ ReleaseFinishes
  BY <1>4, NoLeaseLend DEF AcquireFails, ReleaseFinishes, Blank
<1>5. CASE AcquireDrains \/ MemoryNeverFree \/ AcquireRestoresVllm \/ AcquireAwaitsVllm
           \/ AcquireReopens \/ ReleaseStartsVllm \/ ReleaseAwaitsVllm
  <2>1. job.kind \in {"acquire", "release"} /\ UNCHANGED rec
    BY <1>5
       DEF AcquireDrains, MemoryNeverFree, AcquireRestoresVllm,
         AcquireAwaitsVllm, AcquireReopens, ReleaseStartsVllm,
         ReleaseAwaitsVllm, At
  <2>2. job'.kind = job.kind /\ job'.at # "memory"
    BY <1>5
       DEF AcquireDrains, MemoryNeverFree, AcquireRestoresVllm,
         AcquireAwaitsVllm, AcquireReopens, ReleaseStartsVllm,
         ReleaseAwaitsVllm, Container, Await, Drain
  <2>3. rec'.phase # "image_edit"
    BY <2>1 DEF LendInv, OnlyRollbackMeetsLease
  <2> QED
    BY <2>1, <2>2, <2>3, NoLeaseLend
<1> QED
  BY <1>1, <1>2, <1>3, <1>4, <1>5 DEF LeaseGoesOn

\* The rollback may run beside a lease; it touches neither record nor vLLM.
LEMMA RollbackLend ==
  ASSUME TypeOK, LendInv, RollbackGoesOn \/ Reopens
  PROVE  LendInv'
<1> USE Moves DEF LendInv, OnlyRollbackMeetsLease, LeaseExcludesInference, LeaseHeld,
                StoppedWhileWaiting, KindFitsPlace
<1>1. UNCHANGED <<rec, vllm>>
  BY DEF RollbackGoesOn, RollbackDrains, RollbackSwaps, RollbackVerifies,
       RollbackRestores, Reopens
<1>2. CASE RollbackSwaps
  <2>1. ASSUME job' = [job EXCEPT !.at = "verify",
                          !.prior = [current |-> reg.current,
                                     rollback |-> reg.rollback]]
        PROVE  job'.at = "verify" /\ job'.kind = job.kind
    BY <2>1 DEF TypeOK, Jobs
  <2> QED
    BY <1>1, <1>2, <2>1 DEF RollbackSwaps, At
<1>3. CASE RollbackDrains \/ RollbackVerifies \/ RollbackRestores
  BY <1>1, <1>3
     DEF RollbackDrains, RollbackVerifies, RollbackRestores, At, Drain
<1>4. CASE Reopens
  BY <1>1, <1>4 DEF Reopens
<1> QED
  BY <1>2, <1>3, <1>4 DEF RollbackGoesOn

\* Nothing begins in "image_edit" but a rollback and a disabled nightly job.
LEMMA BeginsLend ==
  ASSUME TypeOK, LendInv, Begins
  PROVE  LendInv'
<1>1. Free
  BY DEF Begins, NightlyDisabled, NightlyStarts, AcquireStarts, RollbackStarts
<1>2. CASE NightlyDisabled
  BY <1>1, <1>2, NoLeaseLend
     DEF NightlyDisabled, Blank, Free, LendInv, KindFitsPlace
<1>3. CASE NightlyStarts
  <2>1. rec'.phase # "image_edit"
    BY <1>3 DEF NightlyStarts, SettledRecord, Blank, TypeOK, Records
  <2>2. job'.kind = "nightly" /\ job'.at = "sense"
    BY <1>3 DEF NightlyStarts, Take, FreeJob
  <2> QED
    BY <2>1, <2>2, NoLeaseLend
<1>4. CASE AcquireStarts
  <2>1. job'.kind = "acquire" /\ job'.at = "drain"
    BY <1>4 DEF AcquireStarts, Take, FreeJob
  <2> QED
    BY <1>4, <2>1, NoLeaseLend DEF AcquireStarts
<1>5. CASE RollbackStarts
  BY <1>1, <1>5, Moves
     DEF RollbackStarts, LendInv, OnlyRollbackMeetsLease,
       LeaseExcludesInference, LeaseHeld, StoppedWhileWaiting, KindFitsPlace
<1> QED
  BY <1>2, <1>3, <1>4, <1>5 DEF Begins

\* No callback matches a record that has a lease.
LEMMA BackgroundLend ==
  ASSUME TypeOK, LendInv, BackgroundTask
  PROVE  LendInv'
<1>1. ASSUME NEW m \in tasks, CallbackDropped(m)
      PROVE  LendInv'
  BY <1>1, StillLend DEF CallbackDropped, core
<1>2. ASSUME NEW m \in tasks,
             FailureReported(m) \/ SkipReported(m) \/ BatchReported(m) \/ DoneReported(m)
      PROVE  LendInv'
  <2>1. rec.phase # "image_edit"
    BY <1>2
       DEF FailureReported, SkipReported, BatchReported, DoneReported,
         CallbackApplies, Matches
  <2>2. rec'.phase # "image_edit"
    BY <1>2, <2>1
       DEF FailureReported, SkipReported, BatchReported, DoneReported, TypeOK,
         Records
  <2>3. job'.kind \in {"failure", "skipped", "batch", "done"}
    BY <1>2
       DEF FailureReported, SkipReported, BatchReported, DoneReported, Take,
         FreeJob
  <2>4. job'.at \in {"start", "recover"}
    BY <1>2
       DEF FailureReported, SkipReported, BatchReported, DoneReported, Take,
         FreeJob
  <2> QED
    BY <2>2, <2>3, <2>4, NoLeaseLend
<1> QED
  BY <1>1, <1>2 DEF BackgroundTask

\* release_image_edit_lease, for a client or for the reconciler.
LEMMA ReleaseLend ==
  ASSUME TypeOK, LendInv, NEW l, Release(l), UNCHANGED vllm
  PROVE  LendInv'
<1>1. CASE MayRelease(l)
  BY <1>1, NoLeaseLend DEF Release, Take, FreeJob, TypeOK, Records
<1>2. CASE ~MayRelease(l)
  BY <1>2, StillLend DEF Release
<1> QED
  BY <1>1, <1>2

\* Requests, clients and the operator.
LEMMA OutsideLend ==
  ASSUME TypeOK, LendInv, VllmBecomesHealthy \/ Trainer \/ Clients
  PROVE  LendInv'
<1>1. CASE VllmBecomesHealthy
  BY <1>1
     DEF VllmBecomesHealthy, LendInv, OnlyRollbackMeetsLease,
       LeaseExcludesInference, LeaseHeld, StoppedWhileWaiting, KindFitsPlace
<1>2. CASE Trainer
  BY <1>2, StillLend
     DEF Trainer, TrainerCreated, TrainerRemoved, TrainerBoots, TrainerDies,
       TrainerReports, core
<1>3. CASE LeaseExpires
  BY <1>3
     DEF LeaseExpires, LendInv, OnlyRollbackMeetsLease, LeaseExcludesInference,
       LeaseHeld, StoppedWhileWaiting, KindFitsPlace, TypeOK, Records
<1>4. ASSUME NEW l \in Leases, ClientReleases(l)
      PROVE  LendInv'
  BY <1>4, ReleaseLend, StillLend DEF ClientReleases
<1>5. ASSUME \/ \E q \in Requests : Admit(q) \/ Finish(q)
             \/ \E m \in posted : CallbackRepeated(m)
             \/ OperatorSwitches
      PROVE  LendInv'
  BY <1>5, StillLend
     DEF Admit, Finish, CallbackRepeated, OperatorSwitches, core
<1> QED
  BY <1>1, <1>2, <1>3, <1>4, <1>5 DEF Clients

\* The lease reconciler releases like a client.
LEMMA ReconcilersLend ==
  ASSUME TypeOK, LendInv, Reconcilers
  PROVE  LendInv'
<1>1. CASE LeaseReconcilerReads \/ LeaseReconcilerEnters \/ StalledReconcilerReads
  BY <1>1, StillLend
     DEF LeaseReconcilerReads, LeaseReconcilerEnters, StalledReconcilerReads,
       core
<1>2. CASE LeaseReconcilerActs
  BY <1>2, ReleaseLend, StillLend DEF LeaseReconcilerActs
<1>3. CASE StalledReconcilerActs
  <2>1. CASE UNCHANGED job
    BY <1>3, <2>1, StillLend DEF StalledReconcilerActs
  <2>2. CASE job' = [Take("failure", "recover") EXCEPT !.run = look.run]
             /\ Matches(look.run)
    <3>1. job'.kind = "failure" /\ job'.at = "recover"
      BY <2>2 DEF Take, FreeJob
    <3> QED
      BY <1>3, <2>2, <3>1, NoLeaseLend DEF StalledReconcilerActs, Matches
  <2> QED
    BY <1>3, <2>1, <2>2 DEF StalledReconcilerActs
<1> QED
  BY <1>1, <1>2, <1>3 DEF Reconcilers

\* A crash leaves record and vLLM as they are.
LEMMA ProcessLend ==
  ASSUME TypeOK, LendInv, "compose" \notin Actors, Process
  PROVE  LendInv'
<1>1. CASE Crash
  BY <1>1
     DEF Crash, ProcessGone, FreeJob, LendInv, OnlyRollbackMeetsLease,
       LeaseExcludesInference, LeaseHeld, StoppedWhileWaiting, KindFitsPlace
<1>2. CASE Restart
  <2>1. rec'.phase = "image_edit" => rec' = rec
    BY <1>2 DEF Restart, SettledRecord, TypeOK, Records
  <2> QED
    BY <1>2, <2>1
       DEF Restart, LendInv, OnlyRollbackMeetsLease, LeaseExcludesInference,
         LeaseHeld, StoppedWhileWaiting, KindFitsPlace
<1>3. CASE Serves
  BY <1>3, StillLend DEF Serves, core
<1> QED
  BY <1>1, <1>2, <1>3 DEF Process, ComposeCycle, Present

\* Every step keeps the invariant.
LEMMA NextLend ==
  ASSUME TypeOK, LendInv, "compose" \notin Actors, [Next]_vars
  PROVE  LendInv'
<1>1. CASE UNCHANGED vars
  BY <1>1, StillLend DEF vars, core
<1> QED
  BY <1>1, NightlyLend, CallbackLend, RecoveryLend, LeaseLend, RollbackLend,
     BeginsLend, BackgroundLend, OutsideLend, ReconcilersLend, ProcessLend
     DEF Next, LockHolder

\* vLLM is stopped as long as an image client may count on its lease
\* ("grant exclusive access to unified GPU memory", lifecycle.py:142), for
\* any number of leases, runs and requests, across crashes, failing calls,
\* nightly jobs, callbacks, rollbacks and both reconcilers; provided nobody
\* recreates the containers with compose meanwhile, which starts vLLM.
THEOREM LeaseExclusive ==
  ASSUME "compose" \notin Actors
  PROVE  Spec => []LeaseExcludesInference
<1>1. Init => LendInv
  BY DEF Init, Blank, FreeJob, LendInv, OnlyRollbackMeetsLease,
       LeaseExcludesInference, LeaseHeld, StoppedWhileWaiting, KindFitsPlace
<1>2. TypeOK /\ LendInv /\ [Next]_vars => LendInv'
  BY NextLend
<1>3. LendInv => LeaseExcludesInference
  BY DEF LendInv
<1> QED
  BY <1>1, <1>2, <1>3, TypeCorrect, PTL DEF Spec

-----------------------------------------------------------------------------
(***************************************************************************)
(* LeaseEndsByItsClient.  The reconciler may act on a lease it read long   *)
(* ago.  What it remembers as expired can not be the lease held now,       *)
(* because leases do not unexpire and ids are not used again.              *)
(***************************************************************************)
Borrows == job.kind \in {"acquire", "release"}

\* An expired lease that was seen is expired still, if it is the one recorded.
SeenLateIsLate ==
  look.late /\ rec.phase = "image_edit" /\ rec.lease = look.lease => rec.expired

\* Nobody has seen the lease that is being acquired.
AcquiredUnseen == job.kind = "acquire" /\ look.late => look.lease # job.lease

\* The lease recorded, the one seen and the one worked on were generated.
LeasesSpent ==
  /\ rec.phase = "image_edit" => rec.lease \in spent
  /\ look.late => look.lease \in spent
  /\ Borrows => job.lease \in spent
  /\ job.at = "undo" => Borrows

\* A lease is no terminal state: neither a restart nor an operation settles it.
LeaseUnsettled == rec.phase = "image_edit" => rec.outcome = "none"

\* The nightly job does not rewrite the record where training is enabled.
NightlyEnabled == "nightly" \in Actors => enabled

HeldInv ==
  SeenLateIsLate /\ AcquiredUnseen /\ LeasesSpent /\ LeaseUnsettled /\ NightlyEnabled

\* An operation that has no lease to record keeps the invariant, if it keeps
\* the lease it works on.
LEMMA NoLeaseHeld ==
  ASSUME HeldInv, rec'.phase # "image_edit", look' = look, spent \subseteq spent',
         enabled' = enabled, job'.at = "undo" => Borrows',
         Borrows' => job'.kind = job.kind /\ job'.lease = job.lease
  PROVE  HeldInv'
BY DEF HeldInv, SeenLateIsLate, AcquiredUnseen, LeasesSpent, LeaseUnsettled,
     NightlyEnabled, Borrows

\* So does anything that leaves record, lock and looks alone.
LEMMA StillHeld ==
  ASSUME HeldInv, UNCHANGED <<rec, job, enabled>>, look'.lease = look.lease,
         look'.late = look.late, spent \subseteq spent'
  PROVE  HeldInv'
BY DEF HeldInv, SeenLateIsLate, AcquiredUnseen, LeasesSpent, LeaseUnsettled,
     NightlyEnabled, Borrows

\* The operations of a training run.
LEMMA TrainingHeld ==
  ASSUME TypeOK, LendInv, HeldInv, NightlyGoesOn \/ CallbackGoesOn \/ RecoveryGoesOn
  PROVE  HeldInv' /\ rec.phase # "image_edit"
<1> USE Moves
<1>1. UNCHANGED <<look, spent, enabled>>
  BY DEF NightlyGoesOn, NightlySenses, NightlyPrepares, NightlyEnters,
       NightlyDrains, NightlyStops, NightlyRequests, NightlyLaunches,
       NightlyConfirms, CallbackGoesOn, CallbackStartsVllm, CallbackAwaitsVllm,
       CandidateChosen, CandidateLoads, CandidateEvaluates, CandidateRejected,
       CandidatePromoted, CandidateRaises, ControllerRefreshes, DoneFinishes,
       BatchFinishes, SkipFinishes, RecoveryGoesOn, Recovers,
       RecoveryStartsVllm, RecoveryAwaitsVllm, RecoveryReopens,
       RecoveryRecords, edge, mail, world
<1>2. CASE NightlyGoesOn
  <2>1. job.kind = "nightly"
    BY <1>2
       DEF NightlyGoesOn, NightlySenses, NightlyPrepares, NightlyEnters,
         NightlyDrains, NightlyStops, NightlyRequests, NightlyLaunches,
         NightlyConfirms, At
  <2>2. rec.phase # "image_edit"
    BY <2>1 DEF LendInv, OnlyRollbackMeetsLease
  <2>3. rec'.phase # "image_edit"
    BY <1>2, <2>2
       DEF TypeOK, Records, NightlyGoesOn, NightlySenses, NightlyPrepares,
         NightlyEnters, NightlyDrains, NightlyStops, NightlyRequests,
         NightlyLaunches, NightlyConfirms
  <2>4. job'.kind \in {"nightly", "free"} /\ job'.at # "undo"
    BY <1>2, <2>1
       DEF NightlyGoesOn, NightlySenses, NightlyPrepares, NightlyEnters,
         NightlyDrains, NightlyStops, NightlyRequests, NightlyLaunches,
         NightlyConfirms, At, Container, Drain
  <2> QED
    BY <1>1, <2>2, <2>3, <2>4, NoLeaseHeld DEF Borrows
<1>3. CASE CallbackGoesOn
  <2>1. Completing
    BY <1>3
       DEF CallbackGoesOn, CallbackStartsVllm, CallbackAwaitsVllm,
         CandidateChosen, CandidateLoads, CandidateEvaluates,
         CandidateRejected, CandidatePromoted, CandidateRaises,
         ControllerRefreshes, DoneFinishes, BatchFinishes, SkipFinishes,
         Completing, At
  <2>2. rec.phase # "image_edit"
    BY <2>1 DEF LendInv, OnlyRollbackMeetsLease, Completing
  <2>3. rec'.phase # "image_edit"
    BY <1>3, <2>2
       DEF TypeOK, Records, CallbackGoesOn, CallbackStartsVllm,
         CallbackAwaitsVllm, CandidateChosen, CandidateLoads,
         CandidateEvaluates, CandidateRejected, CandidatePromoted,
         CandidateRaises, ControllerRefreshes, DoneFinishes, BatchFinishes,
         SkipFinishes
  <2>4. job'.kind \in {job.kind, "free"} /\ job'.at # "undo"
    <3>1. AfterVerdict # "undo"
      BY DEF AfterVerdict
    <3>2. CASE CandidateChosen
      <4>1. PICK a \in job.todo, p \in {"evaluate", "recover"} :
              job' = [job EXCEPT !.at = p, !.cand = a, !.todo = job.todo \ {a}]
        BY <3>2 DEF CandidateChosen
      <4> QED
        BY <4>1 DEF TypeOK, Jobs
    <3>3. CASE CandidateRejected
      BY <3>1, <3>3 DEF CandidateRejected, TypeOK, Jobs
    <3>4. CASE ControllerRefreshes
      <4>1. ASSUME job' = [job EXCEPT !.at = AfterVerdict, !.outcome = "promoted"]
            PROVE  job'.at = AfterVerdict /\ job'.kind = job.kind
        BY <4>1 DEF TypeOK, Jobs
      <4> QED
        BY <3>1, <3>4, <4>1 DEF ControllerRefreshes
    <3>5. CASE CallbackStartsVllm \/ CallbackAwaitsVllm
      BY <3>5 DEF CallbackStartsVllm, CallbackAwaitsVllm, Container, Await
    <3> QED
      BY <1>3, <3>2, <3>3, <3>4, <3>5
         DEF CallbackGoesOn, CandidateLoads, CandidateEvaluates,
           CandidatePromoted, CandidateRaises, DoneFinishes, BatchFinishes,
           SkipFinishes
  <2> QED
    BY <1>1, <2>1, <2>2, <2>3, <2>4, NoLeaseHeld DEF Borrows, Completing
<1>4. CASE RecoveryGoesOn
  <2>1. job.kind \notin {"free", "rollback"}
    BY <1>4
       DEF RecoveryGoesOn, Recovers, RecoveryStartsVllm, RecoveryAwaitsVllm,
         RecoveryReopens, RecoveryRecords, LendInv, KindFitsPlace
  <2>2. rec.phase # "image_edit"
    BY <2>1 DEF LendInv, OnlyRollbackMeetsLease
  <2>3. rec'.phase # "image_edit"
    BY <1>4, <2>2
       DEF TypeOK, Records, RecoveryGoesOn, Recovers, RecoveryStartsVllm,
         RecoveryAwaitsVllm, RecoveryReopens, RecoveryRecords
  <2>4. /\ job'.at # "undo"
        /\ \/ job'.kind = job.kind /\ job'.lease = job.lease
           \/ job'.kind = "free"
    BY <1>4
       DEF TypeOK, Jobs, Goto, RecoveryGoesOn, Recovers, RecoveryStartsVllm,
         RecoveryAwaitsVllm, RecoveryReopens, RecoveryRecords, Container, Await
  <2> QED
    BY <1>1, <2>2, <2>3, <2>4, NoLeaseHeld DEF Borrows
<1> QED
  BY <1>2, <1>3, <1>4

\* Acquire and release: what is recorded is what they work on.
LEMMA LeaseHeldOn ==
  ASSUME TypeOK, LendInv, HeldInv, LeaseGoesOn
  PROVE  HeldInv' /\ (rec.phase = "image_edit" => rec'.phase = "image_edit")
<1> USE Moves
<1>1. UNCHANGED <<look, spent, enabled>>
  BY DEF LeaseGoesOn, AcquireDrains, AcquireStops, LeaseGranted,
       MemoryNeverFree, AcquireRestoresVllm, AcquireAwaitsVllm, AcquireReopens,
       AcquireFails, LeaseKeptForRetry, ReleaseStartsVllm, ReleaseAwaitsVllm,
       ReleaseFinishes, edge, mail, world
<1>2. Borrows
  BY DEF LeaseGoesOn, AcquireDrains, AcquireStops, LeaseGranted,
       MemoryNeverFree, AcquireRestoresVllm, AcquireAwaitsVllm, AcquireReopens,
       AcquireFails, LeaseKeptForRetry, ReleaseStartsVllm, ReleaseAwaitsVllm,
       ReleaseFinishes, At, HeldInv, LeasesSpent, Borrows
<1>3. rec.phase # "image_edit"
  BY <1>2 DEF Borrows, LendInv, OnlyRollbackMeetsLease
<1>4. CASE LeaseGranted \/ LeaseKeptForRetry
  <2>1. /\ rec'.lease = job.lease /\ rec'.outcome = "none"
        /\ LeaseGranted => ~rec'.expired /\ job.kind = "acquire"
        /\ LeaseKeptForRetry => rec'.expired
    BY <1>4 DEF LeaseGranted, LeaseKeptForRetry, LeaseRecord, Blank, At
  <2>2. job'.kind = "free" /\ job'.at = "none"
    BY <1>4 DEF LeaseGranted, LeaseKeptForRetry
  <2> QED
    BY <1>1, <1>2, <1>3, <1>4, <2>1, <2>2
       DEF HeldInv, SeenLateIsLate, AcquiredUnseen, LeasesSpent,
         LeaseUnsettled, NightlyEnabled, Borrows
<1>5. CASE LeaseGoesOn /\ ~LeaseGranted /\ ~LeaseKeptForRetry
  <2>1. rec'.phase # "image_edit"
    BY <1>3, <1>5
       DEF LeaseGoesOn, AcquireDrains, AcquireStops, MemoryNeverFree,
         AcquireRestoresVllm, AcquireAwaitsVllm, AcquireReopens, AcquireFails,
         ReleaseStartsVllm, ReleaseAwaitsVllm, ReleaseFinishes, Blank
  <2>2. \/ job'.kind = job.kind /\ job'.lease = job.lease
        \/ job'.kind = "free" /\ job'.at = "none"
    BY <1>5
       DEF TypeOK, Jobs, Goto, LeaseGoesOn, AcquireDrains, AcquireStops,
         MemoryNeverFree, AcquireRestoresVllm, AcquireAwaitsVllm,
         AcquireReopens, AcquireFails, ReleaseStartsVllm, ReleaseAwaitsVllm,
         ReleaseFinishes, Container, Await, Drain
  <2> QED
    BY <1>1, <1>2, <1>3, <2>1, <2>2, NoLeaseHeld DEF Borrows
<1> QED
  BY <1>3, <1>4, <1>5

\* The rollback leaves the record alone.
LEMMA RollbackHeld ==
  ASSUME TypeOK, LendInv, HeldInv, RollbackGoesOn \/ Reopens
  PROVE  HeldInv' /\ UNCHANGED rec
<1> USE Moves
<1>1. UNCHANGED <<rec, look, spent, enabled>>
  BY DEF RollbackGoesOn, RollbackDrains, RollbackSwaps, RollbackVerifies,
       RollbackRestores, Reopens, edge, mail, world
<1>2. /\ job'.at # "undo"
      /\ \/ job'.kind = job.kind /\ job'.lease = job.lease
         \/ job'.kind = "free"
  <2>1. CASE RollbackSwaps
    <3>1. ASSUME job' = [job EXCEPT !.at = "verify",
                            !.prior = [current |-> reg.current,
                                       rollback |-> reg.rollback]]
          PROVE  job'.at = "verify" /\ job'.kind = job.kind /\ job'.lease = job.lease
      BY <3>1 DEF TypeOK, Jobs
    <3> QED
      BY <2>1, <3>1 DEF RollbackSwaps
  <2> QED
    BY <2>1
       DEF TypeOK, Jobs, Goto, RollbackGoesOn, RollbackDrains,
         RollbackVerifies, RollbackRestores, Reopens, Drain
<1> QED
  BY <1>1, <1>2
     DEF HeldInv, SeenLateIsLate, AcquiredUnseen, LeasesSpent, LeaseUnsettled,
       NightlyEnabled, Borrows

\* What begins beside a lease is a rollback; an acquire takes a new id.
LEMMA BeginsHeld ==
  ASSUME TypeOK, HeldInv, Begins
  PROVE  HeldInv' /\ (rec.phase = "image_edit" => rec'.phase = "image_edit")
<1>0. rec.phase = "image_edit" => SettledRecord = rec
  BY DEF SettledRecord, TerminalOutcomes, HeldInv, LeaseUnsettled
<1>1. UNCHANGED <<look, enabled>> /\ spent \subseteq spent'
  BY DEF Begins, NightlyDisabled, NightlyStarts, AcquireStarts, RollbackStarts,
       edge, mail, world
<1>2. ~NightlyDisabled
  BY DEF NightlyDisabled, Present, HeldInv, NightlyEnabled
<1>3. CASE NightlyStarts
  <2>1. rec.phase # "image_edit" /\ rec'.phase # "image_edit"
    BY <1>0, <1>3 DEF NightlyStarts, SettledRecord, Blank, TypeOK, Records
  <2>2. job'.kind = "nightly" /\ job'.at = "sense"
    BY <1>3 DEF NightlyStarts, Take, FreeJob
  <2> QED
    BY <1>1, <2>1, <2>2, NoLeaseHeld DEF Borrows
<1>4. CASE AcquireStarts
  <2>1. rec.phase # "image_edit" /\ rec'.phase # "image_edit"
    BY <1>0, <1>4 DEF AcquireStarts
  <2>2. PICK l \in Leases \ spent :
          /\ job' = [Take("acquire", "drain") EXCEPT !.lease = l]
          /\ spent' = spent \cup {l}
    BY <1>4 DEF AcquireStarts
  <2>3. job'.kind = "acquire" /\ job'.at = "drain" /\ job'.lease = l
    BY <2>2 DEF Take, FreeJob
  <2> QED
    BY <1>1, <2>1, <2>2, <2>3
       DEF HeldInv, SeenLateIsLate, AcquiredUnseen, LeasesSpent,
         LeaseUnsettled, NightlyEnabled, Borrows
<1>5. CASE RollbackStarts
  <2>1. job'.kind = "rollback" /\ job'.at = "drain" /\ UNCHANGED <<rec, spent>>
    BY <1>5, Moves DEF RollbackStarts, edge, world
  <2> QED
    BY <1>1, <2>1
       DEF HeldInv, SeenLateIsLate, AcquiredUnseen, LeasesSpent,
         LeaseUnsettled, NightlyEnabled, Borrows
<1> QED
  BY <1>2, <1>3, <1>4, <1>5 DEF Begins

\* No callback matches a record that has a lease.
LEMMA BackgroundHeld ==
  ASSUME TypeOK, HeldInv, BackgroundTask
  PROVE  HeldInv' /\ (rec.phase = "image_edit" => rec'.phase = "image_edit")
<1>1. ASSUME NEW m \in tasks, CallbackDropped(m)
      PROVE  HeldInv' /\ UNCHANGED rec
  BY <1>1, StillHeld DEF CallbackDropped, core, world
<1>2. ASSUME NEW m \in tasks,
             FailureReported(m) \/ SkipReported(m) \/ BatchReported(m) \/ DoneReported(m)
      PROVE  HeldInv' /\ rec.phase # "image_edit"
  <2>1. rec.phase # "image_edit" /\ UNCHANGED <<look, spent, enabled>>
    BY <1>2
       DEF FailureReported, SkipReported, BatchReported, DoneReported,
         CallbackApplies, Matches, world
  <2>2. rec'.phase # "image_edit"
    BY <1>2, <2>1
       DEF FailureReported, SkipReported, BatchReported, DoneReported, TypeOK,
         Records
  <2>3. job'.kind \in {"failure", "skipped", "batch", "done"}
    BY <1>2
       DEF FailureReported, SkipReported, BatchReported, DoneReported, Take,
         FreeJob
  <2>4. job'.at \in {"start", "recover"}
    BY <1>2
       DEF FailureReported, SkipReported, BatchReported, DoneReported, Take,
         FreeJob
  <2> QED
    BY <2>1, <2>2, <2>3, <2>4, NoLeaseHeld DEF Borrows
<1> QED
  BY <1>1, <1>2 DEF BackgroundTask

\* A lease that is released was the one recorded.
LEMMA ReleaseHeld ==
  ASSUME TypeOK, HeldInv, NEW l, Release(l), look' = look \/ ~look'.late,
         UNCHANGED <<spent, enabled>>
  PROVE  HeldInv'
<1>1. CASE MayRelease(l)
  <2>1. job'.kind = "release" /\ job'.at = "start" /\ job'.lease = l
    BY <1>1 DEF Release, Take, FreeJob
  <2>2. rec'.phase # "image_edit" /\ l \in spent
    BY <1>1 DEF Release, MayRelease, TypeOK, Records, HeldInv, LeasesSpent
  <2> QED
    BY <2>1, <2>2
       DEF HeldInv, SeenLateIsLate, AcquiredUnseen, LeasesSpent,
         LeaseUnsettled, NightlyEnabled, Borrows
<1>2. CASE ~MayRelease(l)
  BY <1>2
     DEF Release, HeldInv, SeenLateIsLate, AcquiredUnseen, LeasesSpent,
       LeaseUnsettled, NightlyEnabled, Borrows
<1> QED
  BY <1>1, <1>2

\* Requests, time, trainer; and the client, whose release ends its own lease.
LEMMA OutsideHeld ==
  ASSUME TypeOK, HeldInv, VllmBecomesHealthy \/ Trainer \/ Clients
  PROVE  /\ HeldInv'
         /\ rec.phase = "image_edit" /\ rec'.phase # "image_edit"
              => rec.lease \in clients \ clients'
<1>1. ASSUME \/ VllmBecomesHealthy \/ Trainer
             \/ \E q \in Requests : Admit(q) \/ Finish(q)
             \/ \E m \in posted : CallbackRepeated(m)
             \/ OperatorSwitches
      PROVE  HeldInv' /\ UNCHANGED rec
  <2>1. UNCHANGED <<rec, job, look, enabled>> /\ spent \subseteq spent'
    BY <1>1
       DEF VllmBecomesHealthy, Trainer, TrainerCreated, TrainerRemoved,
         TrainerBoots, TrainerDies, TrainerReports, Admit, Finish,
         CallbackRepeated, OperatorSwitches, core, edge, mail, world
  <2> QED
    BY <2>1, StillHeld
<1>2. CASE LeaseExpires
  BY <1>2
     DEF LeaseExpires, edge, world, HeldInv, SeenLateIsLate, AcquiredUnseen,
       LeasesSpent, LeaseUnsettled, NightlyEnabled, Borrows, TypeOK, Records
<1>3. ASSUME NEW l \in Leases, ClientReleases(l)
      PROVE  /\ HeldInv'
             /\ rec.phase = "image_edit" /\ rec'.phase # "image_edit"
                  => rec.lease \in clients \ clients'
  <2>1. HeldInv'
    BY <1>3, ReleaseHeld, StillHeld DEF ClientReleases
  <2>2. UNCHANGED rec \/ MayRelease(l)
    BY <1>3 DEF ClientReleases, Release
  <2>3. l \in clients \ clients'
    BY <1>3 DEF ClientReleases
  <2> QED
    BY <2>1, <2>2, <2>3 DEF MayRelease
<1>4. LeaseExpires => rec'.phase = rec.phase
  BY DEF LeaseExpires, TypeOK, Records
<1> QED
  BY <1>1, <1>2, <1>3, <1>4 DEF Clients

\* The reconcilers: only a lease whose time is over is taken.
LEMMA ReconcilersHeld ==
  ASSUME TypeOK, LendInv, HeldInv, Reconcilers
  PROVE  HeldInv' /\ (LeaseHeld => rec'.phase = "image_edit")
<1>1. CASE LeaseReconcilerReads
  <2>1. /\ look'.lease = rec.lease /\ look'.late = rec.expired
        /\ rec.phase = "image_edit" /\ UNCHANGED <<rec, job, spent, enabled>>
    BY <1>1
       DEF LeaseReconcilerReads, LeaseLookedAt, TypeOK, Looks, core, world
  <2>2. job.kind # "acquire"
    BY <2>1 DEF LendInv, OnlyRollbackMeetsLease
  <2> QED
    BY <2>1, <2>2
       DEF HeldInv, SeenLateIsLate, AcquiredUnseen, LeasesSpent,
         LeaseUnsettled, NightlyEnabled, Borrows, LeaseHeld
<1>2. CASE LeaseReconcilerEnters \/ StalledReconcilerReads
  <2>1. /\ look'.lease = look.lease /\ look'.late = look.late
        /\ UNCHANGED <<rec, job, spent, enabled>>
    BY <1>2
       DEF LeaseReconcilerEnters, StalledReconcilerReads, TypeOK, Looks, core,
         world
  <2> QED
    BY <2>1, StillHeld DEF LeaseHeld
<1>3. CASE LeaseReconcilerActs
  <2>1. ~look'.late /\ UNCHANGED <<spent, enabled>>
    BY <1>3 DEF LeaseReconcilerActs, LeaseForgotten, TypeOK, Looks, world
  <2>2. CASE Release(look.lease) /\ (look.late \/ (rec.lease = look.lease /\ rec.expired))
    <3>1. HeldInv'
      BY <2>1, <2>2, ReleaseHeld
    <3>2. LeaseHeld => ~MayRelease(look.lease)
      BY <2>2 DEF LeaseHeld, MayRelease, HeldInv, SeenLateIsLate
    <3> QED
      BY <2>2, <3>1, <3>2 DEF Release, LeaseHeld
  <2>3. CASE UNCHANGED <<rec, job>>
    BY <2>1, <2>3
       DEF HeldInv, SeenLateIsLate, AcquiredUnseen, LeasesSpent,
         LeaseUnsettled, NightlyEnabled, Borrows, LeaseHeld
  <2> QED
    BY <1>3, <2>2, <2>3 DEF LeaseReconcilerActs
<1>4. CASE StalledReconcilerActs
  <2>1. /\ look'.lease = look.lease /\ look'.late = look.late
        /\ UNCHANGED <<rec, spent, enabled>>
    BY <1>4 DEF StalledReconcilerActs, TypeOK, Looks, world
  <2>2. UNCHANGED job \/ (job'.kind = "failure" /\ job'.at = "recover")
    BY <1>4 DEF StalledReconcilerActs, Take, FreeJob
  <2> QED
    BY <2>1, <2>2
       DEF HeldInv, SeenLateIsLate, AcquiredUnseen, LeasesSpent,
         LeaseUnsettled, NightlyEnabled, Borrows, LeaseHeld
<1> QED
  BY <1>1, <1>2, <1>3, <1>4 DEF Reconcilers

\* A restart finds the lease and keeps it.
LEMMA ProcessHeld ==
  ASSUME TypeOK, LendInv, HeldInv, "compose" \notin Actors, Process
  PROVE  HeldInv' /\ (rec.phase = "image_edit" => rec' = rec)
<1>1. CASE Crash
  <2>1. /\ job'.kind = "free" /\ job'.at = "none" /\ ~look'.late
        /\ UNCHANGED <<rec, spent, enabled>>
    BY <1>1 DEF Crash, ProcessGone, FreeJob, Unlooked
  <2> QED
    BY <2>1
       DEF HeldInv, SeenLateIsLate, AcquiredUnseen, LeasesSpent,
         LeaseUnsettled, NightlyEnabled, Borrows
<1>2. CASE Restart
  <2>1. rec.phase = "image_edit" => SettledRecord = rec
    BY DEF SettledRecord, TerminalOutcomes, HeldInv, LeaseUnsettled
  <2>2. SettledRecord.phase = "image_edit" => rec.phase = "image_edit"
    BY DEF SettledRecord, TypeOK, Records
  <2>3. UNCHANGED <<job, spent, enabled>> /\ rec' = SettledRecord
    BY <1>2 DEF Restart
  <2>4. \/ look' = look
        \/ /\ rec.phase = "image_edit" /\ look'.lease = rec.lease
           /\ look'.late = rec.expired
    BY <1>2, <2>1, <2>2 DEF Restart, LeaseLookedAt, TypeOK, Looks
  <2>5. job.kind # "acquire" \/ look' = look
    BY <2>4 DEF LendInv, OnlyRollbackMeetsLease
  <2> QED
    BY <2>1, <2>2, <2>3, <2>4, <2>5
       DEF HeldInv, SeenLateIsLate, AcquiredUnseen, LeasesSpent,
         LeaseUnsettled, NightlyEnabled, Borrows
<1>3. CASE Serves
  BY <1>3, StillHeld DEF Serves, core
<1> QED
  BY <1>1, <1>2, <1>3 DEF Process, ComposeCycle, Present

\* The initial states.
LEMMA InitHeld ==
  ASSUME "nightly" \in Actors => TrainingEnabled = {TRUE}, Init
  PROVE  LendInv /\ HeldInv
<1>1. rec.phase = "idle" /\ job.kind = "free" /\ job.at = "none" /\ ~look.late
  BY DEF Init, Blank, FreeJob, Unlooked
<1>2. NightlyEnabled
  <2>1. "nightly" \in Actors => enabled \in {TRUE}
    BY DEF Init
  <2>2. enabled \in {TRUE} => enabled
    BY Zenon
  <2> QED
    BY <2>1, <2>2 DEF NightlyEnabled
<1>3. LendInv
  BY <1>1
     DEF LendInv, OnlyRollbackMeetsLease, LeaseExcludesInference, LeaseHeld,
       StoppedWhileWaiting, KindFitsPlace
<1>4. HeldInv
  BY <1>1, <1>2
     DEF HeldInv, SeenLateIsLate, AcquiredUnseen, LeasesSpent,
       LeaseUnsettled, Borrows
<1> QED
  BY <1>3, <1>4

\* Every step keeps the invariant, and ends no lease but by its client.
LEMMA NextHeld ==
  ASSUME TypeOK, LendInv, HeldInv, "compose" \notin Actors, [Next]_vars
  PROVE  /\ HeldInv'
         /\ LeaseHeld /\ rec'.phase # "image_edit" => rec.lease \in clients \ clients'
<1>1. CASE UNCHANGED vars
  BY <1>1, StillHeld DEF vars, core, edge, world, LeaseHeld
<1> QED
  BY <1>1, TrainingHeld, LeaseHeldOn, RollbackHeld, BeginsHeld, BackgroundHeld,
     OutsideHeld, ReconcilersHeld, ProcessHeld DEF Next, LockHolder, LeaseHeld

\* An image lease that has not run out ends by its client's DELETE and by
\* nothing else (lifecycle.py:212-267), whichever stale read the reconciler
\* acts on and wherever the policy dies; provided the nightly job finds
\* training enabled (393-402) and nobody recreates the containers.
THEOREM LeaseEndsTheorem ==
  ASSUME "compose" \notin Actors,
         "nightly" \in Actors => TrainingEnabled = {TRUE}
  PROVE  Spec => LeaseEndsByItsClient
<1>1. Init => LendInv /\ HeldInv
  BY InitHeld
<1>2. TypeOK /\ LendInv /\ HeldInv /\ [Next]_vars
        => /\ LendInv' /\ HeldInv'
           /\ [LeaseHeld /\ rec'.phase # "image_edit"
                 => rec.lease \in clients \ clients']_vars
  BY NextLend, NextHeld
<1> QED
  BY <1>1, <1>2, TypeCorrect, PTL DEF Spec, LeaseEndsByItsClient

-----------------------------------------------------------------------------
(***************************************************************************)
(* GateMatchesPhase.  Each place of an operation knows how it finds the    *)
(* gate, and each way out of it leaves gate and record in accord.          *)
(***************************************************************************)
Lent == rec.phase \in {"training", "image_edit"}

\* Who is present when only the operations themselves work the gate.
GateActors == {"nightly", "lease", "stalledReconciler", "duplicate"}

Completions == {"done", "batch", "skipped"}

OpenPlaces == {"sense", "prepare", "recoverFailed", "undoFailed"}
ShutPlaces == {"drain", "stop", "request", "launch", "launched", "memory", "undo",
               "undoStart", "undoWait"}

\* No lease reconciler looks, and nobody takes the lock who is not present.
OnlyOperations ==
  /\ serving = "up" /\ look.lease = None /\ ~look.entered
  /\ job.kind \in {"free", "nightly", "acquire", "release", "failure"} \cup Completions

ShutInPlaces ==
  /\ job.at \in ShutPlaces => maint
  /\ job.kind = "release" /\ job.at \in {"start", "wait"} => maint

OpenInPlaces ==
  /\ job.at \in OpenPlaces => ~maint
  /\ job.at = "finish" /\ job.kind # "done" => ~maint

\* complete_training writes its record before it opens the gate.
DoneBeforeOpen == job.kind = "done" /\ job.at = "reopen" => rec.phase = "idle"

\* A night that has not reached the trainer has lent nothing.
NotLentYet == job.at \in {"sense", "prepare"} => ~Lent

\* What a run or a lease writes first leaves no outcome of an earlier run in
\* the record: nothing settles it while the memory is lent.
NoStaleOutcome ==
  (Lent \/ rec.phase = "postponed" \/ job.kind = "nightly") => rec.outcome = "none"

AccordInv ==
  /\ OnlyOperations /\ ShutInPlaces /\ OpenInPlaces /\ DoneBeforeOpen
  /\ NotLentYet /\ NoStaleOutcome /\ NightlyEnabled
  /\ GateMatchesPhase

\* An operation that has left.
LEMMA LeftAccord ==
  ASSUME AccordInv, UNCHANGED <<serving, look, enabled>>, Leave,
         Lent' <=> maint', rec'.phase \in {"training", "image_edit", "postponed"}
                             => rec'.outcome = "none"
  PROVE  AccordInv'
BY DEF AccordInv, OnlyOperations, ShutInPlaces, OpenInPlaces, DoneBeforeOpen,
     NotLentYet, NoStaleOutcome, NightlyEnabled, GateMatchesPhase, Free, Lent, Leave,
     FreeJob, OpenPlaces, ShutPlaces, Completions

\* An operation that is under way, and keeps its places' promises.
LEMMA UnderWayAccord ==
  ASSUME AccordInv, UNCHANGED <<serving, look, enabled>>,
         job'.kind \in {"nightly", "acquire", "release", "failure"} \cup Completions,
         ShutInPlaces', OpenInPlaces', DoneBeforeOpen', NotLentYet', NoStaleOutcome'
  PROVE  AccordInv'
BY DEF AccordInv, OnlyOperations, NightlyEnabled, GateMatchesPhase, Free, Completions

\* Anything that leaves record, lock and gate alone.
LEMMA StillAccord ==
  ASSUME AccordInv, UNCHANGED <<rec, job, maint, serving, enabled>>,
         look'.lease = look.lease, look'.entered = look.entered
  PROVE  AccordInv'
BY DEF AccordInv, OnlyOperations, ShutInPlaces, OpenInPlaces, DoneBeforeOpen,
     NotLentYet, NoStaleOutcome, NightlyEnabled, GateMatchesPhase, Free, Lent,
     OpenPlaces, ShutPlaces, Completions

\* The nightly job enters, drains, stops, and leaves the gate shut for the
\* trainer.
LEMMA NightlyAccord ==
  ASSUME TypeOK, AccordInv, NightlyGoesOn
  PROVE  AccordInv'
<1> USE Moves
<1>1. UNCHANGED <<serving, look, enabled>> /\ job.kind = "nightly" /\ rec.outcome = "none"
  BY DEF NightlyGoesOn, NightlySenses, NightlyPrepares, NightlyEnters,
       NightlyDrains, NightlyStops, NightlyRequests, NightlyLaunches,
       NightlyConfirms, At, edge, mail, world, AccordInv, NoStaleOutcome
<1>2. rec'.outcome = "none"
  BY <1>1
     DEF TypeOK, Records, NightlyGoesOn, NightlySenses, NightlyPrepares,
       NightlyEnters, NightlyDrains, NightlyStops, NightlyRequests,
       NightlyLaunches, NightlyConfirms
<1>3. ASSUME job'.kind = "nightly", ShutInPlaces', OpenInPlaces', NotLentYet'
      PROVE  AccordInv'
  BY <1>1, <1>2, <1>3, UnderWayAccord DEF NoStaleOutcome, DoneBeforeOpen, Completions
<1>4. CASE NightlySenses
  <2>1. ~maint' /\ rec'.phase \in {"postponed", "preparing_training"}
    BY <1>4
       DEF NightlySenses, At, AccordInv, OpenInPlaces, OpenPlaces, TypeOK, Records
  <2>2. job'.kind = "nightly" /\ job'.at \in {"sense", "prepare"}
    BY <1>4 DEF NightlySenses, At
  <2> QED
    BY <1>3, <2>1, <2>2
       DEF ShutInPlaces, OpenInPlaces, NotLentYet, Lent, ShutPlaces, OpenPlaces
<1>5. CASE NightlyPrepares
  <2>1. /\ ~maint'
        /\ ~Lent /\ (rec' = rec \/ rec'.phase = "waiting_for_training_container"
                                \/ rec'.phase = "draining")
    BY <1>5
       DEF NightlyPrepares, At, AccordInv, OpenInPlaces, OpenPlaces,
         NotLentYet, TypeOK, Records
  <2>2. ~Lent'
    BY <2>1 DEF Lent
  <2>3. Leave \/ (job'.kind = "nightly" /\ job'.at \in {"prepare", "enter"})
    BY <1>5 DEF NightlyPrepares, At
  <2>4. CASE Leave
    BY <1>1, <1>2, <2>1, <2>2, <2>4, LeftAccord
  <2>5. CASE job'.kind = "nightly" /\ job'.at \in {"prepare", "enter"}
    BY <1>3, <2>1, <2>2, <2>5
       DEF ShutInPlaces, OpenInPlaces, NotLentYet, ShutPlaces, OpenPlaces
  <2> QED
    BY <2>3, <2>4, <2>5
<1>6. CASE NightlyEnters \/ NightlyDrains \/ NightlyStops \/ NightlyRequests \/ NightlyLaunches
  <2>1. maint' /\ job'.kind = "nightly"
        /\ job'.at \in {"drain", "stop", "request", "launch", "launched", "recover"}
    BY <1>6
       DEF NightlyEnters, NightlyDrains, NightlyStops, NightlyRequests,
         NightlyLaunches, At, Drain, Container, AccordInv, ShutInPlaces,
         ShutPlaces
  <2> QED
    BY <1>3, <2>1
       DEF ShutInPlaces, OpenInPlaces, NotLentYet, ShutPlaces, OpenPlaces
<1>7. CASE NightlyConfirms
  <2>1. maint' /\ rec'.phase = "training" /\ Leave
    BY <1>7
       DEF NightlyConfirms, At, AccordInv, ShutInPlaces, ShutPlaces, TypeOK,
         Records
  <2> QED
    BY <1>1, <1>2, <2>1, LeftAccord DEF Lent
<1> QED
  BY <1>4, <1>5, <1>6, <1>7 DEF NightlyGoesOn

\* A callback's operation opens the gate before it says the run is over, or
\* just after; until then it makes no promise.
LEMMA CallbackAccord ==
  ASSUME TypeOK, AccordInv, CallbackGoesOn
  PROVE  AccordInv'
<1> USE Moves
<1>1. UNCHANGED <<serving, look, enabled, maint>> /\ job.kind \in Completions
  BY DEF CallbackGoesOn, CallbackStartsVllm, CallbackAwaitsVllm,
       CandidateChosen, CandidateLoads, CandidateEvaluates, CandidateRejected,
       CandidatePromoted, CandidateRaises, ControllerRefreshes, DoneFinishes,
       BatchFinishes, SkipFinishes, Completing, Completions, At, edge, mail,
       world
<1>2. CASE BatchFinishes \/ SkipFinishes
  <2>1. rec'.phase = "idle" /\ Leave
    BY <1>2 DEF BatchFinishes, SkipFinishes, TypeOK, Records
  <2>2. job.at = "finish" /\ job.kind # "done"
    BY <1>2 DEF BatchFinishes, SkipFinishes, At
  <2>3. ~maint'
    BY <1>1, <2>2 DEF AccordInv, OpenInPlaces
  <2> QED
    BY <1>1, <2>1, <2>3, LeftAccord DEF Lent
<1>3. CASE DoneFinishes
  <2>1. rec'.phase = "idle" /\ job'.kind = "done" /\ job'.at = "reopen"
    BY <1>3 DEF DoneFinishes, At, TypeOK, Records
  <2> QED
    BY <1>1, <2>1, UnderWayAccord
       DEF ShutInPlaces, OpenInPlaces, DoneBeforeOpen, NotLentYet,
         NoStaleOutcome, Lent, ShutPlaces, OpenPlaces, Completions
<1>4. CASE CallbackGoesOn /\ ~BatchFinishes /\ ~SkipFinishes /\ ~DoneFinishes
  <2>1. /\ job'.kind = job.kind
        /\ job'.at \in {"start", "wait", "load", "evaluate", "decide", "refresh",
                        "recover", AfterVerdict}
             \cup IF job.kind = "done" THEN {} ELSE {"reopen"}
    <3>1. CASE CandidateChosen
      <4>1. PICK a \in job.todo, p \in {"evaluate", "recover"} :
              job' = [job EXCEPT !.at = p, !.cand = a, !.todo = job.todo \ {a}]
        BY <3>1 DEF CandidateChosen
      <4> QED
        BY <4>1 DEF TypeOK, Jobs
    <3>2. CASE CandidateRejected
      BY <3>2 DEF CandidateRejected, TypeOK, Jobs
    <3>3. CASE ControllerRefreshes
      <4>1. ASSUME job' = [job EXCEPT !.at = AfterVerdict, !.outcome = "promoted"]
            PROVE  job'.at = AfterVerdict /\ job'.kind = job.kind
        BY <4>1 DEF TypeOK, Jobs
      <4> QED
        BY <3>3, <4>1 DEF ControllerRefreshes
    <3>4. CASE CallbackStartsVllm \/ CallbackAwaitsVllm
      BY <1>1, <3>4
         DEF CallbackStartsVllm, CallbackAwaitsVllm, Container, Await,
           Completions
    <3> QED
      BY <1>4, <3>1, <3>2, <3>3, <3>4
         DEF CallbackGoesOn, CandidateLoads, CandidateEvaluates,
           CandidatePromoted, CandidateRaises
  <2>2. /\ job'.at \notin ShutPlaces \cup OpenPlaces
        /\ job'.at = "finish" => job'.kind = "done"
        /\ job'.kind = "done" => job'.at # "reopen"
    BY <2>1 DEF AfterVerdict, ShutPlaces, OpenPlaces
  <2>3. NoStaleOutcome'
    <3>1. rec' = rec \/ rec'.phase \in {"loading", "evaluating"}
      BY <1>4
         DEF TypeOK, Records, CallbackGoesOn, CallbackStartsVllm,
           CallbackAwaitsVllm, CandidateChosen, CandidateLoads,
           CandidateEvaluates, CandidateRejected, CandidatePromoted,
           CandidateRaises, ControllerRefreshes
    <3> QED
      BY <1>1, <2>1, <3>1 DEF AccordInv, NoStaleOutcome, Lent, Completions
  <2> QED
    BY <1>1, <2>1, <2>2, <2>3, UnderWayAccord
       DEF ShutInPlaces, OpenInPlaces, DoneBeforeOpen, NotLentYet,
         Completions, OpenPlaces
<1> QED
  BY <1>2, <1>3, <1>4

\* The recovery and every success open the gate and end outside a loan.
LEMMA RecoveryAccord ==
  ASSUME TypeOK, LendInv, AccordInv, RecoveryGoesOn \/ Reopens
  PROVE  AccordInv'
<1> USE Moves
<1>1. UNCHANGED <<serving, look, enabled>>
  BY DEF RecoveryGoesOn, Recovers, RecoveryStartsVllm, RecoveryAwaitsVllm,
       RecoveryReopens, RecoveryRecords, Reopens, edge, mail, world
<1>2. job.kind = "free" => job.at = "none"
  BY DEF LendInv, KindFitsPlace
<1>3. CASE RecoveryRecords
  <2>1. rec'.phase = "failed" /\ Leave /\ ~maint'
    BY <1>3
       DEF RecoveryRecords, AccordInv, OpenInPlaces, OpenPlaces, TypeOK,
         Records
  <2> QED
    BY <1>1, <2>1, LeftAccord DEF Lent
<1>4. CASE Recovers \/ RecoveryStartsVllm \/ RecoveryAwaitsVllm \/ RecoveryReopens
  <2>1. /\ job'.kind = job.kind
        /\ job'.at \in {"recoverStart", "recoverWait", "recoverExit", "recoverFailed"}
        /\ job'.at = "recoverFailed" => ~maint'
    BY <1>4
       DEF Recovers, RecoveryStartsVllm, RecoveryAwaitsVllm, RecoveryReopens,
         Container, Await
  <2>2. job.kind # "free"
    BY <1>2, <1>4
       DEF Recovers, RecoveryStartsVllm, RecoveryAwaitsVllm, RecoveryReopens
  <2>3. NoStaleOutcome'
    <3>1. rec' = rec \/ (rec'.phase = "recovering" /\ rec'.outcome = rec.outcome)
      BY <1>4
         DEF Recovers, RecoveryStartsVllm, RecoveryAwaitsVllm,
           RecoveryReopens, TypeOK, Records
    <3> QED
      BY <2>1, <3>1 DEF AccordInv, NoStaleOutcome, Lent
  <2> QED
    BY <1>1, <2>1, <2>2, <2>3, UnderWayAccord
       DEF AccordInv, OnlyOperations, ShutInPlaces, OpenInPlaces,
         DoneBeforeOpen, NotLentYet, ShutPlaces, OpenPlaces
<1>5. CASE Reopens
  <2>1. ~maint' /\ UNCHANGED rec /\ job.kind # "free"
    BY <1>2, <1>5 DEF Reopens
  <2>2. CASE job.kind = "done"
    <3>1. Leave /\ rec'.phase = "idle"
      BY <1>5, <2>2 DEF Reopens, AccordInv, DoneBeforeOpen
    <3> QED
      BY <1>1, <2>1, <3>1, LeftAccord DEF Lent
  <2>3. CASE job.kind # "done"
    <3>1. job'.kind = job.kind /\ job'.at = "finish"
      BY <1>5, <2>3 DEF Reopens, AccordInv, OnlyOperations, Completions
    <3> QED
      BY <1>1, <2>1, <2>3, <3>1, UnderWayAccord
         DEF AccordInv, OnlyOperations, ShutInPlaces, OpenInPlaces,
           DoneBeforeOpen, NotLentYet, NoStaleOutcome, Lent, ShutPlaces,
           OpenPlaces
  <2> QED
    BY <2>2, <2>3
<1> QED
  BY <1>3, <1>4, <1>5 DEF RecoveryGoesOn

\* The lease: granted, it keeps the gate shut; given back, it opens it.
LEMMA LeaseAccord ==
  ASSUME TypeOK, LendInv, AccordInv, HeldInv, LeaseGoesOn
  PROVE  AccordInv'
<1> USE Moves
<1>1. UNCHANGED <<serving, look, enabled>>
  BY DEF LeaseGoesOn, AcquireDrains, AcquireStops, LeaseGranted,
       MemoryNeverFree, AcquireRestoresVllm, AcquireAwaitsVllm, AcquireReopens,
       AcquireFails, LeaseKeptForRetry, ReleaseStartsVllm, ReleaseAwaitsVllm,
       ReleaseFinishes, edge, mail, world
<1>2. Borrows
  BY DEF LeaseGoesOn, AcquireDrains, AcquireStops, LeaseGranted,
       MemoryNeverFree, AcquireRestoresVllm, AcquireAwaitsVllm, AcquireReopens,
       AcquireFails, LeaseKeptForRetry, ReleaseStartsVllm, ReleaseAwaitsVllm,
       ReleaseFinishes, At, HeldInv, LeasesSpent, Borrows
<1>3. CASE LeaseGranted \/ LeaseKeptForRetry
  <2>1. rec'.phase = "image_edit" /\ rec'.outcome = "none" /\ Leave
    BY <1>3 DEF LeaseGranted, LeaseKeptForRetry, LeaseRecord, Blank
  <2>2. maint'
    BY <1>3
       DEF LeaseGranted, LeaseKeptForRetry, At, AccordInv, ShutInPlaces,
         ShutPlaces
  <2> QED
    BY <1>1, <2>1, <2>2, LeftAccord DEF Lent
<1>4. CASE AcquireFails \/ ReleaseFinishes
  <2>1. rec'.phase \in {"failed", "idle"} /\ Leave
    BY <1>4 DEF AcquireFails, ReleaseFinishes, Blank
  <2>2. ~maint'
    BY <1>4
       DEF AcquireFails, ReleaseFinishes, At, AccordInv, OpenInPlaces,
         OpenPlaces
  <2> QED
    BY <1>1, <2>1, <2>2, LeftAccord DEF Lent
<1>5. CASE LeaseGoesOn /\ ~(LeaseGranted \/ LeaseKeptForRetry \/ AcquireFails \/ ReleaseFinishes)
  <2>1. job'.kind = job.kind /\ UNCHANGED rec
    BY <1>5
       DEF LeaseGoesOn, AcquireDrains, AcquireStops, MemoryNeverFree,
         AcquireRestoresVllm, AcquireAwaitsVllm, AcquireReopens,
         ReleaseStartsVllm, ReleaseAwaitsVllm, Container, Await, Drain
  <2>2. /\ job'.at \in {"stop", "memory", "undo", "undoStart", "undoWait", "undoExit",
                         "undoFailed", "wait", "reopen"}
        /\ job'.at = "wait" => job.kind = "release"
        /\ job'.at = "undoFailed" => ~maint'
    BY <1>5
       DEF LeaseGoesOn, AcquireDrains, AcquireStops, MemoryNeverFree,
         AcquireRestoresVllm, AcquireAwaitsVllm, AcquireReopens,
         ReleaseStartsVllm, ReleaseAwaitsVllm, Container, Await, Drain, At
  <2>3. job'.at \in ShutPlaces \cup {"wait"} => maint'
    BY <1>5
       DEF LeaseGoesOn, AcquireDrains, AcquireStops, MemoryNeverFree,
         AcquireRestoresVllm, AcquireAwaitsVllm, AcquireReopens,
         ReleaseStartsVllm, ReleaseAwaitsVllm, Container, Await, Drain, At,
         AccordInv, ShutInPlaces, ShutPlaces
  <2>4. NoStaleOutcome'
    BY <1>2, <2>1 DEF AccordInv, NoStaleOutcome, Lent, Borrows
  <2> QED
    BY <1>1, <1>2, <2>1, <2>2, <2>3, <2>4, UnderWayAccord
       DEF Borrows, ShutInPlaces, OpenInPlaces, DoneBeforeOpen, NotLentYet,
         ShutPlaces, OpenPlaces
<1> QED
  BY <1>3, <1>4, <1>5

\* Nothing begins while the memory is lent, and all find the gate open.
LEMMA BeginsAccord ==
  ASSUME TypeOK, AccordInv, Actors \subseteq GateActors, Begins
  PROVE  AccordInv'
<1>1. UNCHANGED <<serving, look, enabled>> /\ Free
  BY DEF Begins, NightlyDisabled, NightlyStarts, AcquireStarts, RollbackStarts,
       edge, mail, world
<1>2. ~NightlyDisabled /\ ~RollbackStarts
  BY DEF NightlyDisabled, RollbackStarts, Present, AccordInv, NightlyEnabled,
       GateActors
<1>3. Lent \/ rec.phase = "postponed" => SettledRecord = rec
  BY DEF SettledRecord, TerminalOutcomes, AccordInv, NoStaleOutcome
<1>4. ~Lent => ~maint
  BY <1>1 DEF AccordInv, GateMatchesPhase, OnlyOperations, Lent
<1>5. CASE NightlyStarts
  <2>1. ~Lent /\ ~maint'
    BY <1>3, <1>4, <1>5 DEF NightlyStarts, Lent
  <2>2. job'.kind = "nightly" /\ job'.at = "sense"
    BY <1>5 DEF NightlyStarts, Take, FreeJob
  <2>3. ~Lent' /\ rec'.outcome = "none"
    <3>1. CASE SettledRecord.phase = "postponed"
      <4>1. rec.phase = "postponed" /\ rec' = rec
        BY <1>5, <3>1 DEF NightlyStarts, SettledRecord, TypeOK, Records
      <4> QED
        BY <4>1 DEF Lent, AccordInv, NoStaleOutcome
    <3>2. CASE SettledRecord.phase # "postponed"
      BY <1>5, <3>2 DEF NightlyStarts, Blank, Lent
    <3> QED
      BY <3>1, <3>2
  <2> QED
    BY <1>1, <2>1, <2>2, <2>3, UnderWayAccord
       DEF ShutInPlaces, OpenInPlaces, DoneBeforeOpen, NotLentYet,
         NoStaleOutcome, ShutPlaces
<1>6. CASE AcquireStarts
  <2>1. job'.kind = "acquire" /\ job'.at = "drain" /\ maint'
    BY <1>6 DEF AcquireStarts, Take, FreeJob
  <2>2. rec'.phase \in {"idle", "failed"}
    BY <1>6 DEF AcquireStarts
  <2> QED
    BY <1>1, <2>1, <2>2, UnderWayAccord
       DEF ShutInPlaces, OpenInPlaces, DoneBeforeOpen, NotLentYet,
         NoStaleOutcome, Lent, OpenPlaces
<1> QED
  BY <1>2, <1>5, <1>6 DEF Begins

\* What a callback starts makes no promise yet.
LEMMA BackgroundAccord ==
  ASSUME TypeOK, AccordInv, BackgroundTask
  PROVE  AccordInv'
<1>1. ASSUME NEW m \in tasks, CallbackDropped(m)
      PROVE  AccordInv'
  BY <1>1, StillAccord DEF CallbackDropped, core, world
<1>2. ASSUME NEW m \in tasks,
             FailureReported(m) \/ SkipReported(m) \/ BatchReported(m) \/ DoneReported(m)
      PROVE  AccordInv'
  <2>1. UNCHANGED <<serving, look, enabled>>
    BY <1>2
       DEF FailureReported, SkipReported, BatchReported, DoneReported,
         CallbackApplies, world
  <2>2. job'.kind \in {"failure", "skipped", "batch", "done"}
    BY <1>2
       DEF FailureReported, SkipReported, BatchReported, DoneReported, Take,
         FreeJob
  <2>3. job'.at \in {"start", "recover"}
    BY <1>2
       DEF FailureReported, SkipReported, BatchReported, DoneReported, Take,
         FreeJob
  <2>4. rec' = rec \/ rec'.phase = "restarting"
    BY <1>2
       DEF FailureReported, SkipReported, BatchReported, DoneReported, TypeOK,
         Records
  <2>5. NoStaleOutcome'
    BY <2>2, <2>4 DEF AccordInv, NoStaleOutcome, Lent
  <2> QED
    BY <2>1, <2>2, <2>3, <2>5, UnderWayAccord
       DEF ShutInPlaces, OpenInPlaces, DoneBeforeOpen, NotLentYet,
         Completions, ShutPlaces, OpenPlaces
<1> QED
  BY <1>1, <1>2 DEF BackgroundTask

\* The client's release finds the gate shut.
LEMMA OutsideAccord ==
  ASSUME TypeOK, AccordInv, Actors \subseteq GateActors,
         VllmBecomesHealthy \/ Trainer \/ Clients
  PROVE  AccordInv'
<1>1. ASSUME \/ VllmBecomesHealthy \/ Trainer
             \/ \E q \in Requests : Admit(q) \/ Finish(q)
             \/ \E m \in posted : CallbackRepeated(m)
      PROVE  AccordInv'
  <2>1. UNCHANGED <<rec, job, maint, serving, look, enabled>>
    BY <1>1
       DEF VllmBecomesHealthy, Trainer, TrainerCreated, TrainerRemoved,
         TrainerBoots, TrainerDies, TrainerReports, Admit, Finish,
         CallbackRepeated, core, edge, mail, world
  <2> QED
    BY <2>1, StillAccord
<1>2. CASE LeaseExpires
  <2>1. /\ UNCHANGED <<job, maint, serving, look, enabled>>
        /\ rec'.phase = rec.phase /\ rec'.outcome = rec.outcome
    BY <1>2 DEF LeaseExpires, edge, world, TypeOK, Records
  <2> QED
    BY <2>1
       DEF AccordInv, OnlyOperations, ShutInPlaces, OpenInPlaces,
         DoneBeforeOpen, NotLentYet, NoStaleOutcome, NightlyEnabled,
         GateMatchesPhase, Free, Lent, OpenPlaces, ShutPlaces, Completions
<1>3. ASSUME NEW l \in Leases, ClientReleases(l)
      PROVE  AccordInv'
  <2>1. UNCHANGED <<maint, serving, look, enabled>>
    BY <1>3 DEF ClientReleases
  <2>2. CASE UNCHANGED <<rec, job>>
    BY <2>1, <2>2, StillAccord
  <2>3. CASE Release(l) /\ MayRelease(l)
    <3>1. maint'
      BY <2>1, <2>3 DEF MayRelease, AccordInv, GateMatchesPhase, OnlyOperations
    <3>2. rec'.phase = "restarting" /\ job'.kind = "release" /\ job'.at = "start"
      BY <2>3 DEF Release, Take, FreeJob, TypeOK, Records
    <3> QED
      BY <2>1, <3>1, <3>2, UnderWayAccord
         DEF ShutInPlaces, OpenInPlaces, DoneBeforeOpen, NotLentYet,
           NoStaleOutcome, Lent, ShutPlaces, OpenPlaces
  <2> QED
    BY <1>3, <2>2, <2>3 DEF ClientReleases, Release
<1>4. ~OperatorSwitches
  BY DEF OperatorSwitches, Present, GateActors
<1> QED
  BY <1>1, <1>2, <1>3, <1>4 DEF Clients

\* The one reconciler that is present starts a recovery.
LEMMA ReconcilersAccord ==
  ASSUME TypeOK, AccordInv, Actors \subseteq GateActors, Reconcilers
  PROVE  AccordInv'
<1>1. ~LeaseReconcilerReads /\ ~LeaseReconcilerEnters /\ ~LeaseReconcilerActs
  BY DEF LeaseReconcilerReads, LeaseReconcilerEnters, LeaseReconcilerActs,
       Present, GateActors, AccordInv, OnlyOperations
<1>2. /\ UNCHANGED <<rec, maint, serving, enabled>>
      /\ look'.lease = look.lease /\ look'.entered = look.entered
  BY <1>1
     DEF Reconcilers, StalledReconcilerReads, StalledReconcilerActs, TypeOK,
       Looks, core, world
<1>3. UNCHANGED job \/ (job'.kind = "failure" /\ job'.at = "recover")
  BY <1>1
     DEF Reconcilers, StalledReconcilerReads, StalledReconcilerActs, core,
       Take, FreeJob
<1>4. CASE job'.kind = "failure" /\ job'.at = "recover"
  BY <1>2, <1>4
     DEF AccordInv, OnlyOperations, ShutInPlaces, OpenInPlaces, DoneBeforeOpen,
       NotLentYet, NoStaleOutcome, NightlyEnabled, GateMatchesPhase, Free,
       Lent, OpenPlaces, ShutPlaces
<1> QED
  BY <1>2, <1>3, <1>4, StillAccord

\* Between operations the gate is shut exactly while a trainer or an image
\* client has the memory (lifecycle.py:138-267, 391-540, 822-905), whatever
\* fails and however callbacks repeat; provided only the operations work the
\* gate (no rollback, operator, lease reconciler, crash or compose) and the
\* nightly job finds training enabled.
THEOREM GateMatchesTheorem ==
  ASSUME Actors \subseteq GateActors,
         "nightly" \in Actors => TrainingEnabled = {TRUE}
  PROVE  Spec => []GateMatchesPhase
<1>0. "compose" \notin Actors /\ ~Crash /\ ~ComposeCycle /\ ~RollbackStarts
  BY DEF GateActors, Crash, ComposeCycle, RollbackStarts, Present
<1>1. Init => LendInv /\ HeldInv /\ AccordInv
  <2> SUFFICES ASSUME Init PROVE AccordInv
    BY InitHeld
  <2>1. /\ rec.phase = "idle" /\ job.kind = "free" /\ job.at = "none"
        /\ look.lease = None /\ ~look.entered /\ serving = "up" /\ ~maint
    BY DEF Init, Blank, FreeJob, Unlooked
  <2>2. NightlyEnabled
    BY InitHeld DEF HeldInv
  <2> QED
    BY <2>1, <2>2
       DEF AccordInv, OnlyOperations, ShutInPlaces, OpenInPlaces,
         DoneBeforeOpen, NotLentYet, NoStaleOutcome, GateMatchesPhase, Free,
         Lent, OpenPlaces, ShutPlaces
<1>2. TypeOK /\ LendInv /\ HeldInv /\ AccordInv /\ [Next]_vars
        => LendInv' /\ HeldInv' /\ AccordInv'
  <2> SUFFICES ASSUME TypeOK, LendInv, HeldInv, AccordInv, [Next]_vars
               PROVE  AccordInv'
    BY <1>0, NextLend, NextHeld
  <2>1. CASE UNCHANGED vars
    BY <2>1, StillAccord DEF vars, core, edge, world
  <2>2. ~RollbackGoesOn
    BY DEF RollbackGoesOn, RollbackDrains, RollbackSwaps, RollbackVerifies,
         RollbackRestores, At, AccordInv, OnlyOperations, Completions
  <2>3. ~Process
    BY <1>0 DEF Process, Restart, Serves, AccordInv, OnlyOperations
  <2> QED
    BY <2>1, <2>2, <2>3, NightlyAccord, CallbackAccord, RecoveryAccord,
       LeaseAccord, BeginsAccord, BackgroundAccord, OutsideAccord,
       ReconcilersAccord DEF Next, LockHolder
<1>3. AccordInv => GateMatchesPhase
  BY DEF AccordInv
<1> QED
  BY <1>1, <1>2, <1>3, TypeCorrect, PTL DEF Spec

-----------------------------------------------------------------------------
(***************************************************************************)
(* AliasesApproved and VerdictIsFinal, with the dream script beside the    *)
(* policy.  An adapter id has one owner at a time: the message, the batch  *)
(* or the script that will have it registered.  So what is registered is   *)
(* new, what is judged is a candidate, and what is marked failed is not    *)
(* yet judged.                                                             *)
(***************************************************************************)
\* The script keeps the shapes too.
LEMMA ScriptType ==
  ASSUME TypeOK, Script
  PROVE  TypeOK'
<1> USE DEF TypeOK, core, mail
<1>0. NoDream \in Dreams
  BY DEF NoDream, Dreams
<1>1. CASE DreamStarts
  <2>1. PICK r \in Runs \ spent :
          /\ rec' = [rec EXCEPT !.phase = "training", !.run = r]
          /\ spent' = spent \cup {r}
          /\ dream' = [NoDream EXCEPT !.at = "asked", !.run = r]
    BY <1>1 DEF DreamStarts
  <2>2. rec' \in Records /\ dream' \in Dreams
    BY <2>1, PhaseNames DEF Records, NoDream, Dreams
  <2>3. job' \in Jobs
    BY <1>1, TakeType, KindNames, PlaceNames DEF DreamStarts
  <2> QED
    BY <1>1, <2>1, <2>2, <2>3 DEF DreamStarts
<1>2. CASE DreamEnters
  BY <1>2, LeaveType DEF DreamEnters, DreamGoes, Dreams
<1>3. CASE DreamStopsServices
  <2>1. look' \in Looks
    BY <1>3 DEF DreamStopsServices, ProcessGone, Unlooked, Looks
  <2> QED
    BY <1>3, <2>1, FreeJobType
       DEF DreamStopsServices, ProcessGone, DreamGoes, Dreams
<1>4. CASE DreamLaunches \/ DreamSeesOutcome
  BY <1>4 DEF DreamLaunches, DreamSeesOutcome, DreamGoes, Dreams, policy
<1>5. CASE DreamTrains
  <2>1. PICK A \in SUBSET (Adapters \ spent), b \in BOOLEAN :
          /\ dream' = [dream EXCEPT !.at = "wake", !.todo = A, !.broken = b]
          /\ spent' = spent \cup A
    BY <1>5 DEF DreamTrains
  <2>2. dream' \in Dreams
    BY <2>1 DEF Dreams
  <2> QED
    BY <1>5, <2>1, <2>2 DEF DreamTrains
<1>6. CASE DreamWakes
  BY <1>6 DEF DreamWakes, DreamGoes, Dreams, Started
<1>7. CASE DreamReportsFailure
  <2>1. [kind |-> "failed", run |-> dream.run, adapters |-> {}] \in Messages
    BY DEF Messages, Dreams
  <2>2. tasks' \subseteq Messages /\ posted' \subseteq Messages
    BY <1>7, <2>1, AcceptType DEF DreamReportsFailure
  <2> QED
    BY <1>0, <1>7, <2>2 DEF DreamReportsFailure
<1>8. CASE DreamPosts
  <2>1. PICK a \in dream.todo :
          /\ Accept([kind |-> "done", run |-> dream.run, adapters |-> {a}])
          /\ dream' = [dream EXCEPT !.at = "await", !.cand = a, !.todo = @ \ {a}]
    BY <1>8 DEF DreamPosts
  <2>2. [kind |-> "done", run |-> dream.run, adapters |-> {a}] \in Messages
    BY DEF Messages, Dreams
  <2>3. tasks' \subseteq Messages /\ posted' \subseteq Messages
    BY <2>1, <2>2, AcceptType
  <2>4. dream' \in Dreams
    BY <2>1 DEF Dreams
  <2> QED
    BY <1>8, <2>3, <2>4 DEF DreamPosts
<1>9. CASE DreamEnds
  BY <1>0, <1>9 DEF DreamEnds, policy
<1> QED
  BY <1>1, <1>2, <1>3, <1>4, <1>5, <1>6, <1>7, <1>8, <1>9 DEF Script

-----------------------------------------------------------------------------
Verdicts == {"approved", "rejected", "failed"}
VerdictsKept == \A a \in Adapters : reg.status[a] \in Verdicts => reg'.status[a] = reg.status[a]

IsNew(a) == reg.status[a] = "absent"

\* Every registered adapter, and every one that will be, has been generated.
KnownSpent ==
  /\ \A a \in Adapters : ~IsNew(a) => a \in spent
  /\ \A m \in tasks : m.adapters \subseteq spent
  /\ job.todo \subseteq spent /\ dream.todo \subseteq spent

\* What is still to be registered is new and has one owner.
OneOwner ==
  /\ \A m \in tasks : \A a \in m.adapters :
       IsNew(a) /\ a \notin job.todo /\ a \notin dream.todo
  /\ \A m, n \in tasks : m # n => m.adapters \cap n.adapters = {}
  /\ \A a \in job.todo : IsNew(a) /\ a \notin dream.todo
  /\ \A a \in dream.todo : IsNew(a)

FreshInv == KnownSpent /\ OneOwner

\* What the lock holder is about to judge, or to mark failed.
Judged == reg.status[job.cand] = "candidate" /\ job.cand \in Adapters
Unjudged == job.cand = None \/ reg.status[job.cand] \in {"absent", "candidate"}

JudgeInv ==
  /\ job.at \in {"evaluate", "decide"} => Judged
  /\ job.kind = "done" /\ job.at \in {"start", "wait", "load"} => Judged
  /\ job.at \in {"recover", "recoverStart"} => Unjudged
  /\ job.kind = "batch" /\ job.at \in {"start", "wait"} => job.cand = None
  /\ job.kind \notin {"done", "batch", "failure"} => job.cand = None
  /\ job.kind = "free" => job.at = "none"

\* What a rollback may restore.
PriorApproved ==
  job.at \in {"verify", "restore"} =>
    \A a \in {job.prior.current, job.prior.rollback} \ {None} : reg.status[a] = "approved"

VerdictInv == FreshInv /\ JudgeInv /\ PriorApproved /\ AliasesApproved

\* A step that registers nothing and leaves owners what they have, or takes
\* it from them.
LEMMA NothingNew ==
  ASSUME FreshInv, \A a \in Adapters : IsNew(a) <=> IsNew(a)',
         tasks' \subseteq tasks, job'.todo \subseteq job.todo,
         dream'.todo \subseteq dream.todo, spent \subseteq spent', TypeOK
  PROVE  FreshInv'
<1>1. \A m \in tasks : m.adapters \subseteq Adapters
  BY DEF TypeOK, Messages
<1>2. job.todo \subseteq Adapters /\ dream.todo \subseteq Adapters
  BY DEF TypeOK, Jobs, Dreams
<1>3. KnownSpent'
  BY <1>1, <1>2 DEF FreshInv, KnownSpent, IsNew
<1>4. OneOwner'
  BY <1>1, <1>2 DEF FreshInv, OneOwner, IsNew
<1> QED
  BY <1>3, <1>4 DEF FreshInv

\* Aliases that stay approve what they name, as long as verdicts are kept.
LEMMA AliasesStay ==
  ASSUME TypeOK, AliasesApproved, VerdictsKept,
         reg'.current = reg.current, reg'.rollback = reg.rollback
  PROVE  AliasesApproved'
BY DEF AliasesApproved, VerdictsKept, Verdicts, TypeOK, Documents

\* Where an operation goes that has nobody to judge.
LEMMA NobodyToJudge ==
  ASSUME job'.cand = None, job'.kind \notin {"done"},
         job'.at \notin {"evaluate", "decide"},
         job'.kind = "free" => job'.at = "none"
  PROVE  JudgeInv'
BY DEF JudgeInv, Unjudged

\* What the shared moves do to the lock holder.
LEMMA MoveKeeps ==
  ASSUME TypeOK
  PROVE  /\ \A s : Goto(s) => /\ job'.at = s /\ job'.kind = job.kind
                              /\ job'.cand = job.cand /\ job'.todo = job.todo
                              /\ job'.prior = job.prior
         /\ Leave => /\ job'.at = "none" /\ job'.kind = "free"
                     /\ job'.cand = None /\ job'.todo = {}
         /\ \A k, s : /\ Take(k, s).at = s /\ Take(k, s).kind = k
                      /\ Take(k, s).cand = None /\ Take(k, s).todo = {}
<1>1. \A s : Goto(s) => /\ job'.at = s /\ job'.kind = job.kind
                        /\ job'.cand = job.cand /\ job'.todo = job.todo
                        /\ job'.prior = job.prior
  BY DEF TypeOK, Goto, Jobs
<1>2. Leave => /\ job'.at = "none" /\ job'.kind = "free"
               /\ job'.cand = None /\ job'.todo = {}
  BY DEF Leave, FreeJob
<1>3. \A k, s : /\ Take(k, s).at = s /\ Take(k, s).kind = k
                /\ Take(k, s).cand = None /\ Take(k, s).todo = {}
  BY DEF Take, FreeJob
<1> QED
  BY <1>1, <1>2, <1>3

\* A step that leaves the registry alone and has nobody to judge.
LEMMA IdleRegistry ==
  ASSUME TypeOK, VerdictInv, UNCHANGED reg, tasks' \subseteq tasks,
         job'.todo \subseteq job.todo, dream'.todo \subseteq dream.todo,
         spent \subseteq spent', JudgeInv', job'.at \notin {"verify", "restore"}
  PROVE  VerdictInv' /\ VerdictsKept
<1>1. FreshInv'
  BY NothingNew DEF VerdictInv, IsNew
<1>2. AliasesApproved'
  BY DEF VerdictInv, AliasesApproved
<1>3. PriorApproved' /\ VerdictsKept
  BY DEF PriorApproved, VerdictsKept
<1> QED
  BY <1>1, <1>2, <1>3 DEF VerdictInv

\* A step that leaves registry and lock alone.
LEMMA StillVerdict ==
  ASSUME TypeOK, VerdictInv, UNCHANGED <<reg, job>>, tasks' \subseteq tasks,
         dream'.todo \subseteq dream.todo, spent \subseteq spent'
  PROVE  VerdictInv' /\ VerdictsKept
<1>1. FreshInv'
  BY NothingNew DEF VerdictInv, IsNew
<1>2. AliasesApproved' /\ PriorApproved' /\ JudgeInv' /\ VerdictsKept
  BY DEF VerdictInv, AliasesApproved, PriorApproved, JudgeInv, Judged, Unjudged, VerdictsKept
<1> QED
  BY <1>1, <1>2 DEF VerdictInv

\* Startup and the operations that settle a finished run reject candidates
\* only.
LEMMA SettledVerdict ==
  ASSUME TypeOK, VerdictInv, reg' = SettledRegistry
  PROVE  /\ VerdictsKept /\ AliasesApproved'
         /\ \A a \in Adapters : IsNew(a) <=> IsNew(a)'
<1>1. \A a \in Adapters : \/ reg'.status[a] = reg.status[a]
                          \/ reg.status[a] = "candidate" /\ reg'.status[a] = "rejected"
  BY DEF SettledRegistry, TransitionAll, TypeOK, Documents
<1>2. reg'.current = reg.current /\ reg'.rollback = reg.rollback
  BY DEF SettledRegistry, TransitionAll, TypeOK, Documents
<1>3. VerdictsKept
  BY <1>1 DEF VerdictsKept, Verdicts
<1>4. AliasesApproved'
  BY <1>2, <1>3, AliasesStay DEF VerdictInv
<1>5. \A a \in Adapters : IsNew(a) <=> IsNew(a)'
  BY <1>1 DEF IsNew
<1> QED
  BY <1>3, <1>4, <1>5

\* Nightly job, lease operations and the opening of the gate judge nobody.
LEMMA OthersVerdict ==
  ASSUME TypeOK, VerdictInv, NightlyGoesOn \/ LeaseGoesOn
  PROVE  VerdictInv' /\ VerdictsKept
<1> USE MoveKeeps
<1>1. UNCHANGED <<reg, tasks, dream, spent>>
  BY DEF NightlyGoesOn, NightlySenses, NightlyPrepares, NightlyEnters,
       NightlyDrains, NightlyStops, NightlyRequests, NightlyLaunches,
       NightlyConfirms, LeaseGoesOn, AcquireDrains, AcquireStops, LeaseGranted,
       MemoryNeverFree, AcquireRestoresVllm, AcquireAwaitsVllm, AcquireReopens,
       AcquireFails, LeaseKeptForRetry, ReleaseStartsVllm, ReleaseAwaitsVllm,
       ReleaseFinishes, edge, mail, world
<1>2. Leave \/ UNCHANGED job
        \/ /\ job.kind \in {"nightly", "acquire", "release"} /\ job'.kind = job.kind
           /\ job'.cand = job.cand /\ job'.todo = job.todo
           /\ job'.at \notin {"evaluate", "decide", "verify", "restore"}
  <2>1. CASE NightlyGoesOn
    <3>1. job.kind = "nightly"
      BY <2>1
         DEF NightlyGoesOn, NightlySenses, NightlyPrepares, NightlyEnters,
           NightlyDrains, NightlyStops, NightlyRequests, NightlyLaunches,
           NightlyConfirms, At
    <3>2. \/ Leave \/ UNCHANGED job
          \/ \E s \in {"prepare", "enter", "drain", "stop", "recover", "request",
                       "launch", "launched"} : Goto(s)
      <4>1. CASE NightlyDrains
        BY <4>1 DEF NightlyDrains, Drain
      <4>2. CASE NightlyStops
        BY <4>2 DEF NightlyStops, Container
      <4>3. CASE NightlySenses \/ NightlyPrepares \/ NightlyEnters
        BY <4>3 DEF NightlySenses, NightlyPrepares, NightlyEnters
      <4>4. CASE NightlyRequests \/ NightlyLaunches \/ NightlyConfirms
        BY <4>4 DEF NightlyRequests, NightlyLaunches, NightlyConfirms
      <4> QED
        BY <2>1, <4>1, <4>2, <4>3, <4>4 DEF NightlyGoesOn
    <3> QED
      BY <3>1, <3>2
  <2>2. CASE LeaseGoesOn
    <3>1. job.kind \in {"acquire", "release"} \/ Leave
      BY <2>2
         DEF LeaseGoesOn, AcquireDrains, AcquireStops, LeaseGranted,
           MemoryNeverFree, AcquireRestoresVllm, AcquireAwaitsVllm,
           AcquireReopens, AcquireFails, LeaseKeptForRetry, ReleaseStartsVllm,
           ReleaseAwaitsVllm, ReleaseFinishes, At
    <3>2. \/ Leave
          \/ \E s \in {"stop", "memory", "undo", "undoStart", "undoWait", "undoExit",
                       "undoFailed", "wait", "reopen"} : Goto(s)
      <4>1. CASE AcquireDrains
        BY <4>1 DEF AcquireDrains, Drain
      <4>2. CASE AcquireStops \/ AcquireRestoresVllm \/ ReleaseStartsVllm
        BY <4>2
           DEF AcquireStops, AcquireRestoresVllm, ReleaseStartsVllm, Container
      <4>3. CASE AcquireAwaitsVllm \/ ReleaseAwaitsVllm
        BY <4>3 DEF AcquireAwaitsVllm, ReleaseAwaitsVllm, Await
      <4>4. CASE MemoryNeverFree \/ AcquireReopens
        BY <4>4 DEF MemoryNeverFree, AcquireReopens
      <4>5. CASE LeaseGranted \/ AcquireFails \/ LeaseKeptForRetry \/ ReleaseFinishes
        BY <4>5 DEF LeaseGranted, AcquireFails, LeaseKeptForRetry, ReleaseFinishes
      <4> QED
        BY <2>2, <4>1, <4>2, <4>3, <4>4, <4>5 DEF LeaseGoesOn
    <3> QED
      BY <3>1, <3>2
  <2> QED
    BY <2>1, <2>2
<1>3. CASE UNCHANGED job
  BY <1>1, <1>3, StillVerdict
<1>4. CASE Leave
  <2>1. JudgeInv'
    BY <1>4, NobodyToJudge
  <2> QED
    BY <1>1, <1>4, <2>1, IdleRegistry
<1>5. CASE /\ job.kind \in {"nightly", "acquire", "release"} /\ job'.kind = job.kind
           /\ job'.cand = job.cand /\ job'.todo = job.todo
           /\ job'.at \notin {"evaluate", "decide", "verify", "restore"}
  <2>1. job.cand = None
    BY <1>5 DEF VerdictInv, JudgeInv
  <2>2. JudgeInv'
    BY <1>5, <2>1, NobodyToJudge
  <2> QED
    BY <1>1, <1>5, <2>2, IdleRegistry
<1> QED
  BY <1>2, <1>3, <1>4, <1>5

\* The steps of a callback's operation that leave the registry alone.
LEMMA CallbackQuietVerdict ==
  ASSUME TypeOK, VerdictInv,
         \/ CallbackStartsVllm \/ CallbackAwaitsVllm \/ CandidateLoads
         \/ CandidateEvaluates \/ CandidateRaises \/ DoneFinishes
         \/ BatchFinishes \/ SkipFinishes
  PROVE  VerdictInv' /\ VerdictsKept
<1> USE MoveKeeps
<1>1. UNCHANGED <<reg, tasks, dream, spent>> /\ Completing
  BY DEF CallbackStartsVllm, CallbackAwaitsVllm, CandidateLoads,
       CandidateEvaluates, CandidateRaises, DoneFinishes, BatchFinishes,
       SkipFinishes, At, Completing, edge, mail, world
<1>3. CASE BatchFinishes \/ SkipFinishes
  <2>1. JudgeInv'
    BY <1>3, NobodyToJudge DEF BatchFinishes, SkipFinishes
  <2> QED
    BY <1>1, <1>3, <2>1, IdleRegistry DEF BatchFinishes, SkipFinishes
<1>4. CASE CallbackStartsVllm \/ CallbackAwaitsVllm \/ CandidateLoads
           \/ CandidateEvaluates \/ CandidateRaises \/ DoneFinishes
  <2>1. /\ job'.kind = job.kind /\ job'.cand = job.cand /\ job'.todo = job.todo
        /\ job'.at \notin {"verify", "restore"}
    BY <1>4
       DEF CallbackStartsVllm, CallbackAwaitsVllm, CandidateLoads,
         CandidateEvaluates, CandidateRaises, DoneFinishes, Container, Await
  <2>2. JudgeInv'
    <3>1. CASE CallbackStartsVllm
      <4>1. job'.at \in {"wait", "recover"} /\ job.at = "start"
        BY <3>1 DEF CallbackStartsVllm, Container
      <4> QED
        BY <1>1, <2>1, <4>1
           DEF VerdictInv, JudgeInv, Judged, Unjudged, Completing
    <3>2. CASE CallbackAwaitsVllm
      <4>1. job'.at \in {"reopen", "load", "recover"} /\ job.at = "wait"
        BY <3>2 DEF CallbackAwaitsVllm, Await
      <4> QED
        BY <1>1, <2>1, <4>1
           DEF VerdictInv, JudgeInv, Judged, Unjudged, Completing
    <3>3. CASE CandidateLoads
      <4>1. job'.at = "evaluate" /\ job.at = "load" /\ job.kind = "done"
        BY <3>3 DEF CandidateLoads, At
      <4> QED
        BY <1>1, <2>1, <4>1 DEF VerdictInv, JudgeInv, Judged
    <3>4. CASE CandidateEvaluates \/ CandidateRaises
      <4>1. job'.at \in {"decide", "recover"} /\ job.at \in {"evaluate", "decide"}
        BY <3>4 DEF CandidateEvaluates, CandidateRaises
      <4> QED
        BY <1>1, <2>1, <4>1
           DEF VerdictInv, JudgeInv, Judged, Unjudged, Completing
    <3>5. CASE DoneFinishes
      <4>1. job'.at = "reopen" /\ job.kind = "done"
        BY <3>5 DEF DoneFinishes, At
      <4> QED
        BY <1>1, <2>1, <4>1 DEF VerdictInv, JudgeInv
    <3> QED
      BY <1>4, <3>1, <3>2, <3>3, <3>4, <3>5
  <2> QED
    BY <1>1, <2>1, <2>2, IdleRegistry
<1> QED
  BY <1>3, <1>4

\* An adapter is registered: it was new, and was owned by who registers it.
LEMMA RegisteredOnce ==
  ASSUME TypeOK, VerdictInv, NEW a \in Adapters, IsNew(a), a \in spent,
         reg' = Registered(a), UNCHANGED spent,
         tasks' \subseteq tasks, job'.todo \subseteq job.todo, dream'.todo = dream.todo,
         \A m \in tasks' : a \notin m.adapters,
         a \notin job'.todo, a \notin dream.todo
  PROVE  /\ FreshInv' /\ AliasesApproved' /\ VerdictsKept
         /\ reg'.status[a] = "candidate"
<1>1. reg' = AddAdapter(reg, a)
  BY DEF Registered, Known, IsNew
<1>2. \A b \in Adapters : reg'.status[b] = IF b = a THEN "candidate" ELSE reg.status[b]
  BY <1>1 DEF AddAdapter, TypeOK, Documents
<1>3. reg'.current = reg.current /\ reg'.rollback = reg.rollback
  BY <1>1 DEF AddAdapter, TypeOK, Documents
<1>4. VerdictsKept
  BY <1>2 DEF VerdictsKept, Verdicts, IsNew
<1>5. AliasesApproved'
  BY <1>3, <1>4, AliasesStay DEF VerdictInv
<1>6. KnownSpent'
  BY <1>2 DEF VerdictInv, FreshInv, KnownSpent, IsNew
<1>7. OneOwner'
  <2>1. /\ \A m \in tasks : m.adapters \subseteq Adapters
        /\ job.todo \subseteq Adapters /\ dream.todo \subseteq Adapters
    BY DEF TypeOK, Messages, Jobs, Dreams
  <2>2. \A b \in Adapters : b # a => (IsNew(b) => IsNew(b)')
    BY <1>2 DEF IsNew
  <2>3. \A m \in tasks' : \A b \in m.adapters :
          IsNew(b)' /\ b \notin job'.todo /\ b \notin dream'.todo
    BY <2>1, <2>2 DEF VerdictInv, FreshInv, OneOwner
  <2>4. \A m, n \in tasks' : m # n => m.adapters \cap n.adapters = {}
    BY DEF VerdictInv, FreshInv, OneOwner
  <2>5. \A b \in job'.todo : IsNew(b)' /\ b \notin dream'.todo
    BY <2>1, <2>2 DEF VerdictInv, FreshInv, OneOwner
  <2>6. \A b \in dream'.todo : IsNew(b)'
    BY <2>1, <2>2 DEF VerdictInv, FreshInv, OneOwner
  <2> QED
    BY <2>3, <2>4, <2>5, <2>6 DEF OneOwner
<1> QED
  BY <1>2, <1>4, <1>5, <1>6, <1>7 DEF FreshInv

\* A batch takes its next adapter.
LEMMA ChosenVerdict ==
  ASSUME TypeOK, VerdictInv, CandidateChosen
  PROVE  VerdictInv' /\ VerdictsKept
<1>1. UNCHANGED <<tasks, dream, spent>> /\ job.kind = "batch"
  BY DEF CandidateChosen, At, edge, mail, world
<1>3. PICK a \in job.todo :
        \/ /\ reg' = Registered(a)
           /\ job' = [job EXCEPT !.at = "evaluate", !.cand = a, !.todo = @ \ {a}]
        \/ /\ job' = [job EXCEPT !.at = "recover", !.cand = a, !.todo = @ \ {a}]
           /\ UNCHANGED reg
  BY DEF CandidateChosen
<1>4. /\ job'.cand = a /\ job'.todo = job.todo \ {a} /\ job'.kind = "batch"
      /\ job'.at \in {"evaluate", "recover"}
      /\ job'.at = "evaluate" => reg' = Registered(a)
      /\ job'.at = "recover" => UNCHANGED reg
  BY <1>1, <1>3 DEF TypeOK, Jobs
<1>5. a \in Adapters /\ IsNew(a) /\ a \in spent /\ a \notin dream.todo
  BY DEF TypeOK, Jobs, VerdictInv, FreshInv, KnownSpent, OneOwner
<1>6. \A m \in tasks : a \notin m.adapters
  BY DEF VerdictInv, FreshInv, OneOwner
<1>7. CASE job'.at = "evaluate"
  <2>1. FreshInv' /\ AliasesApproved' /\ VerdictsKept /\ reg'.status[a] = "candidate"
    BY <1>1, <1>4, <1>5, <1>6, <1>7, RegisteredOnce
  <2>2. JudgeInv' /\ PriorApproved'
    BY <1>4, <1>5, <1>7, <2>1 DEF JudgeInv, Judged, PriorApproved
  <2> QED
    BY <2>1, <2>2 DEF VerdictInv
<1>8. CASE job'.at = "recover"
  <2>1. JudgeInv'
    BY <1>4, <1>5, <1>8 DEF JudgeInv, Unjudged, IsNew
  <2> QED
    BY <1>1, <1>4, <1>8, <2>1, IdleRegistry
<1> QED
  BY <1>4, <1>7, <1>8

\* A verdict is given to a candidate.
LEMMA JudgedVerdict ==
  ASSUME TypeOK, VerdictInv, "refresh" \notin Faults,
         CandidateRejected \/ CandidatePromoted \/ ControllerRefreshes
  PROVE  VerdictInv' /\ VerdictsKept
<1> USE MoveKeeps
<1>1. UNCHANGED <<tasks, dream, spent>> /\ Completing
  BY DEF CandidateRejected, CandidatePromoted, ControllerRefreshes, edge, mail,
       world
<1>3. AfterVerdict \in {"finish", "reopen", "load"} /\ (job.kind = "done" => AfterVerdict = "finish")
  BY DEF AfterVerdict
<1>4. CASE CandidateRejected
  <2>1. Judged
    BY <1>4 DEF CandidateRejected, VerdictInv, JudgeInv
  <2>2. /\ job'.at = AfterVerdict /\ job'.kind = job.kind
        /\ job'.cand = job.cand /\ job'.todo = job.todo
    BY <1>4 DEF CandidateRejected, TypeOK, Jobs
  <2>3. /\ \A b \in Adapters : reg'.status[b] = IF b = job.cand THEN "rejected"
                                                ELSE reg.status[b]
        /\ reg'.current = reg.current /\ reg'.rollback = reg.rollback
    BY <1>4 DEF CandidateRejected, Transition, TypeOK, Documents
  <2>4. VerdictsKept
    BY <2>1, <2>3 DEF VerdictsKept, Verdicts, Judged
  <2>5. AliasesApproved'
    BY <2>3, <2>4, AliasesStay DEF VerdictInv
  <2>6. \A b \in Adapters : IsNew(b) <=> IsNew(b)'
    BY <2>1, <2>3 DEF IsNew, Judged
  <2>7. FreshInv'
    BY <1>1, <2>2, <2>6, NothingNew DEF VerdictInv
  <2>8. JudgeInv' /\ PriorApproved'
    BY <1>1, <1>3, <2>2 DEF VerdictInv, JudgeInv, PriorApproved, Completing
  <2> QED
    BY <2>4, <2>5, <2>7, <2>8 DEF VerdictInv
<1>5. CASE CandidatePromoted
  <2>1. Judged
    BY <1>5 DEF CandidatePromoted, VerdictInv, JudgeInv
  <2>2. /\ reg' = Promote(reg, job.cand)
        /\ job'.at = "refresh" /\ job'.kind = job.kind
        /\ job'.cand = job.cand /\ job'.todo = job.todo
    BY <1>5, <2>1 DEF CandidatePromoted, MayPromote, Judged
  <2>3. reg.current # None => reg.status[reg.current] = "approved" /\ reg.current \in Adapters
    BY DEF VerdictInv, AliasesApproved, TypeOK, Documents
  <2>4. /\ \A b \in Adapters : reg'.status[b] = IF b \in {job.cand, reg.current}
                                                THEN "approved" ELSE reg.status[b]
        /\ reg'.current = job.cand /\ reg'.rollback = reg.current
    BY <2>2 DEF Promote
  <2>5. \A b \in Adapters : reg'.status[b] = IF b = job.cand THEN "approved"
                                             ELSE reg.status[b]
    BY <2>3, <2>4, NoneIsNotAnAdapter
  <2>6. VerdictsKept
    BY <2>1, <2>5 DEF VerdictsKept, Verdicts, Judged
  <2>7. AliasesApproved'
    BY <2>1, <2>3, <2>4, <2>5 DEF AliasesApproved, Judged
  <2>8. \A b \in Adapters : IsNew(b) <=> IsNew(b)'
    BY <2>1, <2>5 DEF IsNew, Judged
  <2>9. FreshInv'
    BY <1>1, <2>2, <2>8, NothingNew DEF VerdictInv
  <2>10. JudgeInv' /\ PriorApproved'
    BY <1>1, <2>2 DEF VerdictInv, JudgeInv, PriorApproved, Completing
  <2> QED
    BY <2>6, <2>7, <2>9, <2>10 DEF VerdictInv
<1>6. CASE ControllerRefreshes
  <2>1. ASSUME job' = [job EXCEPT !.at = AfterVerdict, !.outcome = "promoted"]
        PROVE  /\ job'.at = AfterVerdict /\ job'.kind = job.kind
               /\ job'.cand = job.cand /\ job'.todo = job.todo
    BY <2>1 DEF TypeOK, Jobs
  <2>2. /\ job'.at = AfterVerdict /\ job'.kind = job.kind
        /\ job'.cand = job.cand /\ job'.todo = job.todo
    BY <1>6, <2>1 DEF ControllerRefreshes, Fails
  <2>3. JudgeInv'
    BY <1>1, <1>3, <2>2 DEF VerdictInv, JudgeInv, Completing
  <2>4. UNCHANGED reg
    BY <1>6 DEF ControllerRefreshes
  <2> QED
    BY <1>1, <1>3, <2>2, <2>3, <2>4, IdleRegistry
<1> QED
  BY <1>4, <1>5, <1>6

\* A recovery marks failed what was not judged.
LEMMA RecoveryVerdict ==
  ASSUME TypeOK, VerdictInv, RecoveryGoesOn \/ Reopens
  PROVE  VerdictInv' /\ VerdictsKept
<1> USE MoveKeeps
<1>1. UNCHANGED <<tasks, dream, spent>>
  BY DEF RecoveryGoesOn, Recovers, RecoveryStartsVllm, RecoveryAwaitsVllm,
       RecoveryReopens, RecoveryRecords, Reopens, edge, mail, world
<1>2. job.kind # "free"
  BY DEF RecoveryGoesOn, Recovers, RecoveryStartsVllm, RecoveryAwaitsVllm,
       RecoveryReopens, RecoveryRecords, Reopens, VerdictInv, JudgeInv
<1>3. CASE RecoveryStartsVllm
  <2>1. Unjudged /\ job.cand \in Adapters \cup {None}
    BY <1>3 DEF RecoveryStartsVllm, VerdictInv, JudgeInv, TypeOK, Jobs
  <2>2. /\ job'.at \in {"recoverWait", "recoverExit"} /\ job'.kind = job.kind
        /\ job'.cand = job.cand /\ job'.todo = job.todo
    BY <1>3 DEF RecoveryStartsVllm, Container
  <2>3. reg' = TransitionAll(reg, {job.cand} \cap Known(reg), "failed")
    BY <1>3 DEF RecoveryStartsVllm
  <2>4. \A b \in Adapters : reg'.status[b] = IF b \in {job.cand} \cap Known(reg) THEN "failed"
                                             ELSE reg.status[b]
    BY <2>3 DEF TransitionAll, TypeOK, Documents
  <2>5. reg'.current = reg.current /\ reg'.rollback = reg.rollback
    BY <2>3 DEF TransitionAll, TypeOK, Documents
  <2>6. \A b \in Adapters : \/ reg'.status[b] = reg.status[b]
                            \/ reg.status[b] = "candidate" /\ reg'.status[b] = "failed"
    BY <2>1, <2>4, NoneIsNotAnAdapter DEF Unjudged, Known
  <2>7. VerdictsKept
    BY <2>6 DEF VerdictsKept, Verdicts
  <2>8. AliasesApproved'
    BY <2>5, <2>7, AliasesStay DEF VerdictInv
  <2>9. \A b \in Adapters : IsNew(b) <=> IsNew(b)'
    BY <2>6 DEF IsNew
  <2>10. FreshInv'
    BY <1>1, <2>2, <2>9, NothingNew DEF VerdictInv
  <2>11. JudgeInv' /\ PriorApproved'
    BY <1>2, <2>2 DEF VerdictInv, JudgeInv, PriorApproved
  <2> QED
    BY <2>7, <2>8, <2>10, <2>11 DEF VerdictInv
<1>4. CASE Recovers \/ RecoveryAwaitsVllm \/ RecoveryReopens \/ RecoveryRecords \/ Reopens
  <2>1. UNCHANGED reg
    BY <1>4
       DEF Recovers, RecoveryAwaitsVllm, RecoveryReopens, RecoveryRecords,
         Reopens
  <2>2. \/ Leave
        \/ /\ job'.kind = job.kind /\ job'.cand = job.cand /\ job'.todo = job.todo
           /\ \/ job'.at = "recoverStart" /\ job.at = "recover"
              \/ job'.at \in {"recoverExit", "recoverFailed", "finish"}
    BY <1>4
       DEF Recovers, RecoveryAwaitsVllm, RecoveryReopens, RecoveryRecords,
         Reopens, Await
  <2>3. CASE Leave
    <3>1. JudgeInv'
      BY <2>3, NobodyToJudge
    <3> QED
      BY <1>1, <2>1, <2>3, <3>1, IdleRegistry
  <2>4. CASE /\ job'.kind = job.kind /\ job'.cand = job.cand /\ job'.todo = job.todo
             /\ \/ job'.at = "recoverStart" /\ job.at = "recover"
                \/ job'.at \in {"recoverExit", "recoverFailed", "finish"}
    <3>1. JudgeInv'
      BY <1>2, <2>1, <2>4 DEF VerdictInv, JudgeInv, Unjudged
    <3> QED
      BY <1>1, <2>1, <2>4, <3>1, IdleRegistry
  <2> QED
    BY <2>2, <2>3, <2>4
<1> QED
  BY <1>3, <1>4 DEF RecoveryGoesOn

\* A rollback exchanges approved adapters, and may exchange them back.
LEMMA RollbackVerdict ==
  ASSUME TypeOK, VerdictInv, RollbackGoesOn
  PROVE  VerdictInv' /\ VerdictsKept
<1> USE MoveKeeps
<1>1. UNCHANGED <<tasks, dream, spent>> /\ job.kind = "rollback" /\ job.cand = None
  BY DEF RollbackGoesOn, RollbackDrains, RollbackSwaps, RollbackVerifies,
       RollbackRestores, At, edge, mail, world, VerdictInv, JudgeInv
<1>3. /\ job'.cand = None /\ job'.todo \subseteq job.todo
      /\ job'.kind = "free" => job'.at = "none"
      /\ job'.kind \in {"free", "rollback"}
      /\ job'.at \notin {"evaluate", "decide"}
  <2>1. CASE RollbackSwaps
    <3>1. ASSUME job' = [job EXCEPT !.at = "verify",
                            !.prior = [current |-> reg.current,
                                       rollback |-> reg.rollback]]
          PROVE  job'.at = "verify" /\ job'.kind = job.kind /\ job'.cand = job.cand
                   /\ job'.todo = job.todo
      BY <3>1 DEF TypeOK, Jobs
    <3> QED
      BY <1>1, <2>1, <3>1 DEF RollbackSwaps
  <2>2. CASE RollbackDrains \/ RollbackVerifies \/ RollbackRestores
    BY <1>1, <2>2
       DEF RollbackDrains, RollbackVerifies, RollbackRestores, Drain
  <2> QED
    BY <2>1, <2>2 DEF RollbackGoesOn
<1>4. JudgeInv'
  BY <1>3, NobodyToJudge
<1>5. \A b \in Adapters : reg'.status[b] = reg.status[b]
  <2>1. CASE RollbackSwaps
    <3>1. reg' = Rollback(reg) \/ UNCHANGED reg
      BY <2>1 DEF RollbackSwaps
    <3> QED
      BY <3>1 DEF Rollback, TypeOK, Documents
  <2>2. CASE RollbackRestores
    BY <2>2 DEF RollbackRestores, TypeOK, Documents
  <2> QED
    BY <2>1, <2>2 DEF RollbackGoesOn, RollbackDrains, RollbackVerifies
<1>6. FreshInv' /\ VerdictsKept
  BY <1>1, <1>3, <1>5, NothingNew DEF VerdictInv, IsNew, VerdictsKept
<1>7. AliasesApproved' /\ PriorApproved'
  <2>1. CASE RollbackSwaps /\ MayRollback(reg)
    <3>0. reg' = Rollback(reg)
      BY <2>1 DEF RollbackSwaps
    <3>1. reg'.current = reg.rollback /\ reg'.rollback = reg.current
      BY <3>0 DEF Rollback, TypeOK, Documents
    <3> DEFINE aliases == [current |-> reg.current, rollback |-> reg.rollback]
    <3>4. job' = [job EXCEPT !.at = "verify", !.prior = aliases]
      BY <2>1 DEF RollbackSwaps
    <3>5. aliases.current = reg.current /\ aliases.rollback = reg.rollback
      OBVIOUS
    <3> HIDE DEF aliases
    <3>6. job'.prior = aliases
      BY <3>4 DEF TypeOK, Jobs
    <3>2. \A a \in {reg.current, reg.rollback} \ {None} : reg'.status[a] = "approved"
      BY <1>5 DEF VerdictInv, AliasesApproved, TypeOK, Documents
    <3> QED
      BY <3>1, <3>2, <3>5, <3>6 DEF AliasesApproved, PriorApproved
  <2>2. CASE RollbackRestores
    <3>1. reg'.current = job.prior.current /\ reg'.rollback = job.prior.rollback
      BY <2>2 DEF RollbackRestores, TypeOK, Documents
    <3>2. \A a \in {job.prior.current, job.prior.rollback} \ {None} :
            reg'.status[a] = "approved"
      BY <1>5, <2>2
         DEF RollbackRestores, At, VerdictInv, PriorApproved, TypeOK, Jobs
    <3>3. job'.at = "reopen"
      BY <2>2 DEF RollbackRestores
    <3> QED
      BY <3>1, <3>2, <3>3 DEF AliasesApproved, PriorApproved
  <2>3. CASE RollbackDrains \/ RollbackVerifies \/ (RollbackSwaps /\ ~MayRollback(reg))
    <3>1. UNCHANGED reg
      BY <2>3 DEF RollbackDrains, RollbackVerifies, RollbackSwaps
    <3>2. job'.at \in {"verify", "restore"}
            => job.at \in {"verify", "restore"} /\ job'.prior = job.prior
      BY <2>3
         DEF RollbackDrains, RollbackVerifies, RollbackSwaps, Drain, At
    <3> QED
      BY <3>1, <3>2 DEF VerdictInv, AliasesApproved, PriorApproved
  <2> QED
    BY <2>1, <2>2, <2>3 DEF RollbackGoesOn
<1> QED
  BY <1>4, <1>6, <1>7 DEF VerdictInv

\* Who takes the lock has nobody to judge yet.
LEMMA BeginsVerdict ==
  ASSUME TypeOK, VerdictInv, Begins
  PROVE  VerdictInv' /\ VerdictsKept
<1> USE MoveKeeps
<1>1. /\ UNCHANGED <<tasks, dream>> /\ spent \subseteq spent'
      /\ Free
  BY DEF Begins, NightlyDisabled, NightlyStarts, AcquireStarts, RollbackStarts,
       edge, mail, world, Working
<1>2. CASE NightlyDisabled
  BY <1>1, <1>2, StillVerdict DEF NightlyDisabled
<1>3. CASE NightlyStarts \/ AcquireStarts \/ RollbackStarts
  <2>1. /\ job'.cand = None /\ job'.todo = {}
        /\ job'.kind \in {"nightly", "acquire", "rollback"}
        /\ job'.at \in {"sense", "drain"}
    <3>1. CASE NightlyStarts
      <4>1. PICK r : job' = [Take("nightly", "sense") EXCEPT !.run = r]
        BY <3>1 DEF NightlyStarts
      <4> QED
        BY <4>1 DEF Take, FreeJob
    <3>2. CASE AcquireStarts
      <4>1. PICK l : job' = [Take("acquire", "drain") EXCEPT !.lease = l]
        BY <3>2 DEF AcquireStarts
      <4> QED
        BY <4>1 DEF Take, FreeJob
    <3>3. CASE RollbackStarts
      BY <3>3 DEF RollbackStarts
    <3> QED
      BY <1>3, <3>1, <3>2, <3>3
  <2>2. JudgeInv'
    BY <1>1, <2>1, NobodyToJudge
  <2>3. CASE UNCHANGED reg
    BY <1>1, <2>1, <2>2, <2>3, IdleRegistry
  <2>4. CASE reg' = SettledRegistry
    <3>1. /\ VerdictsKept /\ AliasesApproved'
          /\ \A a \in Adapters : IsNew(a) <=> IsNew(a)'
      BY <2>4, SettledVerdict
    <3>2. FreshInv'
      BY <1>1, <2>1, <3>1, NothingNew DEF VerdictInv
    <3>3. PriorApproved'
      BY <2>1 DEF PriorApproved
    <3> QED
      BY <2>2, <3>1, <3>2, <3>3 DEF VerdictInv
  <2> QED
    BY <1>3, <2>3, <2>4 DEF NightlyStarts, AcquireStarts, RollbackStarts
<1> QED
  BY <1>2, <1>3 DEF Begins

\* A message hands what it names to the operation it starts.
LEMMA BackgroundVerdict ==
  ASSUME TypeOK, VerdictInv, BackgroundTask
  PROVE  VerdictInv' /\ VerdictsKept
<1> USE MoveKeeps
<1> SUFFICES ASSUME NEW m \in tasks,
                    \/ CallbackDropped(m) \/ FailureReported(m)
                    \/ SkipReported(m) \/ BatchReported(m) \/ DoneReported(m)
             PROVE  VerdictInv' /\ VerdictsKept
  BY DEF BackgroundTask
<1>0. m \in Messages /\ m.adapters \subseteq Adapters
  BY DEF TypeOK, Messages
<1>1. /\ UNCHANGED <<dream, spent>> /\ tasks' = tasks \ {m}
  BY DEF CallbackDropped, FailureReported, SkipReported, BatchReported,
       DoneReported, CallbackApplies, world
<1>2. /\ \A a \in m.adapters : /\ IsNew(a) /\ a \in spent /\ a \notin dream.todo
                               /\ a \in Adapters
                               /\ \A n \in tasks' : a \notin n.adapters
      /\ m.adapters \subseteq spent
  BY <1>0, <1>1 DEF VerdictInv, FreshInv, KnownSpent, OneOwner
<1>3. CASE CallbackDropped(m)
  BY <1>1, <1>3, StillVerdict DEF CallbackDropped, core
<1>5. CASE FailureReported(m)
  <2>1. PICK a \in IF m.adapters = {} THEN {None} ELSE m.adapters :
          job' = [Take("failure", "recover") EXCEPT !.run = m.run, !.cand = a]
    BY <1>5 DEF FailureReported
  <2>2. /\ job'.kind = "failure" /\ job'.at = "recover" /\ job'.cand = a
        /\ job'.todo = {}
    BY <2>1 DEF Take, FreeJob
  <2>3. a = None \/ IsNew(a)
    BY <1>2, <2>1
  <2>4. UNCHANGED reg
    BY <1>5 DEF FailureReported
  <2>5. JudgeInv'
    BY <2>2, <2>3, <2>4, <1>1 DEF JudgeInv, Unjudged, IsNew
  <2> QED
    BY <1>1, <2>2, <2>4, <2>5, IdleRegistry
<1>6. CASE SkipReported(m)
  <2>1. /\ job'.kind = "skipped" /\ job'.at = "start" /\ job'.cand = None
        /\ job'.todo = {} /\ UNCHANGED reg
    BY <1>6 DEF SkipReported, Take, FreeJob
  <2>2. JudgeInv'
    BY <2>1, <1>1, NobodyToJudge
  <2> QED
    BY <1>1, <2>1, <2>2, IdleRegistry
<1>7. CASE BatchReported(m)
  <2>1. /\ job'.kind = "batch" /\ job'.at = "start" /\ job'.cand = None
        /\ job'.todo = m.adapters /\ UNCHANGED reg
    BY <1>7 DEF BatchReported, Take, FreeJob
  <2>2. JudgeInv'
    BY <2>1, <1>1, NobodyToJudge
  <2>3. KnownSpent'
    BY <1>1, <1>2, <2>1 DEF VerdictInv, FreshInv, KnownSpent, IsNew
  <2>4. OneOwner'
    <3>1. \A n \in tasks' : \A a \in n.adapters :
            IsNew(a)' /\ a \notin job'.todo /\ a \notin dream'.todo
      BY <1>1, <1>2, <2>1 DEF VerdictInv, FreshInv, OneOwner, IsNew
    <3>2. \A n, k \in tasks' : n # k => n.adapters \cap k.adapters = {}
      BY <1>1 DEF VerdictInv, FreshInv, OneOwner
    <3>3. \A a \in job'.todo : IsNew(a)' /\ a \notin dream'.todo
      BY <1>1, <1>2, <2>1 DEF IsNew
    <3>4. \A a \in dream'.todo : IsNew(a)'
      BY <1>1, <2>1 DEF VerdictInv, FreshInv, OneOwner, IsNew
    <3> QED
      BY <3>1, <3>2, <3>3, <3>4 DEF OneOwner
  <2>5. AliasesApproved' /\ PriorApproved' /\ VerdictsKept
    BY <2>1 DEF VerdictInv, AliasesApproved, PriorApproved, VerdictsKept
  <2> QED
    BY <2>2, <2>3, <2>4, <2>5 DEF VerdictInv, FreshInv
<1>8. CASE DoneReported(m)
  <2>1. PICK a \in m.adapters :
          \/ /\ reg' = Registered(a)
             /\ job' = [Take("done", "start") EXCEPT !.run = m.run, !.cand = a]
          \/ /\ job' = [Take("done", "recover") EXCEPT !.run = m.run, !.cand = a]
             /\ UNCHANGED reg
    BY <1>8 DEF DoneReported
  <2>2. /\ job'.kind = "done" /\ job'.cand = a /\ job'.todo = {}
        /\ \/ job'.at = "start" /\ reg' = Registered(a)
           \/ job'.at = "recover" /\ UNCHANGED reg
    BY <2>1 DEF Take, FreeJob
  <2>3. CASE job'.at = "start" /\ reg' = Registered(a)
    <3>1. FreshInv' /\ AliasesApproved' /\ VerdictsKept /\ reg'.status[a] = "candidate"
      BY <1>1, <1>2, <2>2, <2>3, RegisteredOnce
    <3>2. JudgeInv' /\ PriorApproved'
      BY <1>1, <1>2, <2>2, <2>3, <3>1 DEF JudgeInv, Judged, PriorApproved
    <3> QED
      BY <3>1, <3>2 DEF VerdictInv
  <2>4. CASE job'.at = "recover" /\ UNCHANGED reg
    <3>1. JudgeInv'
      BY <1>1, <1>2, <2>2, <2>4 DEF JudgeInv, Unjudged, IsNew
    <3> QED
      BY <1>1, <2>2, <2>4, <3>1, IdleRegistry
  <2> QED
    BY <2>2, <2>3, <2>4
<1> QED
  BY <1>3, <1>5, <1>6, <1>7, <1>8

\* A step that leaves the registry and the lock alone, and gives adapters to
\* an owner that may have them.
LEMMA RegistrySame ==
  ASSUME VerdictInv, FreshInv', UNCHANGED <<reg, job>>
  PROVE  VerdictInv' /\ VerdictsKept
BY DEF VerdictInv, AliasesApproved, PriorApproved, JudgeInv, Judged, Unjudged, VerdictsKept

\* A message arrives, with adapters nobody has heard of or those the script
\* gives away.
LEMMA MessageArrives ==
  ASSUME TypeOK, VerdictInv, NEW m, UNCHANGED <<reg, job>>,
         tasks' \subseteq tasks \cup {m}, m.adapters \subseteq Adapters,
         spent \subseteq spent', m.adapters \subseteq spent',
         \A a \in m.adapters : a \notin spent \/ a \in dream.todo,
         dream'.todo \subseteq dream.todo \ m.adapters
  PROVE  FreshInv'
<1>1. \A a \in m.adapters : IsNew(a) /\ a \notin job.todo
  BY DEF VerdictInv, FreshInv, KnownSpent, OneOwner
<1>2. \A n \in tasks : n.adapters \cap m.adapters = {}
  BY DEF VerdictInv, FreshInv, KnownSpent, OneOwner
<1>3. KnownSpent'
  BY DEF VerdictInv, FreshInv, KnownSpent, IsNew
<1>4. OneOwner'
  <2>1. \A n \in tasks' : \A a \in n.adapters :
          IsNew(a)' /\ a \notin job'.todo /\ a \notin dream'.todo
    BY <1>1 DEF VerdictInv, FreshInv, OneOwner, IsNew
  <2>2. \A n, k \in tasks' : n # k => n.adapters \cap k.adapters = {}
    BY <1>2 DEF VerdictInv, FreshInv, OneOwner
  <2>3. \A a \in job'.todo : IsNew(a)' /\ a \notin dream'.todo
    BY DEF VerdictInv, FreshInv, OneOwner, IsNew
  <2>4. \A a \in dream'.todo : IsNew(a)'
    BY DEF VerdictInv, FreshInv, OneOwner, IsNew
  <2> QED
    BY <2>1, <2>2, <2>3, <2>4 DEF OneOwner
<1> QED
  BY <1>3, <1>4 DEF FreshInv

\* Giving a lease back judges nobody.
LEMMA ReleaseVerdict ==
  ASSUME TypeOK, VerdictInv, NEW l, Release(l) \/ UNCHANGED <<rec, job>>,
         UNCHANGED <<reg, tasks, dream, spent>>
  PROVE  VerdictInv' /\ VerdictsKept
<1>1. CASE UNCHANGED job
  BY <1>1, StillVerdict
<1>2. CASE job' = [Take("release", "start") EXCEPT !.lease = l]
  <2>1. /\ job'.kind = "release" /\ job'.at = "start" /\ job'.cand = None
        /\ job'.todo = {}
    BY <1>2 DEF Take, FreeJob
  <2>2. JudgeInv'
    BY <2>1, NobodyToJudge
  <2> QED
    BY <2>1, <2>2, IdleRegistry
<1> QED
  BY <1>1, <1>2 DEF Release

\* The trainer's report brings adapters nobody has heard of.
LEMMA OutsideVerdict ==
  ASSUME TypeOK, VerdictInv, "duplicate" \notin Actors,
         VllmBecomesHealthy \/ Trainer \/ Clients
  PROVE  VerdictInv' /\ VerdictsKept
<1> USE MoveKeeps
<1>1. ASSUME \/ VllmBecomesHealthy \/ TrainerCreated \/ TrainerRemoved
             \/ TrainerBoots \/ TrainerDies \/ LeaseExpires \/ OperatorSwitches
             \/ \E q \in Requests : Admit(q) \/ Finish(q)
      PROVE  VerdictInv' /\ VerdictsKept
  <2>1. UNCHANGED <<reg, job, tasks, dream, spent>>
    BY <1>1
       DEF VllmBecomesHealthy, TrainerCreated, TrainerRemoved, TrainerBoots,
         TrainerDies, LeaseExpires, OperatorSwitches, Admit, Finish, core,
         edge, mail, world
  <2> QED
    BY <2>1, StillVerdict
<1>2. ASSUME NEW m \in Reports, TrainerReports(m)
      PROVE  VerdictInv' /\ VerdictsKept
  <2>1. /\ UNCHANGED <<reg, job, dream>> /\ spent' = spent \cup m.adapters
        /\ tasks' \subseteq tasks \cup {m}
    BY <1>2 DEF TrainerReports, Accept, core
  <2>2. m.adapters \subseteq Adapters \ spent
    BY <1>2 DEF Reports
  <2>3. dream'.todo \subseteq dream.todo \ m.adapters
    BY <2>1, <2>2 DEF VerdictInv, FreshInv, KnownSpent
  <2>4. FreshInv'
    BY <2>1, <2>2, <2>3, MessageArrives
  <2> QED
    BY <2>1, <2>4, RegistrySame
<1>3. ASSUME NEW l \in Leases, ClientReleases(l)
      PROVE  VerdictInv' /\ VerdictsKept
  BY <1>3, ReleaseVerdict DEF ClientReleases, mail
<1>4. ~\E m \in posted : CallbackRepeated(m)
  BY DEF CallbackRepeated, Present
<1> QED
  BY <1>1, <1>2, <1>3, <1>4 DEF Trainer, Clients

\* A reconciler starts a recovery that names no adapter.
LEMMA ReconcilersVerdict ==
  ASSUME TypeOK, VerdictInv, Reconcilers
  PROVE  VerdictInv' /\ VerdictsKept
<1>1. UNCHANGED <<reg, tasks, dream, spent>>
  BY DEF Reconcilers, LeaseReconcilerReads, LeaseReconcilerEnters,
       LeaseReconcilerActs, StalledReconcilerReads, StalledReconcilerActs,
       core, mail, world
<1>2. CASE LeaseReconcilerReads \/ LeaseReconcilerEnters \/ StalledReconcilerReads
  BY <1>1, <1>2, StillVerdict
     DEF LeaseReconcilerReads, LeaseReconcilerEnters, StalledReconcilerReads,
       core
<1>3. CASE LeaseReconcilerActs
  BY <1>1, <1>3, ReleaseVerdict DEF LeaseReconcilerActs
<1>4. CASE StalledReconcilerActs
  <2>1. CASE UNCHANGED job
    BY <1>1, <2>1, StillVerdict
  <2>2. CASE job' = [Take("failure", "recover") EXCEPT !.run = look.run]
    <3>1. /\ job'.kind = "failure" /\ job'.at = "recover" /\ job'.cand = None
          /\ job'.todo = {}
      BY <2>2 DEF Take, FreeJob
    <3>2. JudgeInv'
      BY <3>1, NobodyToJudge
    <3> QED
      BY <1>1, <3>1, <3>2, IdleRegistry
  <2> QED
    BY <1>4, <2>1, <2>2 DEF StalledReconcilerActs
<1> QED
  BY <1>2, <1>3, <1>4 DEF Reconcilers

\* The process dies: operation and messages go, and what they would have had
\* registered never is.
LEMMA GoneVerdict ==
  ASSUME TypeOK, VerdictInv, job' = FreeJob, tasks' = {}, UNCHANGED <<reg, spent>>,
         dream'.todo \subseteq dream.todo
  PROVE  VerdictInv' /\ VerdictsKept
<1>1. /\ job'.kind = "free" /\ job'.at = "none" /\ job'.cand = None
      /\ job'.todo = {}
  BY DEF FreeJob
<1>2. JudgeInv'
  BY <1>1, NobodyToJudge
<1> QED
  BY <1>1, <1>2, IdleRegistry

\* A crash takes operation and messages; a restart settles the registry.
LEMMA ProcessVerdict ==
  ASSUME TypeOK, VerdictInv, NobodyWhileDown, Process
  PROVE  VerdictInv' /\ VerdictsKept
<1>1. CASE Crash \/ ComposeCycle
  <2>1. /\ job' = FreeJob /\ tasks' = {} /\ UNCHANGED <<reg, spent, dream>>
    BY <1>1 DEF Crash, ComposeCycle, ProcessGone
  <2> QED
    BY <2>1, GoneVerdict
<1>2. CASE Restart
  <2>1. /\ job.kind = "free" /\ job.at = "none" /\ UNCHANGED <<job, tasks, dream, spent>>
        /\ reg' = SettledRegistry
    BY <1>2 DEF Restart, NobodyWhileDown, mail
  <2>2. /\ VerdictsKept /\ AliasesApproved'
        /\ \A a \in Adapters : IsNew(a) <=> IsNew(a)'
    BY <2>1, SettledVerdict
  <2>3. FreshInv'
    BY <2>1, <2>2, NothingNew DEF VerdictInv
  <2>4. JudgeInv' /\ PriorApproved'
    BY <2>1 DEF VerdictInv, JudgeInv, PriorApproved
  <2> QED
    BY <2>2, <2>3, <2>4 DEF VerdictInv
<1>3. CASE Serves
  BY <1>3, StillVerdict DEF Serves, core, mail
<1> QED
  BY <1>1, <1>2, <1>3 DEF Process

\* The script gives each adapter away once.
LEMMA ScriptVerdict ==
  ASSUME TypeOK, VerdictInv, Script
  PROVE  VerdictInv' /\ VerdictsKept
<1> USE MoveKeeps
<1>1. CASE DreamStarts \/ DreamEnters
  <2>1. /\ UNCHANGED <<reg, tasks>> /\ spent \subseteq spent'
        /\ dream'.todo \subseteq dream.todo
    BY <1>1
       DEF DreamStarts, DreamEnters, DreamGoes, NoDream, mail, TypeOK, Dreams
  <2>2. /\ job'.cand = None /\ job'.todo = {} /\ job'.kind \in {"free", "dream"}
        /\ job'.at \in {"none", "enter"} /\ (job'.kind = "free" => job'.at = "none")
    <3>1. CASE DreamStarts
      BY <3>1 DEF DreamStarts
    <3>2. CASE DreamEnters
      BY <3>2 DEF DreamEnters
    <3> QED
      BY <1>1, <3>1, <3>2
  <2>3. JudgeInv'
    BY <2>2, NobodyToJudge
  <2> QED
    BY <2>1, <2>2, <2>3, IdleRegistry
<1>2. CASE DreamStopsServices
  <2>1. /\ job' = FreeJob /\ tasks' = {} /\ UNCHANGED <<reg, spent>>
        /\ dream'.todo = dream.todo
    BY <1>2 DEF DreamStopsServices, ProcessGone, DreamGoes, TypeOK, Dreams
  <2> QED
    BY <2>1, GoneVerdict
<1>3. CASE DreamLaunches \/ DreamWakes \/ DreamSeesOutcome \/ DreamEnds
  <2>1. UNCHANGED <<reg, job, tasks, spent>> /\ dream'.todo \subseteq dream.todo
    BY <1>3
       DEF DreamLaunches, DreamWakes, DreamSeesOutcome, DreamEnds, DreamGoes,
         NoDream, policy, core, mail, TypeOK, Dreams
  <2> QED
    BY <2>1, StillVerdict
<1>4. CASE DreamTrains
  <2>1. PICK A \in SUBSET (Adapters \ spent), b \in BOOLEAN :
          /\ dream' = [dream EXCEPT !.at = "wake", !.todo = A, !.broken = b]
          /\ spent' = spent \cup A
    BY <1>4 DEF DreamTrains
  <2>2. dream'.todo = A /\ UNCHANGED <<reg, job, tasks>>
    BY <1>4, <2>1 DEF DreamTrains, core, mail, TypeOK, Dreams
  <2>3. \A a \in A : IsNew(a) /\ a \notin job.todo /\ \A m \in tasks : a \notin m.adapters
    BY <2>1 DEF VerdictInv, FreshInv, KnownSpent
  <2>4. KnownSpent'
    BY <2>1, <2>2 DEF VerdictInv, FreshInv, KnownSpent, IsNew
  <2>5. OneOwner'
    BY <2>2, <2>3 DEF VerdictInv, FreshInv, OneOwner, IsNew
  <2> QED
    BY <2>2, <2>4, <2>5, RegistrySame DEF FreshInv
<1>5. CASE DreamReportsFailure
  <2> DEFINE m == [kind |-> "failed", run |-> dream.run, adapters |-> {}]
  <2>1. /\ UNCHANGED <<reg, job, spent>> /\ tasks' \subseteq tasks \cup {m}
        /\ dream'.todo = {}
    BY <1>5 DEF DreamReportsFailure, Accept, NoDream, core
  <2>2. m.adapters = {}
    OBVIOUS
  <2> HIDE DEF m
  <2>3. FreshInv'
    BY <2>1, <2>2, MessageArrives
  <2> QED
    BY <2>1, <2>3, RegistrySame
<1>6. CASE DreamPosts
  <2>1. PICK a \in dream.todo :
          /\ Accept([kind |-> "done", run |-> dream.run, adapters |-> {a}])
          /\ dream' = [dream EXCEPT !.at = "await", !.cand = a, !.todo = @ \ {a}]
    BY <1>6 DEF DreamPosts
  <2> DEFINE m == [kind |-> "done", run |-> dream.run, adapters |-> {a}]
  <2>2. UNCHANGED <<reg, job, spent>> /\ tasks' \subseteq tasks \cup {m}
    BY <1>6, <2>1 DEF DreamPosts, Accept, core
  <2>3. m.adapters = {a} /\ dream'.todo = dream.todo \ {a}
    BY <2>1 DEF TypeOK, Dreams
  <2>4. a \in Adapters /\ a \in spent
    BY DEF TypeOK, Dreams, VerdictInv, FreshInv, KnownSpent
  <2> HIDE DEF m
  <2>5. FreshInv'
    BY <2>2, <2>3, <2>4, MessageArrives
  <2> QED
    BY <2>2, <2>5, RegistrySame
<1> QED
  BY <1>1, <1>2, <1>3, <1>4, <1>5, <1>6 DEF Script

\* A process that is down holds no lock, task or look, beside the script too.
LEMMA DownStays ==
  ASSUME TypeOK, NobodyWhileDown, [DreamNext]_vars
  PROVE  NobodyWhileDown'
<1> USE DEF NobodyWhileDown
<1>1. ASSUME serving = "down", BackgroundTask \/ LockHolder
      PROVE  FALSE
  <2>1. job.kind = "free" /\ job.at = "none" /\ tasks = {}
    BY <1>1
  <2>2. ~NightlyGoesOn
    BY <2>1
       DEF NightlyGoesOn, NightlySenses, NightlyPrepares, NightlyEnters,
         NightlyDrains, NightlyStops, NightlyRequests, NightlyLaunches,
         NightlyConfirms, At
  <2>3. ~CallbackGoesOn
    BY <2>1
       DEF CallbackGoesOn, CallbackStartsVllm, CallbackAwaitsVllm,
         CandidateChosen, CandidateLoads, CandidateEvaluates,
         CandidateRejected, CandidatePromoted, CandidateRaises,
         ControllerRefreshes, DoneFinishes, BatchFinishes, SkipFinishes,
         Completing, At
  <2>4. ~RecoveryGoesOn /\ ~Reopens
    BY <2>1
       DEF RecoveryGoesOn, Recovers, RecoveryStartsVllm, RecoveryAwaitsVllm,
         RecoveryReopens, RecoveryRecords, Reopens
  <2>5. ~LeaseGoesOn
    BY <2>1
       DEF LeaseGoesOn, AcquireDrains, AcquireStops, LeaseGranted,
         MemoryNeverFree, AcquireRestoresVllm, AcquireAwaitsVllm,
         AcquireReopens, AcquireFails, LeaseKeptForRetry, ReleaseStartsVllm,
         ReleaseAwaitsVllm, ReleaseFinishes, At
  <2>6. ~RollbackGoesOn
    BY <2>1
       DEF RollbackGoesOn, RollbackDrains, RollbackSwaps, RollbackVerifies,
         RollbackRestores, At
  <2> QED
    BY <1>1, <2>1, <2>2, <2>3, <2>4, <2>5, <2>6 DEF BackgroundTask, LockHolder
<1>2. CASE BackgroundTask \/ LockHolder
  <2>1. UNCHANGED serving
    BY <1>2
       DEF BackgroundTask, CallbackDropped, FailureReported, SkipReported,
         BatchReported, DoneReported, CallbackApplies, LockHolder,
         NightlyGoesOn, NightlySenses, NightlyPrepares, NightlyEnters,
         NightlyDrains, NightlyStops, NightlyRequests, NightlyLaunches,
         NightlyConfirms, CallbackGoesOn, CallbackStartsVllm,
         CallbackAwaitsVllm, CandidateChosen, CandidateLoads,
         CandidateEvaluates, CandidateRejected, CandidatePromoted,
         CandidateRaises, ControllerRefreshes, DoneFinishes, BatchFinishes,
         SkipFinishes, RecoveryGoesOn, Recovers, RecoveryStartsVllm,
         RecoveryAwaitsVllm, RecoveryReopens, RecoveryRecords, Reopens,
         LeaseGoesOn, AcquireDrains, AcquireStops, LeaseGranted,
         MemoryNeverFree, AcquireRestoresVllm, AcquireAwaitsVllm,
         AcquireReopens, AcquireFails, LeaseKeptForRetry, ReleaseStartsVllm,
         ReleaseAwaitsVllm, ReleaseFinishes, RollbackGoesOn, RollbackDrains,
         RollbackSwaps, RollbackVerifies, RollbackRestores, edge, world
  <2> QED
    BY <1>1, <1>2, <2>1
<1>3. CASE Begins
  BY <1>3
     DEF Begins, NightlyDisabled, NightlyStarts, AcquireStarts, RollbackStarts,
       Working, edge, world
<1>4. CASE VllmBecomesHealthy \/ Trainer \/ Clients
  <2>1. UNCHANGED <<serving, look>>
    BY <1>4
       DEF VllmBecomesHealthy, Trainer, TrainerCreated, TrainerRemoved,
         TrainerBoots, TrainerDies, TrainerReports, Clients, Admit, Finish,
         LeaseExpires, ClientReleases, CallbackRepeated, OperatorSwitches,
         edge, world
  <2>2. serving = "down" => UNCHANGED job
    BY <1>4
       DEF VllmBecomesHealthy, Trainer, TrainerCreated, TrainerRemoved,
         TrainerBoots, TrainerDies, TrainerReports, Clients, Admit, Finish,
         LeaseExpires, ClientReleases, CallbackRepeated, OperatorSwitches, core
  <2>3. serving = "down" => UNCHANGED tasks
    BY <1>4
       DEF VllmBecomesHealthy, Trainer, TrainerCreated, TrainerRemoved,
         TrainerBoots, TrainerDies, TrainerReports, Clients, Admit, Finish,
         LeaseExpires, ClientReleases, CallbackRepeated, OperatorSwitches,
         Accept, edge, mail
  <2> QED
    BY <2>1, <2>2, <2>3
<1>5. CASE Reconcilers
  <2>1. UNCHANGED serving
    BY <1>5
       DEF Reconcilers, LeaseReconcilerReads, LeaseReconcilerEnters,
         LeaseReconcilerActs, StalledReconcilerReads, StalledReconcilerActs,
         world
  <2>3. serving = "down" => look.lease = None /\ ~look.entered /\ look.run = None
    BY DEF Unlooked
  <2>2. serving # "down"
    BY <1>5, <2>3
       DEF Reconcilers, LeaseReconcilerReads, LeaseReconcilerEnters,
         LeaseReconcilerActs, StalledReconcilerReads, StalledReconcilerActs,
         Working
  <2> QED
    BY <2>1, <2>2
<1>6. CASE Process
  BY <1>6
     DEF Process, Crash, ComposeCycle, ProcessGone, FreeJob, Restart, Serves
<1>7. CASE Script
  <2>1. CASE DreamStopsServices
    BY <2>1 DEF DreamStopsServices, ProcessGone, FreeJob
  <2>2. CASE DreamStarts \/ DreamReportsFailure \/ DreamPosts
    BY <2>2 DEF DreamStarts, DreamReportsFailure, DreamPosts
  <2>3. CASE DreamEnters
    BY <2>3 DEF DreamEnters, At
  <2>4. CASE DreamLaunches \/ DreamTrains \/ DreamWakes \/ DreamSeesOutcome \/ DreamEnds
    BY <2>4
       DEF DreamLaunches, DreamTrains, DreamWakes, DreamSeesOutcome, DreamEnds,
         policy, core, mail
  <2> QED
    BY <1>7, <2>1, <2>2, <2>3, <2>4 DEF Script
<1>8. CASE UNCHANGED vars
  BY <1>8 DEF vars, core, edge, mail, world
<1> QED
  BY <1>2, <1>3, <1>4, <1>5, <1>6, <1>7, <1>8 DEF DreamNext, Next

\* At first nothing is to be registered or judged, and the aliases are seeded.
LEMMA InitVerdict ==
  ASSUME Init
  PROVE  VerdictInv /\ NobodyWhileDown
<1>1. PICK c, r \in Adapters \cup {None} :
        reg = SeedRegistry(c, r) /\ spent = {c, r} \cap Adapters
  BY DEF Init
<1>2. /\ \A a \in Adapters : reg.status[a] = IF a \in {c, r} THEN "approved" ELSE "absent"
      /\ reg.current = c /\ reg.rollback = r
  BY <1>1 DEF SeedRegistry
<1>3. AliasesApproved
  BY <1>2 DEF AliasesApproved
<1>4. job = FreeJob /\ tasks = {} /\ dream = NoDream /\ serving = "up"
  BY DEF Init
<1>5. /\ job.kind = "free" /\ job.at = "none" /\ job.cand = None /\ job.todo = {}
      /\ dream.todo = {}
  BY <1>4 DEF FreeJob, NoDream
<1>6. KnownSpent /\ OneOwner
  BY <1>1, <1>2, <1>4, <1>5 DEF KnownSpent, OneOwner, IsNew
<1>7. JudgeInv /\ PriorApproved
  BY <1>5 DEF JudgeInv, PriorApproved, Unjudged
<1> QED
  BY <1>3, <1>4, <1>6, <1>7 DEF VerdictInv, FreshInv, NobodyWhileDown

\* Every step keeps types, owners and verdicts.
LEMMA NextVerdict ==
  ASSUME TypeOK, VerdictInv, NobodyWhileDown, [DreamNext]_vars,
         "refresh" \notin Faults, "duplicate" \notin Actors
  PROVE  TypeOK' /\ VerdictInv' /\ NobodyWhileDown' /\ VerdictsKept
<1>1. TypeOK'
  BY NextType, ScriptType DEF DreamNext
<1>2. NobodyWhileDown'
  BY DownStays
<1>3. CASE LockHolder
  <2>1. CASE CallbackGoesOn
    BY <1>1, <1>2, <2>1, CallbackQuietVerdict, ChosenVerdict, JudgedVerdict
       DEF CallbackGoesOn
  <2> QED
    BY <1>1, <1>2, <1>3, <2>1, OthersVerdict, RecoveryVerdict, RollbackVerdict
       DEF LockHolder
<1>4. CASE UNCHANGED vars
  BY <1>1, <1>2, <1>4, StillVerdict DEF vars, core, edge, mail, world
<1> QED
  BY <1>1, <1>2, <1>3, <1>4, BeginsVerdict, BackgroundVerdict, OutsideVerdict,
     ReconcilersVerdict, ProcessVerdict, ScriptVerdict DEF DreamNext, Next

\* What the router serves and what a rollback would serve was approved, through
\* every crash, failed batch, dream run and rollback, unless a controller's
\* refresh fails after a promotion or a callback is repeated.
THEOREM AliasesTheorem ==
  ASSUME "refresh" \notin Faults, "duplicate" \notin Actors
  PROVE  DreamSpec => []AliasesApproved
<1>1. Init => TypeOK /\ VerdictInv /\ NobodyWhileDown
  BY InitType, InitVerdict
<1>2. TypeOK /\ VerdictInv /\ NobodyWhileDown /\ [DreamNext]_vars
        => (TypeOK /\ VerdictInv /\ NobodyWhileDown)'
  BY NextVerdict
<1>3. VerdictInv => AliasesApproved
  BY DEF VerdictInv
<1> QED
  BY <1>1, <1>2, <1>3, PTL DEF DreamSpec

\* Under the same assumptions an adapter that was approved, rejected or failed
\* never gets another status.
THEOREM VerdictTheorem ==
  ASSUME "refresh" \notin Faults, "duplicate" \notin Actors
  PROVE  DreamSpec => VerdictIsFinal
<1>1. Init => TypeOK /\ VerdictInv /\ NobodyWhileDown
  BY InitType, InitVerdict
<1>2. TypeOK /\ VerdictInv /\ NobodyWhileDown /\ [DreamNext]_vars
        => (TypeOK /\ VerdictInv /\ NobodyWhileDown)'
  BY NextVerdict
<1>3. TypeOK /\ VerdictInv /\ NobodyWhileDown /\ [DreamNext]_vars
        => [\A a \in Adapters : reg.status[a] \in {"approved", "rejected", "failed"}
              => reg'.status[a] = reg.status[a]]_vars
  BY NextVerdict DEF VerdictsKept, Verdicts
<1> QED
  BY <1>1, <1>2, <1>3, PTL DEF DreamSpec, VerdictIsFinal

-----------------------------------------------------------------------------
(***************************************************************************)
(* OneTenant.  Whoever starts vLLM has the lock, and whoever has the lock  *)
(* has no trainer running, but for a rollback and for the night that has   *)
(* just started one.  The callbacks are what could break this: a running   *)
(* trainer's run must be one that nothing was heard of yet.                *)
(***************************************************************************)
\* The nightly job on its way to the call that starts the trainer.
OnTheWay ==
  /\ job.kind = "nightly"
  /\ job.at \in {"sense", "prepare", "enter", "drain", "stop", "request", "launch"}

JustStarted == At("nightly", "launched")

\* No callback was ever accepted for the run in the record.
Unheard == \A m \in posted : m.run # rec.run

\* The runs that anything speaks of were generated.
Named == spent \cup {None}

RunsKnown ==
  /\ rec.run \in Named /\ job.run \in Named /\ look.run \in Named
  /\ \A m \in posted : m.run \in Named
  /\ tasks \subseteq posted

\* A night works for a run nothing was heard of, and a restart leaves its
\* record alone.
NightIsNew ==
  /\ OnTheWay \/ rec.phase = "postponed" => Unheard
  /\ OnTheWay \/ JustStarted => enabled /\ rec.outcome \notin TerminalOutcomes

StoppedForTrainer ==
  job.kind = "nightly" /\ job.at \in {"request", "launch", "launched"} =>
    vllm = "stopped"

RecordedBeforeLaunch ==
  job.kind = "nightly" /\ job.at \in {"launch", "launched"} =>
    rec.phase = "starting_training"

RunningTrainer ==
  TrainerRunning =>
    /\ vllm = "stopped" /\ enabled
    /\ rec.phase \in {"starting_training", "training"}
    /\ rec.outcome \notin TerminalOutcomes
    /\ trainer.at = "training" => trainer.run = rec.run
    /\ Unheard
    /\ job.kind \in {"free", "rollback"} \/ JustStarted

TurnInv ==
  /\ RunsKnown /\ NightIsNew /\ StoppedForTrainer /\ RecordedBeforeLaunch
  /\ RunningTrainer

\* What a step that starts no trainer and no night owes the invariant.
LEMMA CalmTurn ==
  ASSUME TurnInv, UNCHANGED <<trainer, posted, enabled>>, RunsKnown',
         job'.kind # "nightly" \/ ~(OnTheWay \/ JustStarted)',
         job'.kind = "nightly" => job'.at \notin {"request", "launch", "launched"},
         rec'.phase = "postponed" => rec.phase = "postponed" /\ rec'.run = rec.run,
         TrainerRunning => /\ vllm' = vllm /\ rec'.run = rec.run
                           /\ rec'.phase \in {"starting_training", "training"}
                           /\ rec'.outcome = rec.outcome
                           /\ job'.kind \in {"free", "rollback"}
  PROVE  TurnInv'
<1>1. NightIsNew'
  BY DEF TurnInv, NightIsNew, OnTheWay, JustStarted, At, Unheard
<1>2. StoppedForTrainer' /\ RecordedBeforeLaunch'
  BY DEF StoppedForTrainer, RecordedBeforeLaunch
<1>3. RunningTrainer'
  BY DEF TurnInv, RunningTrainer, TrainerRunning, Unheard
<1> QED
  BY <1>1, <1>2, <1>3 DEF TurnInv

\* A step that leaves the lock, the trainer and the run in the record alone.
LEMMA StillTurn ==
  ASSUME TurnInv, UNCHANGED <<job, vllm, trainer, posted, enabled>>, RunsKnown',
         rec'.run = rec.run, rec'.phase = rec.phase, rec'.outcome = rec.outcome
  PROVE  TurnInv'
BY DEF TurnInv, NightIsNew, OnTheWay, JustStarted, At, Unheard,
     StoppedForTrainer, RecordedBeforeLaunch, RunningTrainer, TrainerRunning

\* What the lock holder knows stays known.
LEMMA HolderKnown ==
  ASSUME RunsKnown, UNCHANGED <<look, tasks, posted, spent>>,
         rec'.run \in {rec.run, job.run, None}, job'.run \in {job.run, None}
  PROVE  RunsKnown'
BY DEF RunsKnown, Named

\* An operation that is neither rollback nor on its way to the trainer.
LEMMA HolderTurn ==
  ASSUME TurnInv, job.kind \notin {"free", "rollback"}, ~JustStarted,
         UNCHANGED <<trainer, tasks, posted, look, spent, enabled>>,
         rec'.run \in {rec.run, job.run, None}, job'.run \in {job.run, None},
         job'.kind # "nightly" \/ job'.at \notin
           {"sense", "prepare", "enter", "drain", "stop", "request", "launch", "launched"},
         rec'.phase = "postponed" => rec.phase = "postponed" /\ rec'.run = rec.run
  PROVE  TurnInv'
<1>1. ~TrainerRunning
  BY DEF TurnInv, RunningTrainer
<1>2. RunsKnown'
  BY HolderKnown DEF TurnInv
<1>3. job'.kind # "nightly" \/ ~(OnTheWay \/ JustStarted)'
  BY DEF OnTheWay, JustStarted, At
<1> QED
  BY <1>1, <1>2, <1>3, CalmTurn

\* Moves and exits keep the run the operation works for, or forget it.
LEMMA MovesRun ==
  ASSUME TypeOK
  PROVE  /\ \A s : Goto(s) => job'.run = job.run
         /\ Leave => job'.run = None
         /\ \A k, s : Take(k, s).run = None
BY DEF TypeOK, Goto, Jobs, Leave, FreeJob, Take

\* A step of the nightly job before or at the start of the trainer.
LEMMA NightStepTurn ==
  ASSUME TurnInv, OnTheWay, job'.kind \in {"nightly", "free"},
         UNCHANGED <<tasks, posted, look, spent, enabled>>,
         rec'.run = rec.run, rec'.outcome = rec.outcome, job'.run \in {job.run, None},
         job'.kind = "nightly" /\ job'.at \in {"request", "launch", "launched"} =>
           vllm' = "stopped",
         job'.kind = "nightly" /\ job'.at \in {"launch", "launched"} =>
           rec'.phase = "starting_training",
         \/ trainer' = trainer
         \/ trainer'.at = "booting" /\ JustStarted'
  PROVE  TurnInv'
<1>1. RunsKnown'
  BY HolderKnown DEF TurnInv
<1>2. ~TrainerRunning /\ Unheard
  BY DEF TurnInv, RunningTrainer, OnTheWay, JustStarted, At, NightIsNew
<1>3. enabled /\ rec.outcome \notin TerminalOutcomes
  BY DEF TurnInv, NightIsNew
<1>4. NightIsNew'
  BY <1>2, <1>3 DEF NightIsNew, Unheard
<1>5. StoppedForTrainer' /\ RecordedBeforeLaunch'
  BY DEF StoppedForTrainer, RecordedBeforeLaunch
<1>6. RunningTrainer'
  <2>1. CASE trainer' = trainer
    BY <1>2, <2>1 DEF RunningTrainer, TrainerRunning
  <2>2. CASE trainer'.at = "booting" /\ JustStarted'
    <3>1. vllm' = "stopped" /\ rec'.phase = "starting_training"
      BY <2>2 DEF JustStarted, At
    <3> QED
      BY <1>2, <1>3, <2>2, <3>1 DEF RunningTrainer, Unheard
  <2> QED
    BY <2>1, <2>2
<1> QED
  BY <1>1, <1>4, <1>5, <1>6 DEF TurnInv

\* What the operations write into the record keeps the rest of it.
LEMMA RecordFields ==
  ASSUME TypeOK
  PROVE  /\ \A p : rec' = [rec EXCEPT !.phase = p] =>
              rec'.run = rec.run /\ rec'.outcome = rec.outcome /\ rec'.phase = p
         /\ \A p, b : rec' = [rec EXCEPT !.phase = p, !.requested = b] =>
              rec'.run = rec.run /\ rec'.outcome = rec.outcome /\ rec'.phase = p
BY DEF TypeOK, Records

\* The nightly job, from its first look at the idle GPU to the trainer it leaves.
LEMMA NightlyTurn ==
  ASSUME TypeOK, TurnInv, "lateTrainer" \notin Faults, NightlyGoesOn
  PROVE  TurnInv'
<1> USE Moves, MovesRun
<1>1. CASE NightlySenses
  <2>1. rec'.run = rec.run /\ rec'.outcome = rec.outcome
    BY <1>1, RecordFields DEF NightlySenses
  <2> QED
    BY <1>1, <2>1, NightStepTurn
       DEF NightlySenses, At, OnTheWay, edge, mail, world
<1>2. CASE NightlyPrepares
  <2>1. rec'.run = rec.run /\ rec'.outcome = rec.outcome
    BY <1>2, RecordFields DEF NightlyPrepares
  <2> QED
    BY <1>2, <2>1, NightStepTurn
       DEF NightlyPrepares, At, OnTheWay, edge, mail, world
<1>3. CASE NightlyEnters \/ NightlyDrains
  BY <1>3, NightStepTurn
     DEF NightlyEnters, NightlyDrains, Drain, At, OnTheWay, edge, mail, world
<1>4. CASE NightlyStops
  BY <1>4, NightStepTurn
     DEF NightlyStops, Container, At, OnTheWay, edge, mail, world
<1>5. CASE NightlyRequests
  <2>1. /\ rec'.run = rec.run /\ rec'.outcome = rec.outcome
        /\ rec'.phase = "starting_training"
    BY <1>5, RecordFields DEF NightlyRequests
  <2>2. vllm' = "stopped"
    BY <1>5 DEF NightlyRequests, At, TurnInv, StoppedForTrainer
  <2> QED
    BY <1>5, <2>1, <2>2, NightStepTurn
       DEF NightlyRequests, At, OnTheWay, edge, mail, world
<1>6. CASE NightlyLaunches
  <2>0. OnTheWay /\ job.kind = "nightly" /\ ~TrainerRunning
    BY <1>6 DEF NightlyLaunches, At, OnTheWay, TurnInv, RunningTrainer, JustStarted
  <2>1. vllm' = "stopped" /\ rec.phase = "starting_training"
    BY <1>6
       DEF NightlyLaunches, At, TurnInv, StoppedForTrainer, RecordedBeforeLaunch
  <2>2. UNCHANGED <<tasks, posted, look, spent, enabled>>
    BY <1>6 DEF NightlyLaunches, mail, world
  <2>3. CASE rec' = [rec EXCEPT !.phase = "waiting_for_training_container"]
             /\ Goto("request") /\ UNCHANGED trainer
    <3>1. rec'.run = rec.run /\ rec'.outcome = rec.outcome
      BY <2>3, RecordFields
    <3> QED
      BY <2>0, <2>1, <2>2, <2>3, <3>1, NightStepTurn
  <2>4. CASE trainer' = TrainerStarted /\ Goto("launched") /\ UNCHANGED rec
    <3>1. trainer'.at = "booting"
      BY <2>0, <2>4 DEF TrainerStarted, TypeOK
    <3>2. JustStarted'
      BY <2>0, <2>4 DEF JustStarted, At
    <3> QED
      BY <2>0, <2>1, <2>2, <2>4, <3>1, <3>2, NightStepTurn
  <2>5. CASE Goto("recover") /\ UNCHANGED <<rec, trainer>>
    BY <2>0, <2>1, <2>2, <2>5, NightStepTurn
  <2> QED
    BY <1>6, <2>3, <2>4, <2>5 DEF NightlyLaunches, Fails
<1>7. CASE NightlyConfirms
  <2>1. rec'.run = rec.run /\ rec'.outcome = rec.outcome /\ rec'.phase = "training"
    BY <1>7, RecordFields DEF NightlyConfirms
  <2>2. job'.kind = "free" /\ job'.run = None
    BY <1>7 DEF NightlyConfirms
  <2>3. UNCHANGED <<vllm, trainer, tasks, posted, look, spent, enabled>>
    BY <1>7 DEF NightlyConfirms, edge, mail, world
  <2>4. RunsKnown'
    BY <2>1, <2>2, <2>3, HolderKnown DEF TurnInv
  <2> QED
    BY <2>1, <2>2, <2>3, <2>4, CalmTurn
<1> QED
  BY <1>1, <1>2, <1>3, <1>4, <1>5, <1>6, <1>7 DEF NightlyGoesOn

\* A callback's operation works in no night.
LEMMA CallbackTurn ==
  ASSUME TypeOK, TurnInv, CallbackGoesOn
  PROVE  TurnInv'
<1> USE Moves, MovesRun
<1>1. job.kind \in {"done", "batch", "skipped"}
  BY DEF CallbackGoesOn, CallbackStartsVllm, CallbackAwaitsVllm,
       CandidateChosen, CandidateLoads, CandidateEvaluates, CandidateRejected,
       CandidatePromoted, CandidateRaises, ControllerRefreshes, DoneFinishes,
       BatchFinishes, SkipFinishes, Completing, At
<1>2. UNCHANGED <<trainer, tasks, posted, look, spent, enabled>>
  BY DEF CallbackGoesOn, CallbackStartsVllm, CallbackAwaitsVllm,
       CandidateChosen, CandidateLoads, CandidateEvaluates, CandidateRejected,
       CandidatePromoted, CandidateRaises, ControllerRefreshes, DoneFinishes,
       BatchFinishes, SkipFinishes, edge, mail, world
<1>3. rec'.run = rec.run /\ (rec'.phase = "postponed" => rec.phase = "postponed")
  BY DEF TypeOK, Records, CallbackGoesOn, CallbackStartsVllm,
       CallbackAwaitsVllm, CandidateChosen, CandidateLoads, CandidateEvaluates,
       CandidateRejected, CandidatePromoted, CandidateRaises,
       ControllerRefreshes, DoneFinishes, BatchFinishes, SkipFinishes
<1>4. job'.kind # "nightly" /\ job'.run \in {job.run, None}
  <2>2. CASE CandidateChosen
    <3>1. PICK a \in job.todo, p \in {"evaluate", "recover"} :
            job' = [job EXCEPT !.at = p, !.cand = a, !.todo = job.todo \ {a}]
      BY <2>2 DEF CandidateChosen
    <3>2. job'.kind = job.kind /\ job'.run = job.run
      BY <3>1 DEF TypeOK, Jobs
    <3> QED
      BY <1>1, <3>2
  <2>3. CASE CandidateRejected
    <3>1. job'.kind = job.kind /\ job'.run = job.run
      BY <2>3 DEF CandidateRejected, TypeOK, Jobs
    <3> QED
      BY <1>1, <3>1
  <2>4. CASE ControllerRefreshes
    <3>1. ASSUME job' = [job EXCEPT !.at = AfterVerdict, !.outcome = "promoted"]
          PROVE  job'.run = job.run /\ job'.kind = job.kind
      BY <3>1 DEF TypeOK, Jobs
    <3> QED
      BY <1>1, <2>4, <3>1 DEF ControllerRefreshes
  <2>5. CASE CallbackStartsVllm \/ CallbackAwaitsVllm
    BY <1>1, <2>5 DEF CallbackStartsVllm, CallbackAwaitsVllm, Container, Await
  <2> QED
    BY <1>1, <2>2, <2>3, <2>4, <2>5
       DEF CallbackGoesOn, CandidateLoads, CandidateEvaluates,
         CandidatePromoted, CandidateRaises, DoneFinishes, BatchFinishes,
         SkipFinishes
<1>5. ~JustStarted
  BY <1>1 DEF JustStarted, At
<1> QED
  BY <1>1, <1>2, <1>3, <1>4, <1>5, HolderTurn

\* A recovery works for a trainer that is gone.
LEMMA RecoveryTurn ==
  ASSUME TypeOK, TurnInv, LendInv, RecoveryGoesOn
  PROVE  TurnInv'
<1> USE Moves, MovesRun
<1>1. job.kind \notin {"free", "rollback"} /\ ~JustStarted
  BY DEF RecoveryGoesOn, Recovers, RecoveryStartsVllm, RecoveryAwaitsVllm,
       RecoveryReopens, RecoveryRecords, LendInv, KindFitsPlace, JustStarted, At
<1>2. UNCHANGED <<trainer, tasks, posted, look, spent, enabled>>
  BY DEF RecoveryGoesOn, Recovers, RecoveryStartsVllm, RecoveryAwaitsVllm,
       RecoveryReopens, RecoveryRecords, edge, mail, world
<1>3. /\ rec'.run \in {rec.run, job.run}
      /\ rec'.phase = "postponed" => rec.phase = "postponed" /\ rec'.run = rec.run
  <2>1. ASSUME Recovers \/ RecoveryRecords
        PROVE  rec'.run = job.run /\ rec'.phase \in {"recovering", "failed"}
    BY <2>1 DEF TypeOK, Records, Recovers, RecoveryRecords
  <2>2. ASSUME RecoveryStartsVllm \/ RecoveryAwaitsVllm \/ RecoveryReopens
        PROVE  rec' = rec
    BY <2>2 DEF RecoveryStartsVllm, RecoveryAwaitsVllm, RecoveryReopens
  <2> QED
    BY <2>1, <2>2 DEF RecoveryGoesOn
<1>4. /\ job'.run \in {job.run, None}
      /\ job'.at \in {"recoverStart", "recoverWait", "recoverExit", "recoverFailed", "none"}
  BY DEF RecoveryGoesOn, Recovers, RecoveryStartsVllm, RecoveryAwaitsVllm,
       RecoveryReopens, RecoveryRecords, Container, Await
<1> QED
  BY <1>1, <1>2, <1>3, <1>4, HolderTurn

\* Acquire and release begin without a trainer.
LEMMA LeaseTurn ==
  ASSUME TypeOK, TurnInv, LendInv, LeaseGoesOn
  PROVE  TurnInv'
<1> USE Moves, MovesRun
<1>1. CASE LeaseKeptForRetry
  <2>1. job.kind \notin {"free", "rollback"} /\ ~JustStarted
    BY <1>1 DEF LeaseKeptForRetry, LendInv, KindFitsPlace, JustStarted, At
  <2>2. rec'.run = None /\ rec'.phase = "image_edit"
    BY <1>1 DEF LeaseKeptForRetry, LeaseRecord, Blank
  <2> QED
    BY <1>1, <2>1, <2>2, HolderTurn DEF LeaseKeptForRetry, edge, mail, world
<1>2. CASE ~LeaseKeptForRetry
  <2>1. job.kind \in {"acquire", "release"}
    BY <1>2
       DEF LeaseGoesOn, AcquireDrains, AcquireStops, LeaseGranted,
         MemoryNeverFree, AcquireRestoresVllm, AcquireAwaitsVllm,
         AcquireReopens, AcquireFails, ReleaseStartsVllm, ReleaseAwaitsVllm,
         ReleaseFinishes, At
  <2>2. UNCHANGED <<trainer, tasks, posted, look, spent, enabled>>
    BY <1>2
       DEF LeaseGoesOn, AcquireDrains, AcquireStops, LeaseGranted,
         MemoryNeverFree, AcquireRestoresVllm, AcquireAwaitsVllm,
         AcquireReopens, AcquireFails, ReleaseStartsVllm, ReleaseAwaitsVllm,
         ReleaseFinishes, edge, mail, world
  <2>3. \/ rec' = rec
        \/ rec'.run = None /\ rec'.phase \in {"image_edit", "failed", "idle"}
    <3>1. CASE LeaseGranted
      BY <3>1 DEF LeaseGranted, LeaseRecord, Blank
    <3>2. CASE AcquireFails \/ ReleaseFinishes
      BY <3>2 DEF AcquireFails, ReleaseFinishes, Blank
    <3> QED
      BY <1>2, <3>1, <3>2
         DEF LeaseGoesOn, AcquireDrains, AcquireStops, MemoryNeverFree,
           AcquireRestoresVllm, AcquireAwaitsVllm, AcquireReopens,
           ReleaseStartsVllm, ReleaseAwaitsVllm
  <2>4. job'.run \in {job.run, None} /\ job'.kind \in {job.kind, "free"}
    BY <1>2
       DEF LeaseGoesOn, AcquireDrains, AcquireStops, LeaseGranted,
         MemoryNeverFree, AcquireRestoresVllm, AcquireAwaitsVllm,
         AcquireReopens, AcquireFails, ReleaseStartsVllm, ReleaseAwaitsVllm,
         ReleaseFinishes, Container, Await, Drain
  <2>5. ~JustStarted
    BY <2>1 DEF JustStarted, At
  <2> QED
    BY <2>1, <2>2, <2>3, <2>4, <2>5, HolderTurn
<1> QED
  BY <1>1, <1>2

\* A rollback may find a trainer running, and leaves it alone.
LEMMA RollbackTurn ==
  ASSUME TypeOK, TurnInv, RollbackGoesOn \/ Reopens
  PROVE  TurnInv'
<1> USE Moves, MovesRun
<1>1. UNCHANGED <<rec, vllm, trainer, tasks, posted, look, spent, enabled>>
  BY DEF RollbackGoesOn, RollbackDrains, RollbackSwaps, RollbackVerifies,
       RollbackRestores, Reopens, edge, mail, world
<1>2. /\ job'.run \in {job.run, None}
      /\ \/ job.kind = "rollback" /\ job'.kind \in {"rollback", "free"}
         \/ /\ job.at = "reopen"
            /\ \/ job'.kind = "free"
               \/ job'.kind = job.kind /\ job'.at = "finish"
  <2>1. CASE RollbackSwaps
    <3>1. ASSUME job' = [job EXCEPT !.at = "verify",
                            !.prior = [current |-> reg.current,
                                       rollback |-> reg.rollback]]
          PROVE  job'.run = job.run /\ job'.kind = job.kind
      BY <3>1 DEF TypeOK, Jobs
    <3> QED
      BY <2>1, <3>1 DEF RollbackSwaps, At
  <2>2. CASE RollbackDrains \/ RollbackVerifies \/ RollbackRestores
    BY <2>2 DEF RollbackDrains, RollbackVerifies, RollbackRestores, At, Drain
  <2>3. CASE Reopens
    BY <2>3 DEF Reopens
  <2> QED
    BY <2>1, <2>2, <2>3 DEF RollbackGoesOn
<1>3. RunsKnown'
  BY <1>1, <1>2, HolderKnown DEF TurnInv
<1>4. ~(OnTheWay \/ JustStarted)'
  BY <1>2 DEF OnTheWay, JustStarted, At
<1>5. TrainerRunning => job'.kind \in {"free", "rollback"}
  BY <1>2 DEF TurnInv, RunningTrainer, JustStarted, At, Reopens
<1>6. TrainerRunning => rec'.phase \in {"starting_training", "training"}
  BY <1>1 DEF TurnInv, RunningTrainer
<1>7. job'.kind = "nightly" => job'.at \notin {"request", "launch", "launched"}
  BY <1>2
<1> QED
  BY <1>1, <1>3, <1>4, <1>5, <1>6, <1>7, CalmTurn

\* SettledRecord, which a start, a night and an acquire begin with.
LEMMA SettledIs ==
  ASSUME TypeOK
  PROVE  /\ SettledRecord.run = rec.run
         /\ SettledRecord.outcome = rec.outcome
         /\ \/ SettledRecord = rec
            \/ SettledRecord.phase = "idle" /\ rec.outcome \in TerminalOutcomes
BY DEF TypeOK, Records, SettledRecord

\* What takes the lock finds no trainer running, unless it is a rollback.
LEMMA BeginsTurn ==
  ASSUME TypeOK, TurnInv, LendInv, Begins
  PROVE  TurnInv'
<1> USE MovesRun
<1>1. CASE NightlyDisabled
  <2>1. PICK r \in Runs \ spent : /\ spent' = spent \cup {r}
                                  /\ rec' = [Blank("idle") EXCEPT !.run = r,
                                               !.outcome = "disabled_by_operator"]
    BY <1>1 DEF NightlyDisabled
  <2>2. rec'.run = r /\ rec'.phase = "idle"
    BY <2>1 DEF Blank
  <2>3. ~TrainerRunning
    BY <1>1 DEF NightlyDisabled, TurnInv, RunningTrainer
  <2>4. RunsKnown'
    BY <1>1, <2>1, <2>2 DEF NightlyDisabled, TurnInv, RunsKnown, Named, mail
  <2>5. job' = job /\ job.kind = "free"
    BY <1>1 DEF NightlyDisabled, Free
  <2>6. UNCHANGED <<trainer, posted, enabled>>
    BY <1>1 DEF NightlyDisabled, mail
  <2> QED
    BY <2>2, <2>3, <2>4, <2>5, <2>6, CalmTurn
<1>2. CASE NightlyStarts
  <2>1. SettledRecord.phase \in {"postponed", "idle", "failed"}
    BY <1>2 DEF NightlyStarts
  <2>2. ~TrainerRunning
    BY <2>1, SettledIs DEF TurnInv, RunningTrainer
  <2>3. UNCHANGED <<vllm, trainer, tasks, posted, look, enabled>> /\ enabled
    BY <1>2 DEF NightlyStarts, mail
  <2>4. job'.kind = "nightly" /\ job'.at = "sense"
    BY <1>2 DEF NightlyStarts, Take, FreeJob
  <2>5. job'.run = rec'.run /\ rec'.run \in Named' /\ Named \subseteq Named'
    <3>1. CASE UNCHANGED <<rec, spent>> /\ job' = [Take("nightly", "sense") EXCEPT !.run = rec.run]
      BY <3>1 DEF Take, FreeJob, TurnInv, RunsKnown, Named
    <3>2. CASE \E r \in Runs \ spent : /\ rec' = [Blank("idle") EXCEPT !.run = r]
                                       /\ job' = [Take("nightly", "sense") EXCEPT !.run = r]
                                       /\ spent' = spent \cup {r}
      BY <3>2 DEF Take, FreeJob, Blank, Named
    <3> QED
      BY <1>2, <3>1, <3>2 DEF NightlyStarts
  <2>6. rec'.outcome \notin TerminalOutcomes /\ Unheard'
    <3>1. CASE SettledRecord.phase = "postponed" /\ UNCHANGED rec
      <4>1. rec.phase = "postponed" /\ rec.outcome \notin TerminalOutcomes
        BY <3>1 DEF TypeOK, Records, SettledRecord
      <4> QED
        BY <2>3, <3>1, <4>1 DEF TurnInv, NightIsNew, Unheard
    <3>2. CASE \E r \in Runs \ spent : rec' = [Blank("idle") EXCEPT !.run = r]
      <4>1. PICK r \in Runs \ spent : rec' = [Blank("idle") EXCEPT !.run = r]
        BY <3>2
      <4>2. rec'.run = r /\ rec'.outcome = "none"
        BY <4>1 DEF Blank
      <4>3. r \notin Named
        BY ConstantsOK DEF Named
      <4> QED
        BY <2>3, <4>2, <4>3 DEF TurnInv, RunsKnown, Unheard, TerminalOutcomes
    <3> QED
      BY <1>2, <3>1, <3>2 DEF NightlyStarts
  <2>7. RunsKnown'
    BY <2>3, <2>5 DEF TurnInv, RunsKnown
  <2>8. NightIsNew'
    BY <2>3, <2>6 DEF NightIsNew
  <2>9. StoppedForTrainer' /\ RecordedBeforeLaunch'
    BY <2>4 DEF StoppedForTrainer, RecordedBeforeLaunch
  <2>10. RunningTrainer'
    BY <2>2, <2>3 DEF RunningTrainer, TrainerRunning
  <2> QED
    BY <2>7, <2>8, <2>9, <2>10 DEF TurnInv
<1>3. CASE AcquireStarts
  <2>1. SettledRecord.phase \in {"idle", "failed"} /\ rec' = SettledRecord
    BY <1>3 DEF AcquireStarts
  <2>2. ~TrainerRunning
    BY <2>1, SettledIs DEF TurnInv, RunningTrainer
  <2>3. UNCHANGED <<trainer, tasks, posted, look, enabled>> /\ spent \subseteq spent'
    BY <1>3 DEF AcquireStarts, mail
  <2>4. job'.kind = "acquire" /\ job'.run = None
    BY <1>3 DEF AcquireStarts, Take, FreeJob
  <2>5. RunsKnown'
    BY <2>1, <2>3, <2>4, SettledIs DEF TurnInv, RunsKnown, Named
  <2> QED
    BY <2>1, <2>2, <2>3, <2>4, <2>5, CalmTurn
<1>4. CASE RollbackStarts
  <2>1. job'.kind = "rollback" /\ job'.run = None
    BY <1>4 DEF RollbackStarts, Take, FreeJob
  <2>2. UNCHANGED <<rec, vllm, trainer, tasks, posted, look, spent, enabled>>
    BY <1>4 DEF RollbackStarts, edge, mail, world
  <2>3. RunsKnown'
    BY <2>1, <2>2, HolderKnown DEF TurnInv
  <2>4. TrainerRunning => rec'.phase \in {"starting_training", "training"}
    BY <2>2 DEF TurnInv, RunningTrainer
  <2> QED
    BY <2>1, <2>2, <2>3, <2>4, CalmTurn
<1> QED
  BY <1>1, <1>2, <1>3, <1>4 DEF Begins

\* A callback that applies is one of the run in the record: its trainer has
\* reported, so it is gone.
LEMMA BackgroundTurn ==
  ASSUME TypeOK, TurnInv, BackgroundTask
  PROVE  TurnInv'
<1>1. ASSUME NEW m \in tasks, CallbackDropped(m)
      PROVE  TurnInv'
  <2>1. UNCHANGED <<rec, job, vllm, trainer, posted, look, spent, enabled>>
        /\ tasks' \subseteq tasks
    BY <1>1 DEF CallbackDropped, core, world
  <2>2. RunsKnown'
    BY <2>1 DEF TurnInv, RunsKnown, Named
  <2> QED
    BY <2>1, <2>2, StillTurn
<1>2. ASSUME NEW m \in tasks,
             FailureReported(m) \/ SkipReported(m) \/ BatchReported(m) \/ DoneReported(m)
      PROVE  TurnInv'
  <2>1. /\ Matches(m.run) /\ tasks' \subseteq tasks
        /\ UNCHANGED <<trainer, posted, look, spent, enabled>>
    BY <1>2
       DEF FailureReported, SkipReported, BatchReported, DoneReported,
         CallbackApplies, world
  <2>2. m \in posted /\ m.run \in Named /\ ~TrainerRunning
    BY <2>1 DEF TurnInv, RunsKnown, RunningTrainer, Unheard, Matches
  <2>3. job'.kind \in {"failure", "skipped", "batch", "done"} /\ job'.run = m.run
    BY <1>2
       DEF FailureReported, SkipReported, BatchReported, DoneReported, Take,
         FreeJob
  <2>4. rec'.run = rec.run /\ (rec'.phase = "postponed" => rec.phase = "postponed")
    BY <1>2
       DEF FailureReported, SkipReported, BatchReported, DoneReported, TypeOK,
         Records
  <2>5. RunsKnown'
    BY <2>1, <2>2, <2>3, <2>4 DEF TurnInv, RunsKnown, Named
  <2> QED
    BY <2>1, <2>2, <2>3, <2>4, <2>5, CalmTurn
<1> QED
  BY <1>1, <1>2 DEF BackgroundTask

\* A lease and a running trainer are never in the record together.
LEMMA ReleaseTurn ==
  ASSUME TypeOK, TurnInv, NEW l, Release(l),
         UNCHANGED <<vllm, trainer, tasks, posted, enabled, spent>>, look'.run = look.run
  PROVE  TurnInv'
<1>1. CASE MayRelease(l)
  <2>1. rec'.run = rec.run /\ rec'.phase = "restarting"
    BY <1>1, RecordFields DEF Release
  <2>2. job'.kind = "release" /\ job'.run = None
    BY <1>1 DEF Release, Take, FreeJob
  <2>3. ~TrainerRunning
    BY <1>1 DEF MayRelease, TurnInv, RunningTrainer
  <2>4. RunsKnown'
    BY <2>1, <2>2 DEF TurnInv, RunsKnown, Named
  <2> QED
    BY <2>1, <2>2, <2>3, <2>4, CalmTurn
<1>2. CASE ~MayRelease(l)
  <2>1. UNCHANGED <<rec, job>>
    BY <1>2 DEF Release
  <2>2. RunsKnown'
    BY <2>1 DEF TurnInv, RunsKnown, Named
  <2> QED
    BY <2>1, <2>2, StillTurn
<1> QED
  BY <1>1, <1>2

\* The container boots, trains for the run in the record, reports once, dies.
LEMMA TrainerTurn ==
  ASSUME TypeOK, TurnInv, Trainer
  PROVE  TurnInv'
<1>1. UNCHANGED <<rec, job, vllm, look, enabled>>
  BY DEF Trainer, TrainerCreated, TrainerRemoved, TrainerBoots, TrainerDies,
       TrainerReports, core, world
<1>2. StoppedForTrainer' /\ RecordedBeforeLaunch'
  BY <1>1 DEF TurnInv, StoppedForTrainer, RecordedBeforeLaunch
<1>3. CASE UNCHANGED <<tasks, posted, spent>> /\ (TrainerRunning' => TrainerBoots)
  <2>1. RunsKnown' /\ NightIsNew'
    BY <1>1, <1>3
       DEF TurnInv, RunsKnown, Named, NightIsNew, OnTheWay, JustStarted, At, Unheard
  <2>2. RunningTrainer'
    <3>1. CASE TrainerBoots /\ trainer' = [at |-> "training", run |-> rec.run]
      <4>1. TrainerRunning
        BY <3>1 DEF TrainerBoots, TrainerRunning
      <4> QED
        BY <1>1, <1>3, <3>1, <4>1
           DEF TurnInv, RunningTrainer, JustStarted, At, Unheard
    <3>2. CASE ~TrainerRunning'
      BY <3>2 DEF RunningTrainer
    <3>3. TrainerBoots => \/ trainer' = [at |-> "training", run |-> rec.run]
                          \/ ~TrainerRunning'
      BY DEF TrainerBoots, TrainerRunning
    <3> QED
      BY <1>3, <3>1, <3>2, <3>3
  <2> QED
    BY <1>2, <2>1, <2>2 DEF TurnInv
<1>4. ASSUME NEW m \in Reports, TrainerReports(m)
      PROVE  TurnInv'
  <2>1. /\ TrainerRunning /\ ~TrainerRunning'
        /\ m.run = rec.run
    <3>1. trainer.at = "training" /\ m.run = trainer.run
      BY <1>4 DEF TrainerReports, Reports
    <3> QED
      BY <1>4, <3>1 DEF TrainerReports, TrainerRunning, TurnInv, RunningTrainer
  <2>2. /\ spent \subseteq spent'
        /\ \/ UNCHANGED <<tasks, posted>>
           \/ tasks' = tasks \cup {m} /\ posted' = posted \cup {m}
    BY <1>4 DEF TrainerReports, Accept
  <2>3. RunsKnown'
    BY <1>1, <2>1, <2>2 DEF TurnInv, RunsKnown, Named
  <2>4. ~OnTheWay /\ rec.phase # "postponed"
    BY <2>1 DEF TurnInv, RunningTrainer, OnTheWay, JustStarted, At
  <2>5. NightIsNew'
    BY <1>1, <2>4 DEF TurnInv, NightIsNew, OnTheWay, JustStarted, At
  <2>6. RunningTrainer'
    BY <2>1 DEF RunningTrainer
  <2> QED
    BY <1>2, <2>3, <2>5, <2>6 DEF TurnInv
<1>5. ASSUME TrainerCreated \/ TrainerRemoved \/ TrainerDies \/ TrainerBoots
      PROVE  UNCHANGED <<tasks, posted, spent>> /\ (TrainerRunning' => TrainerBoots)
  BY <1>5
     DEF TrainerCreated, TrainerRemoved, TrainerDies, TrainerBoots,
       TrainerRunning, TypeOK, mail, world
<1> QED
  BY <1>3, <1>4, <1>5 DEF Trainer

\* Timers, operators and clients touch neither a night nor a trainer.
LEMMA OutsideTurn ==
  ASSUME TypeOK, TurnInv, VllmBecomesHealthy \/ Trainer \/ Clients
  PROVE  TurnInv'
<1>1. CASE VllmBecomesHealthy
  <2>1. vllm = "starting" /\ UNCHANGED <<rec, job, trainer, tasks, posted, look, spent, enabled>>
    BY <1>1 DEF VllmBecomesHealthy, edge, mail, world
  <2>2. ~TrainerRunning
    BY <2>1 DEF TurnInv, RunningTrainer
  <2> QED
    BY <2>1, <2>2
       DEF TurnInv, RunsKnown, Named, NightIsNew, OnTheWay, JustStarted, At,
         Unheard, StoppedForTrainer, RecordedBeforeLaunch, RunningTrainer,
         TrainerRunning
<1>2. CASE Trainer
  BY <1>2, TrainerTurn
<1>3. CASE LeaseExpires
  <2>1. rec'.run = rec.run /\ rec'.phase = rec.phase /\ rec'.outcome = rec.outcome
    BY <1>3 DEF LeaseExpires, TypeOK, Records
  <2>2. UNCHANGED <<job, vllm, trainer, tasks, posted, look, spent, enabled>>
    BY <1>3 DEF LeaseExpires, edge, mail, world
  <2>3. RunsKnown'
    BY <2>1, <2>2 DEF TurnInv, RunsKnown, Named
  <2> QED
    BY <2>1, <2>2, <2>3, StillTurn
<1>4. ASSUME NEW l \in Leases, ClientReleases(l)
      PROVE  TurnInv'
  <2>1. /\ UNCHANGED <<vllm, trainer, tasks, posted, enabled, spent, look>>
        /\ Release(l) \/ UNCHANGED <<rec, job>>
    BY <1>4 DEF ClientReleases, mail
  <2>2. CASE Release(l)
    BY <2>1, <2>2, ReleaseTurn
  <2>3. CASE UNCHANGED <<rec, job>>
    <3>1. RunsKnown'
      BY <2>1, <2>3 DEF TurnInv, RunsKnown, Named
    <3> QED
      BY <2>1, <2>3, <3>1, StillTurn
  <2> QED
    BY <2>1, <2>2, <2>3
<1>5. ASSUME \/ \E q \in Requests : Admit(q) \/ Finish(q)
             \/ \E m \in posted : CallbackRepeated(m)
             \/ OperatorSwitches
      PROVE  TurnInv'
  <2>1. /\ UNCHANGED <<rec, job, vllm, trainer, look, spent, enabled>>
        /\ posted' = posted
        /\ tasks' \subseteq tasks \cup posted
    BY <1>5
       DEF Admit, Finish, CallbackRepeated, Accept, OperatorSwitches, core,
         edge, mail, world
  <2>2. RunsKnown'
    BY <2>1 DEF TurnInv, RunsKnown, Named
  <2> QED
    BY <2>1, <2>2, StillTurn
<1> QED
  BY <1>1, <1>2, <1>3, <1>4, <1>5 DEF Clients

\* Both reconcilers act on a look that named a generated run.
LEMMA ReconcilersTurn ==
  ASSUME TypeOK, TurnInv, Reconcilers
  PROVE  TurnInv'
<1>1. UNCHANGED <<vllm, trainer, tasks, posted, enabled, spent>>
  BY DEF Reconcilers, LeaseReconcilerReads, LeaseReconcilerEnters,
       LeaseReconcilerActs, StalledReconcilerReads, StalledReconcilerActs,
       core, mail, world
<1>2. CASE LeaseReconcilerReads \/ LeaseReconcilerEnters \/ StalledReconcilerReads
  <2>1. UNCHANGED <<rec, job>> /\ look'.run \in {look.run, rec.run}
    BY <1>2
       DEF LeaseReconcilerReads, LeaseReconcilerEnters, StalledReconcilerReads,
         LeaseLookedAt, TypeOK, Looks, core
  <2>2. RunsKnown'
    BY <1>1, <2>1 DEF TurnInv, RunsKnown, Named
  <2> QED
    BY <1>1, <2>1, <2>2, StillTurn
<1>3. CASE LeaseReconcilerActs
  <2>1. look'.run = look.run /\ (Release(look.lease) \/ UNCHANGED <<rec, job>>)
    BY <1>3 DEF LeaseReconcilerActs, LeaseForgotten, TypeOK, Looks
  <2>2. CASE Release(look.lease)
    BY <1>1, <2>1, <2>2, ReleaseTurn
  <2>3. CASE UNCHANGED <<rec, job>>
    <3>1. RunsKnown'
      BY <1>1, <2>1, <2>3 DEF TurnInv, RunsKnown, Named
    <3> QED
      BY <1>1, <2>3, <3>1, StillTurn
  <2> QED
    BY <2>1, <2>2, <2>3
<1>4. CASE StalledReconcilerActs
  <2>1. rec' = rec /\ look'.run = None
    BY <1>4 DEF StalledReconcilerActs, TypeOK, Looks
  <2>2. CASE UNCHANGED job
    <3>1. RunsKnown'
      BY <1>1, <2>1, <2>2 DEF TurnInv, RunsKnown, Named
    <3> QED
      BY <1>1, <2>1, <2>2, <3>1, StillTurn
  <2>3. CASE /\ trainer.at \in {"created", "exited"}
             /\ job' = [Take("failure", "recover") EXCEPT !.run = look.run]
    <3>1. job'.kind = "failure" /\ job'.run = look.run
      BY <2>3 DEF Take, FreeJob
    <3>2. ~TrainerRunning
      BY <2>3 DEF TrainerRunning
    <3>3. RunsKnown'
      BY <1>1, <2>1, <3>1 DEF TurnInv, RunsKnown, Named
    <3> QED
      BY <1>1, <2>1, <3>1, <3>2, <3>3, CalmTurn
  <2> QED
    BY <1>4, <2>2, <2>3 DEF StalledReconcilerActs
<1> QED
  BY <1>2, <1>3, <1>4 DEF Reconcilers

\* A restart settles nothing while a trainer runs or a night is on its way.
LEMMA ProcessTurn ==
  ASSUME TypeOK, TurnInv, "compose" \notin Actors, Process
  PROVE  TurnInv'
<1>1. CASE Crash
  <2>1. /\ UNCHANGED <<rec, vllm, trainer, posted, spent, enabled>>
        /\ tasks' = {} /\ job' = FreeJob /\ look' = Unlooked
    BY <1>1 DEF Crash, ProcessGone
  <2>2. job'.kind = "free" /\ job'.run = None /\ look'.run = None
    BY <2>1 DEF FreeJob, Unlooked
  <2>3. RunsKnown'
    BY <2>1, <2>2 DEF TurnInv, RunsKnown, Named
  <2>4. TrainerRunning => rec'.phase \in {"starting_training", "training"}
    BY <2>1 DEF TurnInv, RunningTrainer
  <2> QED
    BY <2>1, <2>2, <2>3, <2>4, CalmTurn
<1>2. CASE Restart
  <2>1. /\ rec' = SettledRecord
        /\ UNCHANGED <<job, vllm, trainer, tasks, posted, spent, enabled>>
        /\ look'.run = look.run
    BY <1>2 DEF Restart, LeaseLookedAt, TypeOK, Looks, mail
  <2>2. RunsKnown'
    BY <2>1, SettledIs DEF TurnInv, RunsKnown, Named
  <2>3. CASE SettledRecord = rec
    BY <2>1, <2>2, <2>3, StillTurn
  <2>4. CASE SettledRecord.phase = "idle" /\ rec.outcome \in TerminalOutcomes
    <3>1. ~TrainerRunning /\ ~OnTheWay /\ ~JustStarted
      BY <2>4 DEF TurnInv, RunningTrainer, NightIsNew
    <3>2. ~(OnTheWay \/ JustStarted)'
      BY <2>1, <3>1 DEF OnTheWay, JustStarted, At
    <3>3. job'.kind = "nightly" => job'.at \notin {"request", "launch", "launched"}
      BY <2>1, <3>1 DEF OnTheWay, JustStarted, At
    <3> QED
      BY <2>1, <2>2, <2>4, <3>1, <3>2, <3>3, CalmTurn
  <2> QED
    BY <2>3, <2>4, SettledIs
<1>3. CASE Serves
  <2>1. UNCHANGED <<rec, job, vllm, trainer, tasks, posted, look, spent, enabled>>
    BY <1>3 DEF Serves, core, mail
  <2>2. RunsKnown'
    BY <2>1 DEF TurnInv, RunsKnown, Named
  <2> QED
    BY <2>1, <2>2, StillTurn
<1> QED
  BY <1>1, <1>2, <1>3 DEF Process, ComposeCycle, Present

\* The invariant is kept by every step.
LEMMA NextTurn ==
  ASSUME TypeOK, TurnInv, LendInv, "compose" \notin Actors,
         "lateTrainer" \notin Faults, [Next]_vars
  PROVE  TurnInv'
<1>1. CASE UNCHANGED vars
  <2>1. UNCHANGED <<rec, job, vllm, trainer, tasks, posted, look, spent, enabled>>
    BY <1>1 DEF vars, core, edge, mail, world
  <2>2. RunsKnown'
    BY <2>1 DEF TurnInv, RunsKnown, Named
  <2> QED
    BY <2>1, <2>2, StillTurn
<1> QED
  BY <1>1, NightlyTurn, CallbackTurn, RecoveryTurn, LeaseTurn, RollbackTurn,
     BeginsTurn, BackgroundTurn, OutsideTurn, ReconcilersTurn, ProcessTurn
     DEF Next, LockHolder


-----------------------------------------------------------------------------
\* The trainer has the memory.
Training == trainer.at = "training"

\* The tenants, one by one.
LEMMA UsersAre ==
  /\ GpuUsers \subseteq {"inference", "training", "image"}
  /\ "inference" \in GpuUsers <=> vllm # "stopped"
  /\ "training" \in GpuUsers <=> Training
  /\ "image" \in GpuUsers <=> LeaseHeld
BY DEF GpuUsers, Training

\* A step moves at most one tenant, and in only when nobody else is there.
OneMoves ==
  \/ /\ UNCHANGED <<vllm, trainer>>
     /\ LeaseHeld' => LeaseHeld \/ (vllm = "stopped" /\ ~Training)
  \/ /\ UNCHANGED <<rec, vllm>>
     /\ Training' => Training \/ (vllm = "stopped" /\ ~LeaseHeld)
  \/ /\ UNCHANGED <<rec, trainer>>
     /\ vllm' # "stopped" => vllm # "stopped" \/ ~(Training \/ LeaseHeld)

\* Such a step is one of the arbiter's, or none.
LEMMA OneMovesIsTurn ==
  ASSUME OneMoves
  PROVE  [Promise!Next]_GpuUsers
<1> DEFINE T == {"inference", "training", "image"}
<1>1. \/ GpuUsers' = GpuUsers
      \/ GpuUsers = {} /\ \E t \in T : GpuUsers' = {t}
      \/ \E t \in GpuUsers : GpuUsers' = GpuUsers \ {t}
  <2>1. CASE /\ UNCHANGED <<vllm, trainer>>
             /\ LeaseHeld' => LeaseHeld \/ (vllm = "stopped" /\ ~Training)
    <3>1. CASE LeaseHeld' = LeaseHeld
      BY <2>1, <3>1 DEF GpuUsers
    <3>2. CASE LeaseHeld /\ ~LeaseHeld'
      <4>1. "image" \in GpuUsers /\ GpuUsers' = GpuUsers \ {"image"}
        BY <2>1, <3>2 DEF GpuUsers
      <4> QED
        BY <4>1
    <3>3. CASE ~LeaseHeld /\ LeaseHeld'
      <4>1. GpuUsers = {} /\ GpuUsers' = {"image"}
        BY <2>1, <3>3 DEF GpuUsers, Training
      <4> QED
        BY <4>1
    <3> QED
      BY <3>1, <3>2, <3>3 DEF LeaseHeld
  <2>2. CASE /\ UNCHANGED <<rec, vllm>>
             /\ Training' => Training \/ (vllm = "stopped" /\ ~LeaseHeld)
    <3>0. LeaseHeld' = LeaseHeld
      BY <2>2 DEF LeaseHeld
    <3>1. CASE Training' = Training
      BY <2>2, <3>0, <3>1 DEF GpuUsers, Training
    <3>2. CASE Training /\ ~Training'
      <4>1. "training" \in GpuUsers /\ GpuUsers' = GpuUsers \ {"training"}
        BY <2>2, <3>0, <3>2 DEF GpuUsers, Training
      <4> QED
        BY <4>1
    <3>3. CASE ~Training /\ Training'
      <4>1. GpuUsers = {} /\ GpuUsers' = {"training"}
        BY <2>2, <3>0, <3>3 DEF GpuUsers, Training
      <4> QED
        BY <4>1
    <3> QED
      BY <3>1, <3>2, <3>3 DEF Training
  <2>3. CASE /\ UNCHANGED <<rec, trainer>>
             /\ vllm' # "stopped" => vllm # "stopped" \/ ~(Training \/ LeaseHeld)
    <3>0. LeaseHeld' = LeaseHeld
      BY <2>3 DEF LeaseHeld
    <3>1. CASE vllm' = "stopped" <=> vllm = "stopped"
      BY <2>3, <3>0, <3>1 DEF GpuUsers
    <3>2. CASE vllm # "stopped" /\ vllm' = "stopped"
      <4>1. "inference" \in GpuUsers /\ GpuUsers' = GpuUsers \ {"inference"}
        BY <2>3, <3>0, <3>2 DEF GpuUsers
      <4> QED
        BY <4>1
    <3>3. CASE vllm = "stopped" /\ vllm' # "stopped"
      <4>1. GpuUsers = {} /\ GpuUsers' = {"inference"}
        BY <2>3, <3>0, <3>3 DEF GpuUsers, Training
      <4> QED
        BY <4>1
    <3> QED
      BY <3>1, <3>2, <3>3
  <2> QED
    BY <2>1, <2>2, <2>3 DEF OneMoves
<1>2. GpuUsers \subseteq T
  BY UsersAre
<1> QED
  BY <1>1, <1>2 DEF Promise!Next, Promise!Enter, Promise!Exit

\* Who starts vLLM meets neither trainer nor lease.
LEMMA HolderMoves ==
  ASSUME TypeOK, TurnInv, LendInv, job.kind \notin {"free", "rollback"}, ~JustStarted,
         UNCHANGED <<rec, trainer>>
  PROVE  OneMoves
BY DEF OneMoves, TurnInv, RunningTrainer, TrainerRunning, Training, LendInv,
     OnlyRollbackMeetsLease, LeaseHeld

\* The night stops vLLM, and only then is a trainer started.
LEMMA NightlyMoves ==
  ASSUME TypeOK, TurnInv, LendInv, NightlyGoesOn
  PROVE  OneMoves
<1> USE Moves
<1>1. rec.phase # "image_edit" /\ ~LeaseHeld
  BY DEF NightlyGoesOn, NightlySenses, NightlyPrepares, NightlyEnters,
       NightlyDrains, NightlyStops, NightlyRequests, NightlyLaunches,
       NightlyConfirms, At, LendInv, OnlyRollbackMeetsLease, LeaseHeld
<1>2. rec'.phase # "image_edit"
  BY <1>1
     DEF TypeOK, Records, NightlyGoesOn, NightlySenses, NightlyPrepares,
       NightlyEnters, NightlyDrains, NightlyStops, NightlyRequests,
       NightlyLaunches, NightlyConfirms
<1>3. CASE NightlyStops
  BY <1>3, HolderMoves
     DEF NightlyStops, Container, At, JustStarted, OneMoves, edge
<1>4. CASE NightlyLaunches /\ trainer' # trainer
  <2>1. trainer' = TrainerStarted /\ rec' = rec /\ vllm' = vllm
    BY <1>4 DEF NightlyLaunches
  <2>2. Training' => Training
    BY <2>1 DEF TrainerStarted, Training, TrainerRunning, TypeOK
  <2> QED
    BY <2>1, <2>2 DEF OneMoves
<1>5. CASE UNCHANGED <<vllm, trainer>>
  BY <1>2, <1>5 DEF OneMoves, LeaseHeld
<1>6. NightlyGoesOn => \/ NightlyStops
                       \/ NightlyLaunches /\ trainer' # trainer
                       \/ UNCHANGED <<vllm, trainer>>
  BY DEF NightlyGoesOn, NightlySenses, NightlyPrepares, NightlyEnters,
       NightlyDrains, NightlyRequests, NightlyLaunches, NightlyConfirms, edge
<1> QED
  BY <1>3, <1>4, <1>5, <1>6

\* A callback's operation restarts vLLM after its trainer has gone.
LEMMA CallbackMoves ==
  ASSUME TypeOK, TurnInv, LendInv, CallbackGoesOn
  PROVE  OneMoves
<1>1. CASE CallbackStartsVllm
  BY <1>1, HolderMoves
     DEF CallbackStartsVllm, Completing, JustStarted, At, edge
<1>2. CASE ~CallbackStartsVllm
  <2>1. UNCHANGED <<vllm, trainer>> /\ job.kind \in {"done", "batch", "skipped"}
    BY <1>2
       DEF CallbackGoesOn, CallbackAwaitsVllm, CandidateChosen, CandidateLoads,
         CandidateEvaluates, CandidateRejected, CandidatePromoted,
         CandidateRaises, ControllerRefreshes, DoneFinishes, BatchFinishes,
         SkipFinishes, Completing, At, edge
  <2>2. rec.phase # "image_edit"
    BY <2>1 DEF LendInv, OnlyRollbackMeetsLease
  <2>3. rec'.phase # "image_edit"
    BY <1>2, <2>2
       DEF TypeOK, Records, CallbackGoesOn, CallbackAwaitsVllm,
         CandidateChosen, CandidateLoads, CandidateEvaluates, CandidateRejected,
         CandidatePromoted, CandidateRaises, ControllerRefreshes, DoneFinishes,
         BatchFinishes, SkipFinishes
  <2> QED
    BY <2>1, <2>3 DEF OneMoves, LeaseHeld
<1> QED
  BY <1>1, <1>2

\* A recovery restarts vLLM after the trainer has gone.
LEMMA RecoveryMoves ==
  ASSUME TypeOK, TurnInv, LendInv, RecoveryGoesOn
  PROVE  OneMoves
<1>1. job.kind \notin {"free", "rollback"} /\ ~JustStarted
  BY DEF RecoveryGoesOn, Recovers, RecoveryStartsVllm, RecoveryAwaitsVllm,
       RecoveryReopens, RecoveryRecords, LendInv, KindFitsPlace, JustStarted, At
<1>2. CASE RecoveryStartsVllm \/ RecoveryAwaitsVllm \/ RecoveryReopens
  BY <1>1, <1>2, HolderMoves
     DEF RecoveryStartsVllm, RecoveryAwaitsVllm, RecoveryReopens, edge
<1>3. CASE Recovers \/ RecoveryRecords
  <2>1. rec'.phase \in {"recovering", "failed"}
    BY <1>3 DEF Recovers, RecoveryRecords, TypeOK, Records
  <2>2. UNCHANGED <<vllm, trainer>>
    BY <1>3 DEF Recovers, RecoveryRecords, edge
  <2> QED
    BY <2>1, <2>2 DEF OneMoves, LeaseHeld
<1> QED
  BY <1>2, <1>3 DEF RecoveryGoesOn

\* A lease is granted when vLLM is stopped and ends before it starts.
LEMMA LeaseMoves ==
  ASSUME TypeOK, TurnInv, LendInv, LeaseGoesOn
  PROVE  OneMoves
<1>1. CASE AcquireStops \/ AcquireRestoresVllm \/ ReleaseStartsVllm
  BY <1>1, HolderMoves
     DEF AcquireStops, AcquireRestoresVllm, ReleaseStartsVllm, JustStarted, At,
       edge
<1>2. CASE LeaseGranted
  <2>1. vllm = "stopped" /\ ~TrainerRunning
    BY <1>2
       DEF LeaseGranted, At, LendInv, StoppedWhileWaiting, TurnInv,
         RunningTrainer, JustStarted
  <2> QED
    BY <1>2, <2>1 DEF LeaseGranted, OneMoves, Training, TrainerRunning
<1>3. CASE AcquireFails \/ ReleaseFinishes \/ LeaseKeptForRetry
  <2>1. CASE LeaseKeptForRetry
    <3>1. rec'.expired
      BY <2>1 DEF LeaseKeptForRetry, LeaseRecord, Blank
    <3> QED
      BY <2>1, <3>1 DEF LeaseKeptForRetry, LeaseHeld, OneMoves, edge
  <2>2. CASE AcquireFails
    <3>1. rec'.phase = "failed"
      BY <2>2 DEF AcquireFails, Blank
    <3> QED
      BY <2>2, <3>1 DEF AcquireFails, LeaseHeld, OneMoves, edge
  <2>3. CASE ReleaseFinishes
    <3>1. rec'.phase = "idle"
      BY <2>3 DEF ReleaseFinishes, Blank
    <3> QED
      BY <2>3, <3>1 DEF ReleaseFinishes, LeaseHeld, OneMoves, edge
  <2> QED
    BY <1>3, <2>1, <2>2, <2>3
<1>4. CASE AcquireDrains \/ MemoryNeverFree \/ AcquireAwaitsVllm
           \/ AcquireReopens \/ ReleaseAwaitsVllm
  BY <1>4
     DEF AcquireDrains, MemoryNeverFree, AcquireAwaitsVllm, AcquireReopens,
       ReleaseAwaitsVllm, OneMoves, LeaseHeld, edge
<1> QED
  BY <1>1, <1>2, <1>3, <1>4 DEF LeaseGoesOn

\* Neither record nor containers, or the record alone and no lease in it.
LEMMA NothingMoves ==
  ASSUME UNCHANGED <<vllm, trainer>>, LeaseHeld' => LeaseHeld
  PROVE  OneMoves
BY DEF OneMoves

\* A release makes no tenant of anybody.
LEMMA ReleaseMoves ==
  ASSUME TypeOK, NEW l, Release(l), UNCHANGED <<vllm, trainer>>
  PROVE  OneMoves
BY NothingMoves DEF Release, LeaseHeld, TypeOK, Records

\* What takes the lock moves nobody.
LEMMA BeginsMoves ==
  ASSUME TypeOK, Begins
  PROVE  OneMoves
<1>1. UNCHANGED <<vllm, trainer>>
  BY DEF Begins, NightlyDisabled, NightlyStarts, AcquireStarts,
       RollbackStarts, edge
<1>2. CASE NightlyDisabled \/ NightlyStarts
  <2>1. rec' = rec \/ rec'.phase = "idle"
    BY <1>2 DEF NightlyDisabled, NightlyStarts, Blank
  <2> QED
    BY <1>1, <2>1, NothingMoves DEF LeaseHeld
<1>3. CASE AcquireStarts \/ RollbackStarts
  <2>1. rec' = rec \/ rec'.phase \in {"idle", "failed"}
    BY <1>3 DEF AcquireStarts, RollbackStarts
  <2> QED
    BY <1>1, <2>1, NothingMoves DEF LeaseHeld
<1> QED
  BY <1>2, <1>3 DEF Begins

\* A posted callback is applied in the background.
LEMMA BackgroundMoves ==
  ASSUME TypeOK, BackgroundTask
  PROVE  OneMoves
<1>1. ASSUME NEW m \in tasks, CallbackDropped(m)
      PROVE  OneMoves
  BY <1>1, NothingMoves DEF CallbackDropped, core, LeaseHeld
<1>2. ASSUME NEW m \in tasks,
             FailureReported(m) \/ SkipReported(m) \/ BatchReported(m) \/ DoneReported(m)
      PROVE  OneMoves
  <2>1. UNCHANGED <<vllm, trainer>> /\ rec.phase # "image_edit"
    BY <1>2
       DEF FailureReported, SkipReported, BatchReported, DoneReported,
         CallbackApplies, Matches
  <2>2. rec'.phase # "image_edit"
    BY <1>2, <2>1
       DEF FailureReported, SkipReported, BatchReported, DoneReported, TypeOK,
         Records
  <2> QED
    BY <2>1, <2>2, NothingMoves DEF LeaseHeld
<1> QED
  BY <1>1, <1>2 DEF BackgroundTask

\* The trainer leaves, a lease expires, vLLM finishes its start.
LEMMA OutsideMoves ==
  ASSUME TypeOK, TurnInv, VllmBecomesHealthy \/ Trainer \/ Clients
  PROVE  OneMoves
<1>1. CASE VllmBecomesHealthy
  BY <1>1 DEF VllmBecomesHealthy, OneMoves, edge
<1>2. CASE Trainer
  <2>1. UNCHANGED <<rec, vllm>>
    BY <1>2
       DEF Trainer, TrainerCreated, TrainerRemoved, TrainerBoots, TrainerDies,
         TrainerReports, core
  <2>2. CASE TrainerBoots
    <3>1. TrainerRunning
      BY <2>2 DEF TrainerBoots, TrainerRunning
    <3> QED
      BY <2>1, <3>1 DEF OneMoves, TurnInv, RunningTrainer, LeaseHeld
  <2>3. CASE ~TrainerBoots
    <3>1. ~Training'
      BY <1>2, <2>3
         DEF Trainer, TrainerCreated, TrainerRemoved, TrainerDies,
           TrainerReports, Training, TypeOK
    <3> QED
      BY <2>1, <3>1 DEF OneMoves
  <2> QED
    BY <2>2, <2>3
<1>3. CASE LeaseExpires
  <2>1. rec'.expired /\ UNCHANGED <<vllm, trainer>>
    BY <1>3 DEF LeaseExpires, TypeOK, Records, edge
  <2> QED
    BY <2>1, NothingMoves DEF LeaseHeld
<1>4. ASSUME NEW l \in Leases, ClientReleases(l)
      PROVE  OneMoves
  BY <1>4, ReleaseMoves, NothingMoves DEF ClientReleases, LeaseHeld
<1>5. ASSUME \/ \E q \in Requests : Admit(q) \/ Finish(q)
             \/ \E m \in posted : CallbackRepeated(m)
             \/ OperatorSwitches
      PROVE  OneMoves
  BY <1>5, NothingMoves
     DEF Admit, Finish, CallbackRepeated, OperatorSwitches, core, edge, LeaseHeld
<1> QED
  BY <1>1, <1>2, <1>3, <1>4, <1>5 DEF Clients

\* The reconcilers release at most the lease they looked at.
LEMMA ReconcilersMove ==
  ASSUME TypeOK, Reconcilers
  PROVE  OneMoves
<1>1. UNCHANGED <<vllm, trainer>>
  BY DEF Reconcilers, LeaseReconcilerReads, LeaseReconcilerEnters,
       LeaseReconcilerActs, StalledReconcilerReads, StalledReconcilerActs, core
<1>2. rec' = rec \/ Release(look.lease)
  BY DEF Reconcilers, LeaseReconcilerReads, LeaseReconcilerEnters,
       LeaseReconcilerActs, StalledReconcilerReads, StalledReconcilerActs, core
<1> QED
  BY <1>1, <1>2, ReleaseMoves, NothingMoves DEF LeaseHeld

\* A crash or a restart moves neither container.
LEMMA ProcessMoves ==
  ASSUME TypeOK, "compose" \notin Actors, Process
  PROVE  OneMoves
<1>1. UNCHANGED <<vllm, trainer>>
  BY DEF Process, Crash, ComposeCycle, Present, Restart, Serves, core
<1>2. rec' = rec \/ rec' = SettledRecord
  BY DEF Process, Crash, ProcessGone, ComposeCycle, Present, Restart, Serves,
       core
<1>3. SettledRecord = rec \/ SettledRecord.phase = "idle"
  BY SettledIs
<1> QED
  BY <1>1, <1>2, <1>3, NothingMoves DEF LeaseHeld

\* Every step of the policy moves at most one tenant.
LEMMA NextMoves ==
  ASSUME TypeOK, TurnInv, LendInv, "compose" \notin Actors, [Next]_vars
  PROVE  OneMoves
<1>1. CASE UNCHANGED vars
  BY <1>1, NothingMoves DEF vars, core, edge, LeaseHeld
<1>2. CASE RollbackGoesOn \/ Reopens
  BY <1>2, NothingMoves
     DEF RollbackGoesOn, RollbackDrains, RollbackSwaps, RollbackVerifies,
       RollbackRestores, Reopens, edge, LeaseHeld
<1> QED
  BY <1>1, <1>2, NightlyMoves, CallbackMoves, RecoveryMoves, LeaseMoves,
     BeginsMoves, BackgroundMoves, OutsideMoves, ReconcilersMove, ProcessMoves
     DEF Next, LockHolder

\* vLLM, the trainer and an image lease take turns at the memory, as the
\* abstract arbiter says (lifecycle.py:138-267, 391-540, 822-905), through
\* every crash, rollback, repeated callback and fault; provided compose does
\* not start containers by itself, and a start of the trainer that raised
\* (911-943) has not started it.
THEOREM OneTenantTheorem ==
  ASSUME "compose" \notin Actors, "lateTrainer" \notin Faults
  PROVE  Spec => OneTenant
<1>1. Init => LendInv
  BY DEF Init, Blank, FreeJob, LendInv, OnlyRollbackMeetsLease,
       LeaseExcludesInference, LeaseHeld, StoppedWhileWaiting, KindFitsPlace
<1>2. Init => TurnInv
  BY DEF Init, Blank, FreeJob, Unlooked, TurnInv, RunsKnown, Named, NightIsNew,
       OnTheWay, JustStarted, At, StoppedForTrainer, RecordedBeforeLaunch,
       RunningTrainer, TrainerRunning
<1>3. TypeOK /\ LendInv /\ [Next]_vars => LendInv'
  BY NextLend
<1>4. TypeOK /\ TurnInv /\ LendInv /\ [Next]_vars => TurnInv'
  BY NextTurn
<1>5. Init => Promise!Init
  <2> SUFFICES ASSUME Init PROVE Promise!Init
    OBVIOUS
  <2>1. GpuUsers = {"inference"}
    BY DEF Init, GpuUsers, LeaseHeld, Blank
  <2> QED
    BY <2>1 DEF Promise!Init
<1>6. TypeOK /\ TurnInv /\ LendInv /\ [Next]_vars => [Promise!Next]_GpuUsers
  BY NextMoves, OneMovesIsTurn
<1> QED
  BY <1>1, <1>2, <1>3, <1>4, <1>5, <1>6, TypeCorrect, PTL
     DEF Spec, OneTenant, Promise!Spec
=============================================================================
