----------------------------- MODULE ImageLease -----------------------------
(***************************************************************************)
(* The image-edit lease: clients of image-api borrow the GPU from vLLM.    *)
(***************************************************************************)
EXTENDS LifecycleState

-----------------------------------------------------------------------------
(***************************************************************************)
(* The image-edit lease: acquire, release, expiry.                         *)
(***************************************************************************)
AcquireStarts ==
  /\ Present("lease") /\ serving = "up" /\ Free
  /\ SettledRecord.phase \in {"idle", "failed"}
  /\ rec' = SettledRecord
  /\ reg' = SettledRegistry
  /\ maint' = TRUE
  /\ \E l \in Leases \ spent :
       /\ job' = [Take("acquire", "drain") EXCEPT !.lease = l]
       /\ spent' = spent \cup {l}
  /\ UNCHANGED <<vllm, inflight, trainer, mail, look, clients, serving,
                 enabled, dream>>

AcquireDrains ==
  /\ At("acquire", "drain")
  /\ Drain("stop", "undoExit")
  /\ UNCHANGED <<rec, reg, maint, vllm, edge>>

\* A stop that raised counts as not stopped, so nothing restarts vLLM.
AcquireStops ==
  /\ At("acquire", "stop")
  /\ Container("stopped", "memory", "undoExit")
  /\ UNCHANGED <<rec, reg, maint, edge>>

\* The grant; its answer may find the client gone (its read timeout is as
\* long as the drain timeout).
LeaseGranted ==
  /\ At("acquire", "memory")
  /\ rec' = LeaseRecord(job.lease, FALSE)
  /\ \/ clients' = clients \cup {job.lease}
     \/ Fails("post") /\ UNCHANGED clients
  /\ Leave
  /\ UNCHANGED <<reg, maint, vllm, inflight, trainer, mail, look, serving,
                 spent, enabled, dream>>

\* A bug the runs must detect: "stopped" is set after the wait for memory.
MemoryNeverFreeUnstopped ==
  /\ At("acquire", "memory")
  /\ Fails("memory")
  /\ Goto("undoExit")
  /\ UNCHANGED <<rec, reg, maint, vllm, edge>>

MemoryNeverFree ==
  /\ At("acquire", "memory")
  /\ Fails("memory")
  /\ Goto("undoStart")
  /\ UNCHANGED <<rec, reg, maint, vllm, edge>>

AcquireRestoresVllm ==
  /\ At("acquire", "undoStart")
  /\ Container(Started, "undoWait", "undo")
  /\ UNCHANGED <<rec, reg, maint, edge>>

AcquireAwaitsVllm ==
  /\ At("acquire", "undoWait")
  /\ Await("undoExit", "undo")
  /\ UNCHANGED <<rec, reg, maint, vllm, edge>>

AcquireReopens ==
  /\ At("acquire", "undoExit")
  /\ maint' = FALSE
  /\ Goto("undoFailed")
  /\ UNCHANGED <<rec, reg, vllm, edge>>

AcquireFails ==
  /\ At("acquire", "undoFailed")
  /\ rec' = Blank("failed")
  /\ Leave
  /\ UNCHANGED <<reg, maint, vllm, edge>>

\* vLLM did not come back: the lease is (again) recorded, already expired, so
\* that the reconciler retries the release; maintenance stays on.
LeaseKeptForRetry ==
  /\ job.at = "undo"
  /\ rec' = LeaseRecord(job.lease, TRUE)
  /\ Leave
  /\ UNCHANGED <<reg, maint, vllm, edge>>

LeaseExpires ==
  /\ rec.phase = "image_edit"
  /\ ~rec.expired
  /\ rec' = [rec EXCEPT !.expired = TRUE]
  /\ UNCHANGED <<reg, job, maint, vllm, edge>>

\* release_image_edit_lease: the lock is free and the record still holds l.
\* Otherwise it answers already_released or raises, changing nothing.
MayRelease(l) == Free /\ rec.phase = "image_edit" /\ rec.lease = l

\* A bug the runs must detect: the record says "image_edit" until vLLM is back.
ReleaseUnrecorded(l) ==
  IF MayRelease(l)
  THEN /\ job' = [Take("release", "start") EXCEPT !.lease = l]
       /\ UNCHANGED rec
  ELSE UNCHANGED <<rec, job>>

Release(l) ==
  IF MayRelease(l)
  THEN /\ rec' = [rec EXCEPT !.phase = "restarting"]
       /\ job' = [Take("release", "start") EXCEPT !.lease = l]
  ELSE UNCHANGED <<rec, job>>

\* image-api leaves its "async with image_edit_lease": one DELETE whose
\* failure is swallowed.
ClientReleases(l) ==
  /\ l \in clients
  /\ clients' = clients \ {l}
  /\ \/ serving = "up" /\ Release(l)
     \/ (Fails("post") \/ serving # "up") /\ UNCHANGED <<rec, job>>
  /\ UNCHANGED <<reg, maint, vllm, inflight, trainer, mail, look, serving,
                 spent, enabled, dream>>

ReleaseStartsVllm ==
  /\ At("release", "start")
  /\ Container(Started, "wait", "undo")
  /\ UNCHANGED <<rec, reg, maint, edge>>

ReleaseAwaitsVllm ==
  /\ At("release", "wait")
  /\ Await("reopen", "undo")
  /\ UNCHANGED <<rec, reg, maint, vllm, edge>>

ReleaseFinishes ==
  /\ At("release", "finish")
  /\ rec' = Blank("idle")
  /\ Leave
  /\ UNCHANGED <<reg, maint, vllm, edge>>

-----------------------------------------------------------------------------
(***************************************************************************)
(* reconcile_image_edit_lease runs every minute: it reads the record       *)
(* without the lock and acts on what it read.                              *)
(***************************************************************************)
LeaseLookedAt(r, in) ==
  [look EXCEPT !.lease = r.lease, !.late = r.expired, !.entered = in]

LeaseForgotten == [look EXCEPT !.lease = None, !.late = FALSE, !.entered = FALSE]

\* reconcile_image_edit_lease: read ...
LeaseReconcilerReads ==
  /\ Present("leaseReconciler") /\ Working
  /\ look.lease = None
  /\ rec.phase = "image_edit"
  /\ look' = LeaseLookedAt(rec, FALSE)
  /\ UNCHANGED <<core, inflight, trainer, mail, world>>

\* ... enter maintenance ...
LeaseReconcilerEnters ==
  /\ look.lease # None /\ ~look.entered
  /\ maint' = TRUE
  /\ look' = [look EXCEPT !.entered = TRUE]
  /\ UNCHANGED <<rec, reg, job, vllm, inflight, trainer, mail, world>>

\* A bug the runs must detect: expires_at is not compared with the time.
LeaseReconcilerImpatient ==
  /\ look.entered
  /\ look' = LeaseForgotten
  /\ Release(look.lease)
  /\ UNCHANGED <<reg, maint, vllm, inflight, trainer, mail, world>>

\* ... and release the lease that was read, if its time is over by now.
LeaseReconcilerActs ==
  /\ look.entered
  /\ look' = LeaseForgotten
  /\ IF look.late \/ (rec.lease = look.lease /\ rec.expired)
     THEN Release(look.lease)
     ELSE UNCHANGED <<rec, job>>
  /\ UNCHANGED <<reg, maint, vllm, inflight, trainer, mail, world>>
=============================================================================
