-------------------------- MODULE PolicyProperties --------------------------
(***************************************************************************)
(* What clare2-policy owes its users, stated of PolicyLifecycle.           *)
(***************************************************************************)
EXTENDS PolicyLifecycle

\* The record, the registry, the lock holder and the containers always have
\* one of the shapes the code writes (lifecycle.py PHASES, registry.py
\* ADAPTER_STATES).
TypeOK ==
  /\ rec \in Records
  /\ reg \in Documents
  /\ job \in Jobs
  /\ maint \in BOOLEAN
  /\ inflight \subseteq Requests
  /\ vllm \in {"stopped", "starting", "healthy"}
  /\ trainer \in [at : {"absent", "created", "booting", "training", "exited"},
                  run : Runs \cup {None}]
  /\ tasks \subseteq Messages
  /\ posted \subseteq Messages
  /\ look \in Looks
  /\ clients \subseteq Leases \cup {None}
  /\ serving \in {"down", "starting", "up"}
  /\ spent \subseteq Runs \cup Leases \cup Adapters
  /\ enabled \in BOOLEAN
  /\ dream \in Dreams

-----------------------------------------------------------------------------
(***************************************************************************)
(* The GPU.                                                                *)
(***************************************************************************)
\* An image client counts on the lease it was granted until it runs out.
LeaseHeld == rec.phase = "image_edit" /\ ~rec.expired

GpuUsers ==
  (IF vllm # "stopped" THEN {"inference"} ELSE {})
    \cup (IF trainer.at = "training" THEN {"training"} ELSE {})
    \cup (IF LeaseHeld THEN {"image"} ELSE {})

Promise == INSTANCE GpuArbiter
             WITH Tenants <- {"inference", "training", "image"},
                  users <- GpuUsers

\* vLLM, the trainer and an unexpired image lease share the memory in turn:
\* whatever fails or restarts, no lifecycle operation starts one of them
\* while another still has it ("grant exclusive access to unified GPU
\* memory", lifecycle.py:142).
OneTenant == Promise!Spec

\* A granted lease that has not run out excludes vLLM (lifecycle.py:142).
LeaseExcludesInference == LeaseHeld => vllm = "stopped"

\* The policy stops vLLM only after the gate has drained: no request it
\* admitted is cut off (run_nightly_training, _acquire_image_edit_lease_once).
DrainedBeforeStop ==
  [][vllm # "stopped" /\ vllm' = "stopped" => inflight = {}]_vars

\* Only the client's own DELETE ends an image lease that has not run out
\* (release_image_edit_lease, reconcile_image_edit_lease): no reconciler,
\* restart, nightly job or other client takes the memory from under an edit.
LeaseEndsByItsClient ==
  [][LeaseHeld /\ rec'.phase # "image_edit"
       => rec.lease \in clients \ clients']_vars

-----------------------------------------------------------------------------
(***************************************************************************)
(* The maintenance gate.                                                   *)
(***************************************************************************)
\* Between operations the gate is closed exactly while the GPU is lent out:
\* no path leaves inference shut without an owner who will open it again,
\* and none opens it onto a stopped vLLM while a loan lasts.
GateMatchesPhase ==
  Free /\ serving = "up" => (maint <=> rec.phase \in {"training", "image_edit"})

\* No operation and no reconciler ends with the gate shut in a phase nobody
\* reopens it from.
NeverShutWithoutOwner ==
  /\ Free /\ look = Unlooked /\ serving = "up"
  /\ rec.phase \in {"idle", "failed"}
  => ~maint

-----------------------------------------------------------------------------
(***************************************************************************)
(* The registry.                                                           *)
(***************************************************************************)
\* What the router serves and what a rollback would serve was approved
\* (registry.promote, registry.rollback), through any crash, failed batch or
\* rollback.
AliasesApproved ==
  \A a \in {reg.current, reg.rollback} \ {None} : reg.status[a] = "approved"

\* A verdict is final: an adapter that was approved, rejected or failed never
\* gets another status.
VerdictIsFinal ==
  [][\A a \in Adapters : reg.status[a] \in {"approved", "rejected", "failed"}
       => reg'.status[a] = reg.status[a]]_vars

-----------------------------------------------------------------------------
(***************************************************************************)
(* Progress.                                                               *)
(***************************************************************************)
\* A run that reached the trainer ends: by its callback or, when that never
\* comes, by reconcile_stalled_training.
TrainingEnds == rec.phase = "training" ~> rec.phase # "training"

\* Whoever the GPU was lent to, vLLM comes back: a callback, a reconciler or
\* the lease's time limit sees to it, even when the trainer dies, a health
\* check times out or a client never returns its lease.
InferenceReturns == []<>(vllm = "healthy")
=============================================================================
