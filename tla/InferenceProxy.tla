--------------------------- MODULE InferenceProxy ----------------------------
(***************************************************************************)
(* A request on its way through the policy proxy: the test of the gate,    *)
(* admission, the gate itself, the answer or the stream of vLLM            *)
(* (clare2/pipeline/app/proxy.py, proxy_transport.py, admission.py), beside *)
(* a lifecycle thread that shuts, drains and opens the gate (runtime.py).  *)
(*                                                                         *)
(* The proxy runs in one asyncio loop: between two awaits nothing of it    *)
(* interleaves, only the lifecycle thread does.  From the test of the gate *)
(* to the request's own entry there is no await, and if the gate shuts     *)
(* meanwhile the reservation is given back: one step that changes nothing. *)
(***************************************************************************)
EXTENDS Naturals, FiniteSets

CONSTANTS
  Requests,       \* requests that may be under way together
  Workloads,
  WorkloadOf,     \* the X-Inference-Workload header of each request
  MaxActive,      \* CLARE2_INFERENCE_MAX_ACTIVE
  MaxWaiting,     \* CLARE2_INFERENCE_MAX_WAITING; 0 too if WAIT_SECONDS is 0
  WorkloadLimit   \* CLARE2_INFERENCE_WORKLOAD_LIMITS, MaxActive by default

ASSUME ProxyConstantsOK ==
  /\ IsFiniteSet(Requests)
  /\ WorkloadOf \in [Requests -> Workloads]
  /\ MaxActive \in Nat \ {0}
  /\ MaxWaiting \in Nat
  /\ WorkloadLimit \in [Workloads -> Nat]

VARIABLES
  stage,        \* where each request stands
  active,       \* AdmissionController.active
  byWorkload,   \* AdmissionController.active_by_workload, 0 when absent
  waiting,      \* AdmissionController.waiting
  enabled,      \* MaintenanceState._enabled: the gate is shut
  count,        \* MaintenanceState._active
  keeper        \* the lifecycle thread: "away", "draining" or "lent"

admission == <<active, byWorkload, waiting>>
gate == <<enabled, count, keeper>>
proxyVars == <<stage, admission, gate>>

Stages == {"out", "waiting", "working", "streaming"}

\* The requests that passed admission and gate.
Inside == {r \in Requests : stage[r] \in {"working", "streaming"}}
InsideOf(w) == {r \in Inside : WorkloadOf[r] = w}
Waiting == {r \in Requests : stage[r] = "waiting"}

Moves(r, s) == stage' = [stage EXCEPT ![r] = s]

-----------------------------------------------------------------------------
(***************************************************************************)
(* Admission.                                                              *)
(***************************************************************************)
HasCapacity(w) == active < MaxActive /\ byWorkload[w] < WorkloadLimit[w]

Reserve(r) ==
  /\ active' = active + 1
  /\ byWorkload' = [byWorkload EXCEPT ![WorkloadOf[r]] = @ + 1]

LessOne(n) == IF n = 0 THEN 0 ELSE n - 1

Release(r) ==
  /\ active' = LessOne(active)
  /\ byWorkload' = [byWorkload EXCEPT ![WorkloadOf[r]] = LessOne(@)]

\* A bug the runs must detect: MaintenanceState.request does not look at the
\* gate.
EntersUngated(r) ==
  /\ Reserve(r)
  /\ count' = count + 1
  /\ Moves(r, "working")
  /\ UNCHANGED <<enabled, keeper>>

\* Reserved, and entered into the gate's count.
Enters(r) ==
  /\ ~enabled
  /\ Reserve(r)
  /\ count' = count + 1
  /\ Moves(r, "working")
  /\ UNCHANGED <<enabled, keeper>>

\* The finally clauses: the gate's count and the reservation are given back.
Leaves(r) ==
  /\ Release(r)
  /\ count' = count - 1
  /\ Moves(r, "out")
  /\ UNCHANGED <<waiting, enabled, keeper>>

-----------------------------------------------------------------------------
(***************************************************************************)
(* A request.  Answers 503 (gate shut) and 429 (no room) change nothing.   *)
(***************************************************************************)
Arrives(r) ==
  /\ stage[r] = "out"
  /\ HasCapacity(WorkloadOf[r])
  /\ Enters(r)
  /\ UNCHANGED waiting

Queues(r) ==
  /\ stage[r] = "out"
  /\ ~enabled
  /\ ~HasCapacity(WorkloadOf[r]) /\ waiting < MaxWaiting
  /\ waiting' = waiting + 1
  /\ Moves(r, "waiting")
  /\ UNCHANGED <<active, byWorkload, gate>>

Unqueued == waiting' = waiting - 1

\* Bugs the runs must detect: a waiter that does not look for room again, and
\* one that does not look at the gate again.
PollsOnce(r) ==
  /\ stage[r] = "waiting"
  /\ active > 0
  /\ Unqueued
  /\ Enters(r)

PollsUngated(r) ==
  /\ stage[r] = "waiting"
  /\ HasCapacity(WorkloadOf[r])
  /\ Unqueued
  /\ Reserve(r)
  /\ count' = count + 1
  /\ Moves(r, "working")
  /\ UNCHANGED <<enabled, keeper>>

\* Every 0.1 s a waiter looks for room; whoever comes first gets it.
Polls(r) ==
  /\ stage[r] = "waiting"
  /\ HasCapacity(WorkloadOf[r])
  /\ Unqueued
  /\ Enters(r)

\* A bug the runs must detect: "waiting" is lowered only on the way in.
WaitEndsCounted(r) ==
  /\ stage[r] = "waiting"
  /\ Moves(r, "out")
  /\ UNCHANGED <<admission, gate>>

\* The deadline, a client that is gone, or room behind a gate that shut.
WaitEnds(r) ==
  /\ stage[r] = "waiting"
  /\ Unqueued
  /\ Moves(r, "out")
  /\ UNCHANGED <<active, byWorkload, gate>>

\* The answer, an error, or a client that is gone: upstream is cancelled.
Answers(r) ==
  /\ stage[r] = "working"
  /\ Leaves(r)

\* A bug the runs must detect: the handler's finally clause does not ask
\* owned_by_stream.
StreamBeginsUnowned(r) ==
  /\ stage[r] = "working"
  /\ Release(r)
  /\ count' = count - 1
  /\ Moves(r, "streaming")
  /\ UNCHANGED <<waiting, enabled, keeper>>

\* The handler returns; guard and reservation are now the stream's.
StreamBegins(r) ==
  /\ stage[r] = "working"
  /\ Moves(r, "streaming")
  /\ UNCHANGED <<admission, gate>>

StreamEnds(r) ==
  /\ stage[r] = "streaming"
  /\ Leaves(r)

-----------------------------------------------------------------------------
(***************************************************************************)
(* The lifecycle thread.                                                   *)
(***************************************************************************)
KeeperShuts ==
  /\ keeper = "away"
  /\ enabled' = TRUE
  /\ keeper' = "draining"
  /\ UNCHANGED <<stage, admission, count>>

KeeperDrains ==
  /\ keeper = "draining" /\ count = 0
  /\ keeper' = "lent"
  /\ UNCHANGED <<stage, admission, enabled, count>>

\* The loan is over, or DRAIN_TIMEOUT passed.
KeeperOpens ==
  /\ keeper \in {"draining", "lent"}
  /\ enabled' = FALSE
  /\ keeper' = "away"
  /\ UNCHANGED <<stage, admission, count>>

-----------------------------------------------------------------------------
Init ==
  /\ stage = [r \in Requests |-> "out"]
  /\ active = 0 /\ waiting = 0
  /\ byWorkload = [w \in Workloads |-> 0]
  /\ enabled = FALSE /\ count = 0 /\ keeper = "away"

Request(r) ==
  \/ Arrives(r) \/ Queues(r) \/ Polls(r) \/ WaitEnds(r)
  \/ Answers(r) \/ StreamBegins(r) \/ StreamEnds(r)

Next ==
  \/ \E r \in Requests : Request(r)
  \/ KeeperShuts \/ KeeperDrains \/ KeeperOpens

Spec == Init /\ [][Next]_proxyVars

\* vLLM answers and ends its streams or the clients give up, waiters have a
\* deadline, and a drain that has succeeded is noticed.  Nobody has to come.
Fairness ==
  /\ \A r \in Requests :
       /\ WF_proxyVars(WaitEnds(r) \/ Polls(r))
       /\ WF_proxyVars(Answers(r) \/ StreamEnds(r))
  /\ WF_proxyVars(KeeperDrains)

FairSpec == Spec /\ Fairness

-----------------------------------------------------------------------------
(***************************************************************************)
(* Properties.                                                             *)
(***************************************************************************)
TypeOK ==
  /\ stage \in [Requests -> Stages]
  /\ active \in Nat /\ waiting \in Nat /\ count \in Nat
  /\ byWorkload \in [Workloads -> Nat]
  /\ enabled \in BOOLEAN
  /\ keeper \in {"away", "draining", "lent"}

\* The three counters say what they are meant to say: every way out of the
\* proxy gives back what the way in took, once (proxy.py:193-223,
\* proxy_transport.py:185-196, admission.py:103-122).
CountsMatch ==
  /\ active = Cardinality(Inside)
  /\ count = Cardinality(Inside)
  /\ waiting = Cardinality(Waiting)
  /\ \A w \in Workloads : byWorkload[w] = Cardinality(InsideOf(w))

\* vLLM never has more requests than it has sequences, nor more of a workload
\* than its quota, and the queue is bounded (README, "Inference admission and
\* backpressure").
EngineBounded ==
  /\ Cardinality(Inside) <= MaxActive
  /\ Cardinality(Waiting) <= MaxWaiting
  /\ \A w \in Workloads : Cardinality(InsideOf(w)) <= WorkloadLimit[w]

Gate == INSTANCE MaintenanceGate
          WITH shut <- enabled, inside <- Inside, lent <- keeper = "lent"

\* Admission, queue and streams leave the gate's promise alone: after the
\* drain nobody is behind the gate until it opens (runtime.py:47-64).
GateHolds == Gate!Spec

\* Waiters and newcomers do not prolong a drain: with its timeout aside, a
\* drain that has begun ends.
DrainEnds == keeper = "draining" ~> keeper # "draining"
=============================================================================
