-------------------------- MODULE PolicyTypeProofs --------------------------
(***************************************************************************)
(* Every state of PolicyLifecycle has the shape TypeOK describes, for      *)
(* every value of the constants.                                           *)
(***************************************************************************)
EXTENDS PolicyProperties, TLAPS

\* The places the operations name are places of the lock holder.
LEMMA PlaceNames ==
  /\ "sense" \in Places /\ "prepare" \in Places
  /\ "enter" \in Places /\ "drain" \in Places
  /\ "stop" \in Places /\ "memory" \in Places
  /\ "request" \in Places /\ "launch" \in Places
  /\ "launched" \in Places /\ "start" \in Places
  /\ "wait" \in Places /\ "load" \in Places
  /\ "evaluate" \in Places /\ "decide" \in Places
  /\ "refresh" \in Places /\ "finish" \in Places
  /\ "reopen" \in Places /\ "swap" \in Places
  /\ "verify" \in Places /\ "restore" \in Places
  /\ "undo" \in Places /\ "undoStart" \in Places
  /\ "undoWait" \in Places /\ "undoExit" \in Places
  /\ "undoFailed" \in Places /\ "recover" \in Places
  /\ "recoverStart" \in Places /\ "recoverWait" \in Places
  /\ "recoverExit" \in Places /\ "recoverFailed" \in Places
  /\ "none" \in Places
BY DEF Places

\* The phases the operations write are listed in PHASES.
LEMMA PhaseNames ==
  /\ "idle" \in Phases /\ "postponed" \in Phases
  /\ "preparing_training" \in Phases /\ "waiting_for_training_container" \in Phases
  /\ "draining" \in Phases /\ "starting_training" \in Phases
  /\ "training" \in Phases /\ "restarting" \in Phases
  /\ "loading" \in Phases /\ "evaluating" \in Phases
  /\ "recovering" \in Phases /\ "failed" \in Phases
  /\ "image_edit" \in Phases
BY DEF Phases

\* The operations that take the lock.
LEMMA KindNames ==
  /\ "nightly" \in Kinds /\ "acquire" \in Kinds
  /\ "release" \in Kinds /\ "done" \in Kinds
  /\ "batch" \in Kinds /\ "skipped" \in Kinds
  /\ "failure" \in Kinds /\ "rollback" \in Kinds
  /\ "dream" \in Kinds
BY DEF Kinds

\* The outcomes the operations record.
LEMMA OutcomeNames ==
  /\ "promoted" \in TerminalOutcomes /\ "rejected" \in TerminalOutcomes
  /\ "skipped_no_eligible_corpus" \in TerminalOutcomes /\ "disabled_by_operator" \in TerminalOutcomes
  /\ "batch_complete" \in TerminalOutcomes
BY DEF TerminalOutcomes

\* The lock held by nobody.
LEMMA FreeJobType == FreeJob \in Jobs
BY PlaceNames DEF FreeJob, Jobs

\* Moving the lock holder keeps its shape.
LEMMA GotoType ==
  ASSUME job \in Jobs, NEW s \in Places, Goto(s)
  PROVE  job' \in Jobs
BY DEF Goto, Jobs

\* So does releasing the lock.
LEMMA LeaveType == Leave => job' \in Jobs
BY FreeJobType DEF Leave

\* An operation that takes the lock has its shape.
LEMMA TakeType ==
  ASSUME NEW k \in Kinds, NEW s \in Places
  PROVE  Take(k, s) \in Jobs
BY FreeJobType DEF Take, Jobs

\* A container call leaves vLLM in one of its three states.
LEMMA ContainerType ==
  ASSUME job \in Jobs, NEW V, vllm \in V, NEW v \in V,
         NEW ok \in Places, NEW bad \in Places, Container(v, ok, bad)
  PROVE  job' \in Jobs /\ vllm' \in V
<1>1. \A s \in Places : Goto(s) => job' \in Jobs
  BY GotoType
<1> QED
  BY <1>1 DEF Container

\* The wait for vLLM only moves the lock holder.
LEMMA AwaitType ==
  ASSUME job \in Jobs, NEW ok \in Places, NEW bad \in Places, Await(ok, bad)
  PROVE  job' \in Jobs
<1>1. \A s \in Places : Goto(s) => job' \in Jobs
  BY GotoType
<1> QED
  BY <1>1 DEF Await

\* So does the wait for the drain.
LEMMA DrainType ==
  ASSUME job \in Jobs, NEW ok \in Places, NEW bad \in Places, Drain(ok, bad)
  PROVE  job' \in Jobs
<1>1. \A s \in Places : Goto(s) => job' \in Jobs
  BY GotoType
<1> QED
  BY <1>1 DEF Drain

\* A record reset to a known phase.
LEMMA BlankType ==
  ASSUME NEW p \in Phases
  PROVE  Blank(p) \in Records
BY DEF Blank, Records

\* What startup and the nightly job settle before they begin.
LEMMA SettledType ==
  ASSUME rec \in Records, reg \in Documents
  PROVE  SettledRecord \in Records /\ SettledRegistry \in Documents
<1>1. SettledRecord \in Records
  BY PhaseNames DEF SettledRecord, Records
<1>2. SettledRegistry \in Documents
  BY DEF SettledRegistry, TransitionAll, Documents, AdapterStates
<1> QED
  BY <1>1, <1>2

\* release_image_edit_lease, for a client or for the reconciler.
LEMMA ReleaseType ==
  ASSUME rec \in Records, job \in Jobs, NEW l \in Leases \cup {None}, Release(l)
  PROVE  rec' \in Records /\ job' \in Jobs
<1>1. rec' \in Records
  BY PhaseNames DEF Release, Records
<1>2. Take("release", "start") \in Jobs
  BY TakeType, KindNames, PlaceNames
<1>3. job' \in Jobs
  BY <1>2 DEF Release, Jobs
<1> QED
  BY <1>1, <1>3

\* The answer to a callback.
LEMMA AcceptType ==
  ASSUME tasks \subseteq Messages, posted \subseteq Messages,
         NEW m \in Messages, Accept(m)
  PROVE  tasks' \subseteq Messages /\ posted' \subseteq Messages
BY DEF Accept

\* What the trainer may report.
LEMMA ReportsType ==
  ASSUME TypeOK
  PROVE  Reports \subseteq Messages
<1>1. trainer.run \in Runs \cup {None}
  BY DEF TypeOK
<1> QED
  BY <1>1 DEF Reports, Messages

\* Operations that take the lock.
LEMMA BeginsType ==
  ASSUME TypeOK, Begins
  PROVE  TypeOK'
<1>1. CASE NightlyDisabled
  <2>1. PICK r \in Runs \ spent :
          /\ rec' = [Blank("idle") EXCEPT !.run = r,
                                         !.outcome = "disabled_by_operator"]
          /\ spent' = spent \cup {r}
    BY <1>1 DEF NightlyDisabled
  <2>2. Blank("idle") \in Records
    BY BlankType, PhaseNames
  <2>3. rec' \in Records
    BY <2>1, <2>2, OutcomeNames DEF Records
  <2> QED
    BY <1>1, <2>1, <2>3 DEF NightlyDisabled, TypeOK, mail
<1>2. CASE NightlyStarts
  <2>1. SettledRecord \in Records /\ reg' \in Documents
    BY <1>2, SettledType DEF NightlyStarts, TypeOK
  <2>2. Take("nightly", "sense") \in Jobs
    BY TakeType, KindNames, PlaceNames
  <2>3. CASE SettledRecord.phase = "postponed"
    <3>1. job' \in Jobs
      BY <1>2, <2>2, <2>3 DEF NightlyStarts, TypeOK, Jobs, Records
    <3> QED
      BY <1>2, <2>1, <2>3, <3>1 DEF NightlyStarts, TypeOK, mail
  <2>4. CASE SettledRecord.phase # "postponed"
    <3>1. PICK r \in Runs \ spent :
            /\ rec' = [Blank("idle") EXCEPT !.run = r]
            /\ job' = [Take("nightly", "sense") EXCEPT !.run = r]
            /\ spent' = spent \cup {r}
      BY <1>2, <2>4 DEF NightlyStarts
    <3>2. rec' \in Records
      BY <3>1, BlankType, PhaseNames DEF Records
    <3>3. job' \in Jobs
      BY <3>1, <2>2 DEF Jobs
    <3> QED
      BY <1>2, <2>1, <3>1, <3>2, <3>3 DEF NightlyStarts, TypeOK, mail
  <2> QED
    BY <2>3, <2>4
<1>3. CASE AcquireStarts
  <2>1. rec' \in Records /\ reg' \in Documents
    BY <1>3, SettledType DEF AcquireStarts, TypeOK
  <2>2. PICK l \in Leases \ spent :
          /\ job' = [Take("acquire", "drain") EXCEPT !.lease = l]
          /\ spent' = spent \cup {l}
    BY <1>3 DEF AcquireStarts
  <2>3. Take("acquire", "drain") \in Jobs
    BY TakeType, KindNames, PlaceNames
  <2>4. job' \in Jobs
    BY <2>2, <2>3 DEF Jobs
  <2> QED
    BY <1>3, <2>1, <2>2, <2>4 DEF AcquireStarts, TypeOK, mail
<1>4. CASE RollbackStarts
  <2>1. job' \in Jobs
    BY <1>4, TakeType, PlaceNames, KindNames DEF RollbackStarts, TypeOK
  <2> QED
    BY <1>4, <2>1 DEF RollbackStarts, TypeOK, mail, world, edge
<1> QED
  BY <1>1, <1>2, <1>3, <1>4 DEF Begins

\* The nightly job.
LEMMA NightlyType ==
  ASSUME TypeOK, NightlyGoesOn
  PROVE  TypeOK'
<1>1. CASE NightlySenses
  <2>1. rec' \in Records
    BY <1>1, PhaseNames DEF NightlySenses, TypeOK, Records, Jobs
  <2>2. job' \in Jobs
    BY <1>1, GotoType, PlaceNames DEF NightlySenses, TypeOK
  <2> QED
    BY <1>1, <2>1, <2>2 DEF NightlySenses, TypeOK, mail, world, edge
<1>2. CASE NightlyPrepares
  <2>1. rec' \in Records
    BY <1>2, PhaseNames DEF NightlyPrepares, TypeOK, Records, Jobs
  <2>2. job' \in Jobs
    BY <1>2, GotoType, LeaveType, PlaceNames DEF NightlyPrepares, TypeOK
  <2> QED
    BY <1>2, <2>1, <2>2 DEF NightlyPrepares, TypeOK, mail, world, edge
<1>3. CASE NightlyEnters
  <2>1. job' \in Jobs
    BY <1>3, GotoType, PlaceNames DEF NightlyEnters, TypeOK
  <2> QED
    BY <1>3, <2>1 DEF NightlyEnters, TypeOK, mail, world, edge
<1>4. CASE NightlyDrains
  <2>1. job' \in Jobs
    BY <1>4, DrainType, PlaceNames DEF NightlyDrains, TypeOK
  <2> QED
    BY <1>4, <2>1 DEF NightlyDrains, TypeOK, mail, world, edge
<1>5. CASE NightlyStops
  <2>1. job' \in Jobs
    BY <1>5, ContainerType, PlaceNames DEF NightlyStops, TypeOK
  <2>2. vllm' \in {"stopped", "starting", "healthy"}
    BY <1>5 DEF NightlyStops, TypeOK, Container
  <2> QED
    BY <1>5, <2>1, <2>2 DEF NightlyStops, TypeOK, mail, world, edge
<1>6. CASE NightlyRequests
  <2>1. rec' \in Records
    BY <1>6, PhaseNames DEF NightlyRequests, TypeOK, Records, Jobs
  <2>2. job' \in Jobs
    BY <1>6, GotoType, PlaceNames DEF NightlyRequests, TypeOK
  <2> QED
    BY <1>6, <2>1, <2>2 DEF NightlyRequests, TypeOK, mail, world, edge
<1>7. CASE NightlyLaunches
  <2>1. rec' \in Records
    BY <1>7, PhaseNames DEF NightlyLaunches, TypeOK, Records, Jobs
  <2>2. job' \in Jobs
    BY <1>7, GotoType, PlaceNames DEF NightlyLaunches, TypeOK
  <2> QED
    BY <1>7, <2>1, <2>2
       DEF NightlyLaunches, TypeOK, mail, world, TrainerStarted, TrainerRunning
<1>8. CASE NightlyConfirms
  <2>1. rec' \in Records
    BY <1>8, PhaseNames DEF NightlyConfirms, TypeOK, Records, Jobs
  <2>2. job' \in Jobs
    BY <1>8, LeaveType, PlaceNames DEF NightlyConfirms, TypeOK
  <2> QED
    BY <1>8, <2>1, <2>2 DEF NightlyConfirms, TypeOK, mail, world, edge
<1> QED
  BY <1>1, <1>2, <1>3, <1>4, <1>5, <1>6, <1>7, <1>8 DEF NightlyGoesOn

\* The callbacks' operations.
LEMMA CallbackType ==
  ASSUME TypeOK, CallbackGoesOn
  PROVE  TypeOK'
<1>1. CASE CallbackStartsVllm
  <2>1. job' \in Jobs
    BY <1>1, ContainerType, PlaceNames DEF CallbackStartsVllm, TypeOK, Started
  <2>2. vllm' \in {"stopped", "starting", "healthy"}
    BY <1>1 DEF CallbackStartsVllm, TypeOK, Container, Started
  <2> QED
    BY <1>1, <2>1, <2>2 DEF CallbackStartsVllm, TypeOK, mail, world, edge
<1>2. CASE CallbackAwaitsVllm
  <2>1. job' \in Jobs
    BY <1>2, GotoType, AwaitType, PlaceNames DEF CallbackAwaitsVllm, TypeOK
  <2> QED
    BY <1>2, <2>1 DEF CallbackAwaitsVllm, TypeOK, mail, world, edge
<1>3. CASE CandidateChosen
  <2>1. PICK a \in job.todo :
          \/ /\ reg' = Registered(a)
             /\ rec' = [rec EXCEPT !.phase = "loading", !.cand = a]
             /\ job' = [job EXCEPT !.at = "evaluate", !.cand = a, !.todo = job.todo \ {a}]
          \/ /\ job' = [job EXCEPT !.at = "recover", !.cand = a, !.todo = job.todo \ {a}]
             /\ UNCHANGED <<rec, reg>>
    BY <1>3 DEF CandidateChosen
  <2>2. a \in Adapters
    BY <2>1 DEF TypeOK, Jobs
  <2>3. rec' \in Records
    BY <2>1, <2>2, PhaseNames DEF TypeOK, Records
  <2>4. reg' \in Documents
    BY <2>1, <2>2 DEF TypeOK, Registered, AddAdapter, Documents, AdapterStates
  <2>5. \A s \in Places :
          [job EXCEPT !.at = s, !.cand = a, !.todo = job.todo \ {a}] \in Jobs
    BY <2>2 DEF TypeOK, Jobs
  <2>6. job' \in Jobs
    BY <2>1, <2>5, PlaceNames
  <2> QED
    BY <1>3, <2>3, <2>4, <2>6 DEF CandidateChosen, TypeOK, mail, world, edge
<1>4. CASE CandidateLoads
  <2>1. rec' \in Records
    BY <1>4, PhaseNames DEF CandidateLoads, TypeOK, Records, Jobs
  <2>2. job' \in Jobs
    BY <1>4, GotoType, PlaceNames DEF CandidateLoads, TypeOK
  <2> QED
    BY <1>4, <2>1, <2>2 DEF CandidateLoads, TypeOK, mail, world, edge
<1>5. CASE CandidateEvaluates
  <2>1. rec' \in Records
    BY <1>5, PhaseNames DEF CandidateEvaluates, TypeOK, Records, Jobs
  <2>2. job' \in Jobs
    BY <1>5, GotoType, PlaceNames DEF CandidateEvaluates, TypeOK
  <2> QED
    BY <1>5, <2>1, <2>2 DEF CandidateEvaluates, TypeOK, mail, world, edge
<1>6. CASE CandidateRejected
  <2>1. reg' \in Documents
    BY <1>6, ConstantsOK
       DEF CandidateRejected, TypeOK, Documents, AdapterStates, Transition
  <2>2. AfterVerdict \in Places
    BY PlaceNames DEF AfterVerdict
  <2>3. job' \in Jobs
    BY <1>6, <2>2, OutcomeNames DEF CandidateRejected, TypeOK, Jobs
  <2> QED
    BY <1>6, <2>1, <2>3 DEF CandidateRejected, TypeOK, mail, world, edge
<1>7. CASE CandidatePromoted
  <2>1. reg' \in Documents
    BY <1>7, ConstantsOK
       DEF CandidatePromoted, TypeOK, Documents, AdapterStates, Jobs, Known,
         Promote
  <2>2. job' \in Jobs
    BY <1>7, GotoType, PlaceNames DEF CandidatePromoted, TypeOK
  <2> QED
    BY <1>7, <2>1, <2>2 DEF CandidatePromoted, TypeOK, mail, world, edge
<1>8. CASE CandidateRaises
  <2>1. job' \in Jobs
    BY <1>8, GotoType, PlaceNames DEF CandidateRaises, TypeOK
  <2> QED
    BY <1>8, <2>1 DEF CandidateRaises, TypeOK, mail, world, edge
<1>9. CASE ControllerRefreshes
  <2>1. job' \in Jobs
    BY <1>9, GotoType, PlaceNames, OutcomeNames
       DEF ControllerRefreshes, TypeOK, Jobs, AfterVerdict
  <2> QED
    BY <1>9, <2>1 DEF ControllerRefreshes, TypeOK, mail, world, edge
<1>10. CASE DoneFinishes
  <2>1. rec' \in Records
    BY <1>10, PhaseNames, OutcomeNames DEF DoneFinishes, TypeOK, Records, Jobs
  <2>2. job' \in Jobs
    BY <1>10, GotoType, PlaceNames, OutcomeNames DEF DoneFinishes, TypeOK
  <2> QED
    BY <1>10, <2>1, <2>2 DEF DoneFinishes, TypeOK, mail, world, edge
<1>11. CASE BatchFinishes
  <2>1. rec' \in Records
    BY <1>11, PhaseNames, OutcomeNames DEF BatchFinishes, TypeOK, Records, Jobs
  <2>2. job' \in Jobs
    BY <1>11, LeaveType, PlaceNames, OutcomeNames DEF BatchFinishes, TypeOK
  <2> QED
    BY <1>11, <2>1, <2>2 DEF BatchFinishes, TypeOK, mail, world, edge
<1>12. CASE SkipFinishes
  <2>1. rec' \in Records
    BY <1>12, PhaseNames, OutcomeNames DEF SkipFinishes, TypeOK, Records, Jobs
  <2>2. job' \in Jobs
    BY <1>12, LeaveType, PlaceNames, OutcomeNames DEF SkipFinishes, TypeOK
  <2> QED
    BY <1>12, <2>1, <2>2 DEF SkipFinishes, TypeOK, mail, world, edge
<1> QED
  BY <1>1, <1>2, <1>3, <1>4, <1>5, <1>6, <1>7, <1>8, <1>9, <1>10, <1>11, <1>12
     DEF CallbackGoesOn

\* The recovery.
LEMMA RecoveryType ==
  ASSUME TypeOK, RecoveryGoesOn
  PROVE  TypeOK'
<1>1. CASE Recovers
  <2>1. rec' \in Records
    BY <1>1, PhaseNames DEF Recovers, TypeOK, Records, Jobs
  <2>2. job' \in Jobs
    BY <1>1, GotoType, PlaceNames DEF Recovers, TypeOK
  <2> QED
    BY <1>1, <2>1, <2>2 DEF Recovers, TypeOK, mail, world, edge
<1>2. CASE RecoveryStartsVllm
  <2>1. reg' \in Documents
    BY <1>2, ConstantsOK
       DEF RecoveryStartsVllm, TypeOK, Documents, AdapterStates, Jobs, Known,
         TransitionAll
  <2>2. job' \in Jobs
    BY <1>2, ContainerType, PlaceNames DEF RecoveryStartsVllm, TypeOK, Started
  <2>3. vllm' \in {"stopped", "starting", "healthy"}
    BY <1>2 DEF RecoveryStartsVllm, TypeOK, Container, Started
  <2> QED
    BY <1>2, <2>1, <2>2, <2>3 DEF RecoveryStartsVllm, TypeOK, mail, world, edge
<1>3. CASE RecoveryAwaitsVllm
  <2>1. job' \in Jobs
    BY <1>3, AwaitType, PlaceNames DEF RecoveryAwaitsVllm, TypeOK
  <2> QED
    BY <1>3, <2>1 DEF RecoveryAwaitsVllm, TypeOK, mail, world, edge
<1>4. CASE RecoveryReopens
  <2>1. job' \in Jobs
    BY <1>4, GotoType, PlaceNames DEF RecoveryReopens, TypeOK
  <2> QED
    BY <1>4, <2>1 DEF RecoveryReopens, TypeOK, mail, world, edge
<1>5. CASE RecoveryRecords
  <2>1. rec' \in Records
    BY <1>5, PhaseNames, OutcomeNames
       DEF RecoveryRecords, TypeOK, Records, Jobs
  <2>2. job' \in Jobs
    BY <1>5, LeaveType, PlaceNames, OutcomeNames DEF RecoveryRecords, TypeOK
  <2> QED
    BY <1>5, <2>1, <2>2 DEF RecoveryRecords, TypeOK, mail, world, edge
<1> QED
  BY <1>1, <1>2, <1>3, <1>4, <1>5 DEF RecoveryGoesOn

\* Acquire and release of the lease.
LEMMA LeaseType ==
  ASSUME TypeOK, LeaseGoesOn
  PROVE  TypeOK'
<1>1. CASE AcquireDrains
  <2>1. job' \in Jobs
    BY <1>1, DrainType, PlaceNames DEF AcquireDrains, TypeOK
  <2> QED
    BY <1>1, <2>1 DEF AcquireDrains, TypeOK, mail, world, edge
<1>2. CASE AcquireStops
  <2>1. job' \in Jobs
    BY <1>2, ContainerType, PlaceNames DEF AcquireStops, TypeOK
  <2>2. vllm' \in {"stopped", "starting", "healthy"}
    BY <1>2 DEF AcquireStops, TypeOK, Container
  <2> QED
    BY <1>2, <2>1, <2>2 DEF AcquireStops, TypeOK, mail, world, edge
<1>3. CASE LeaseGranted
  <2>1. rec' \in Records
    <3>1. job.lease \in Leases \cup {None}
      BY DEF TypeOK, Jobs
    <3>2. Blank("image_edit") \in Records
      BY BlankType, PhaseNames
    <3> QED
      BY <1>3, <3>1, <3>2 DEF LeaseGranted, LeaseRecord, Records
  <2>2. job' \in Jobs
    BY <1>3, LeaveType DEF LeaseGranted
  <2>3. clients' \subseteq Leases \cup {None}
    BY <1>3 DEF LeaseGranted, TypeOK, Jobs
  <2> QED
    BY <1>3, <2>1, <2>2, <2>3 DEF LeaseGranted, TypeOK, mail
<1>4. CASE MemoryNeverFree
  <2>1. job' \in Jobs
    BY <1>4, GotoType, PlaceNames DEF MemoryNeverFree, TypeOK
  <2> QED
    BY <1>4, <2>1 DEF MemoryNeverFree, TypeOK, mail, world, edge
<1>5. CASE AcquireRestoresVllm
  <2>1. job' \in Jobs
    BY <1>5, ContainerType, PlaceNames DEF AcquireRestoresVllm, TypeOK, Started
  <2>2. vllm' \in {"stopped", "starting", "healthy"}
    BY <1>5 DEF AcquireRestoresVllm, TypeOK, Container, Started
  <2> QED
    BY <1>5, <2>1, <2>2 DEF AcquireRestoresVllm, TypeOK, mail, world, edge
<1>6. CASE AcquireAwaitsVllm
  <2>1. job' \in Jobs
    BY <1>6, AwaitType, PlaceNames DEF AcquireAwaitsVllm, TypeOK
  <2> QED
    BY <1>6, <2>1 DEF AcquireAwaitsVllm, TypeOK, mail, world, edge
<1>7. CASE AcquireReopens
  <2>1. job' \in Jobs
    BY <1>7, GotoType, PlaceNames DEF AcquireReopens, TypeOK
  <2> QED
    BY <1>7, <2>1 DEF AcquireReopens, TypeOK, mail, world, edge
<1>8. CASE AcquireFails
  <2>1. rec' \in Records
    BY <1>8, PhaseNames, OutcomeNames
       DEF AcquireFails, TypeOK, Records, Jobs, Blank
  <2>2. job' \in Jobs
    BY <1>8, LeaveType, PlaceNames, OutcomeNames DEF AcquireFails, TypeOK
  <2> QED
    BY <1>8, <2>1, <2>2 DEF AcquireFails, TypeOK, mail, world, edge
<1>9. CASE LeaseKeptForRetry
  <2>1. rec' \in Records
    BY <1>9, PhaseNames, OutcomeNames
       DEF LeaseKeptForRetry, TypeOK, Records, Jobs, LeaseRecord, Blank
  <2>2. job' \in Jobs
    BY <1>9, LeaveType, PlaceNames, OutcomeNames DEF LeaseKeptForRetry, TypeOK
  <2> QED
    BY <1>9, <2>1, <2>2 DEF LeaseKeptForRetry, TypeOK, mail, world, edge
<1>10. CASE ReleaseStartsVllm
  <2>1. job' \in Jobs
    BY <1>10, ContainerType, PlaceNames DEF ReleaseStartsVllm, TypeOK, Started
  <2>2. vllm' \in {"stopped", "starting", "healthy"}
    BY <1>10 DEF ReleaseStartsVllm, TypeOK, Container, Started
  <2> QED
    BY <1>10, <2>1, <2>2 DEF ReleaseStartsVllm, TypeOK, mail, world, edge
<1>11. CASE ReleaseAwaitsVllm
  <2>1. job' \in Jobs
    BY <1>11, AwaitType, PlaceNames DEF ReleaseAwaitsVllm, TypeOK
  <2> QED
    BY <1>11, <2>1 DEF ReleaseAwaitsVllm, TypeOK, mail, world, edge
<1>12. CASE ReleaseFinishes
  <2>1. rec' \in Records
    BY <1>12, PhaseNames, OutcomeNames
       DEF ReleaseFinishes, TypeOK, Records, Jobs, Blank
  <2>2. job' \in Jobs
    BY <1>12, LeaveType, PlaceNames, OutcomeNames DEF ReleaseFinishes, TypeOK
  <2> QED
    BY <1>12, <2>1, <2>2 DEF ReleaseFinishes, TypeOK, mail, world, edge
<1> QED
  BY <1>1, <1>2, <1>3, <1>4, <1>5, <1>6, <1>7, <1>8, <1>9, <1>10, <1>11, <1>12
     DEF LeaseGoesOn

\* The rollback.
LEMMA RollbackType ==
  ASSUME TypeOK, RollbackGoesOn
  PROVE  TypeOK'
<1>1. CASE RollbackDrains
  <2>1. job' \in Jobs
    BY <1>1, DrainType, PlaceNames DEF RollbackDrains, TypeOK
  <2> QED
    BY <1>1, <2>1 DEF RollbackDrains, TypeOK, mail, world, edge
<1>2. CASE RollbackSwaps
  <2>1. reg' \in Documents
    BY <1>2 DEF RollbackSwaps, TypeOK, Documents, Rollback
  <2>2. [current |-> reg.current, rollback |-> reg.rollback]
          \in [current : Adapters \cup {None}, rollback : Adapters \cup {None}]
    BY DEF TypeOK, Documents
  <2>3. job' \in Jobs
    BY <1>2, <2>2, LeaveType, PlaceNames DEF RollbackSwaps, TypeOK, Jobs
  <2> QED
    BY <1>2, <2>1, <2>3 DEF RollbackSwaps, TypeOK, mail, world, edge
<1>3. CASE RollbackVerifies
  <2>1. job' \in Jobs
    BY <1>3, GotoType, PlaceNames DEF RollbackVerifies, TypeOK
  <2> QED
    BY <1>3, <2>1 DEF RollbackVerifies, TypeOK, mail, world, edge
<1>4. CASE RollbackRestores
  <2>1. reg' \in Documents
    BY <1>4, ConstantsOK
       DEF RollbackRestores, TypeOK, Documents, AdapterStates, Jobs, Known
  <2>2. job' \in Jobs
    BY <1>4, GotoType, PlaceNames DEF RollbackRestores, TypeOK
  <2> QED
    BY <1>4, <2>1, <2>2 DEF RollbackRestores, TypeOK, mail, world, edge
<1> QED
  BY <1>1, <1>2, <1>3, <1>4 DEF RollbackGoesOn

\* Both reconcilers.
LEMMA ReconcilersType ==
  ASSUME TypeOK, Reconcilers
  PROVE  TypeOK'
<1>1. CASE LeaseReconcilerReads
  <2>1. look' \in Looks
    BY <1>1 DEF LeaseReconcilerReads, LeaseLookedAt, Looks, Records, TypeOK
  <2> QED
    BY <1>1, <2>1 DEF LeaseReconcilerReads, TypeOK, core, mail, world
<1>2. CASE LeaseReconcilerEnters
  <2> QED
    BY <1>2 DEF LeaseReconcilerEnters, TypeOK, mail, world, Looks
<1>3. CASE LeaseReconcilerActs
  <2>1. look' \in Looks /\ look.lease \in Leases \cup {None}
    BY <1>3 DEF LeaseReconcilerActs, LeaseForgotten, Looks, TypeOK
  <2>2. rec' \in Records /\ job' \in Jobs
    BY <1>3, <2>1, ReleaseType DEF LeaseReconcilerActs, TypeOK
  <2> QED
    BY <1>3, <2>1, <2>2 DEF LeaseReconcilerActs, TypeOK, mail, world
<1>4. CASE StalledReconcilerReads
  <2>1. look' \in Looks
    BY <1>4 DEF StalledReconcilerReads, Looks, Records, TypeOK
  <2> QED
    BY <1>4, <2>1 DEF StalledReconcilerReads, TypeOK, core, mail, world
<1>5. CASE StalledReconcilerActs
  <2>1. look' \in Looks /\ look.run \in Runs \cup {None}
    BY <1>5 DEF StalledReconcilerActs, Looks, TypeOK
  <2>2. Take("failure", "recover") \in Jobs
    BY TakeType, KindNames, PlaceNames
  <2>3. job' \in Jobs
    BY <1>5, <2>1, <2>2 DEF StalledReconcilerActs, TypeOK, Jobs
  <2> QED
    BY <1>5, <2>1, <2>3 DEF StalledReconcilerActs, TypeOK, mail, world
<1> QED
  BY <1>1, <1>2, <1>3, <1>4, <1>5 DEF Reconcilers

\* Crash, compose cycle and restart of the process.
LEMMA ProcessType ==
  ASSUME TypeOK, Process
  PROVE  TypeOK'
<1>1. CASE Crash
  <2>1. job' \in Jobs /\ maint' \in BOOLEAN /\ look' \in Looks
    BY <1>1, FreeJobType DEF Crash, ProcessGone, Unlooked, Looks
  <2> QED
    BY <1>1, <2>1, ConstantsOK DEF Crash, ProcessGone, TypeOK
<1>2. CASE ComposeCycle
  <2>1. job' \in Jobs /\ maint' \in BOOLEAN /\ look' \in Looks
    BY <1>2, FreeJobType DEF ComposeCycle, ProcessGone, Unlooked, Looks
  <2> QED
    BY <1>2, <2>1, ConstantsOK DEF ComposeCycle, ProcessGone, TypeOK
<1>3. CASE Restart
  <2>1. rec' \in Records /\ reg' \in Documents
    BY <1>3, SettledType DEF Restart, TypeOK
  <2>2. maint' \in BOOLEAN
    BY <1>3 DEF Restart
  <2>3. LeaseLookedAt(SettledRecord, TRUE) \in Looks
    BY SettledType DEF LeaseLookedAt, Looks, Records, TypeOK
  <2>4. look' \in Looks
    BY <1>3, <2>3 DEF Restart, TypeOK
  <2> QED
    BY <1>3, <2>1, <2>2, <2>4 DEF Restart, TypeOK, mail
<1>4. CASE Serves
  <2> QED
    BY <1>4 DEF Serves, TypeOK, core, mail
<1> QED
  BY <1>1, <1>2, <1>3, <1>4 DEF Process

\* The start of a callback's operation.
LEMMA BackgroundTaskType ==
  ASSUME TypeOK, BackgroundTask
  PROVE  TypeOK'
<1> SUFFICES ASSUME NEW m \in tasks,
                     \/ CallbackDropped(m) \/ FailureReported(m)
                     \/ SkipReported(m) \/ BatchReported(m) \/ DoneReported(m)
             PROVE  TypeOK'
  BY DEF BackgroundTask
<1>0. m \in Messages
  BY DEF TypeOK
<1>1. CASE CallbackDropped(m)
  BY <1>1 DEF CallbackDropped, TypeOK, core, world
<1>2. CASE FailureReported(m)
  <2>1. Take("failure", "recover") \in Jobs
    BY TakeType, KindNames, PlaceNames
  <2>2. job' \in Jobs
    <3>1. PICK a \in IF m.adapters = {} THEN {None} ELSE m.adapters :
            job' = [Take("failure", "recover") EXCEPT !.run = m.run, !.cand = a]
      BY <1>2 DEF FailureReported
    <3>2. a \in Adapters \cup {None} /\ m.run \in Runs \cup {None}
      BY <1>0, <3>1 DEF Messages
    <3> QED
      BY <2>1, <3>1, <3>2 DEF Jobs
  <2> QED
    BY <1>2, <2>2 DEF FailureReported, CallbackApplies, TypeOK, world
<1>3. CASE SkipReported(m)
  <2>1. Take("skipped", "start") \in Jobs
    BY TakeType, KindNames, PlaceNames
  <2>2. job' \in Jobs
    BY <1>3, <1>0, <2>1 DEF SkipReported, Messages, Jobs
  <2>3. rec' \in Records
    BY <1>3, <1>0, PhaseNames DEF SkipReported, Messages, TypeOK, Records
  <2> QED
    BY <1>3, <2>2, <2>3 DEF SkipReported, CallbackApplies, TypeOK, world
<1>4. CASE BatchReported(m)
  <2>1. Take("batch", "start") \in Jobs
    BY TakeType, KindNames, PlaceNames
  <2>2. job' \in Jobs
    BY <1>4, <1>0, <2>1 DEF BatchReported, Messages, Jobs
  <2>3. rec' \in Records
    BY <1>4, <1>0, PhaseNames DEF BatchReported, Messages, TypeOK, Records
  <2> QED
    BY <1>4, <2>2, <2>3 DEF BatchReported, CallbackApplies, TypeOK, world
<1>5. CASE DoneReported(m)
  <2>1. PICK a \in m.adapters :
          \/ /\ reg' = Registered(a)
             /\ rec' = [rec EXCEPT !.phase = "restarting", !.cand = a,
                                   !.requested = FALSE]
             /\ job' = [Take("done", "start") EXCEPT !.run = m.run, !.cand = a]
          \/ /\ job' = [Take("done", "recover") EXCEPT !.run = m.run, !.cand = a]
             /\ UNCHANGED <<rec, reg>>
    BY <1>5 DEF DoneReported
  <2>2. a \in Adapters /\ m.run \in Runs \cup {None}
    BY <1>0, <2>1 DEF Messages
  <2>3. Take("done", "start") \in Jobs /\ Take("done", "recover") \in Jobs
    BY TakeType, KindNames, PlaceNames
  <2>4. rec' \in Records
    BY <2>1, <2>2, PhaseNames DEF TypeOK, Records
  <2>5. reg' \in Documents
    BY <2>1, <2>2 DEF TypeOK, Registered, AddAdapter, Documents, AdapterStates
  <2>6. \A j \in Jobs : [j EXCEPT !.run = m.run, !.cand = a] \in Jobs
    BY <2>2 DEF Jobs
  <2>7. job' \in Jobs
    BY <2>1, <2>3, <2>6
  <2> QED
    BY <1>5, <2>4, <2>5, <2>7 DEF DoneReported, CallbackApplies, TypeOK, world
<1> QED
  BY <1>1, <1>2, <1>3, <1>4, <1>5

\* The trainer container.
LEMMA TrainerType ==
  ASSUME TypeOK, Trainer
  PROVE  TypeOK'
<1>1. CASE TrainerCreated
  BY <1>1 DEF TrainerCreated, TypeOK, core, mail, world
<1>2. CASE TrainerRemoved
  BY <1>2 DEF TrainerRemoved, TypeOK, core, mail, world
<1>3. CASE TrainerBoots
  <2>1. rec.run \in Runs \cup {None}
    BY DEF TypeOK, Records
  <2> QED
    BY <1>3, <2>1 DEF TrainerBoots, TypeOK, core, mail, world
<1>4. CASE TrainerDies
  BY <1>4 DEF TrainerDies, TypeOK, core, mail, world
<1>5. ASSUME NEW m \in Reports, TrainerReports(m)
      PROVE  TypeOK'
  <2>1. m \in Messages
    BY ReportsType
  <2>2. tasks' \subseteq Messages /\ posted' \subseteq Messages
    BY <1>5, <2>1, AcceptType DEF TrainerReports, TypeOK
  <2>3. spent' \subseteq Runs \cup Leases \cup Adapters
    BY <1>5, <2>1 DEF TrainerReports, TypeOK, Messages
  <2> QED
    BY <1>5, <2>2, <2>3 DEF TrainerReports, TypeOK, core
<1> QED
  BY <1>1, <1>2, <1>3, <1>4, <1>5 DEF Trainer

\* Requests, lease clients, repeated callbacks, the operator.
LEMMA ClientsType ==
  ASSUME TypeOK, Clients
  PROVE  TypeOK'
<1>1. ASSUME NEW q \in Requests, Admit(q) \/ Finish(q)
      PROVE  TypeOK'
  BY <1>1 DEF Admit, Finish, TypeOK, core, mail, world
<1>2. CASE LeaseExpires
  <2>1. rec' \in Records
    BY <1>2, PhaseNames DEF LeaseExpires, TypeOK, Records, Jobs
  <2> QED
    BY <1>2, <2>1 DEF LeaseExpires, TypeOK, mail, world, edge
<1>3. ASSUME NEW l \in Leases, ClientReleases(l)
      PROVE  TypeOK'
  <2>1. rec' \in Records /\ job' \in Jobs
    BY <1>3, ReleaseType DEF ClientReleases, TypeOK
  <2> QED
    BY <1>3, <2>1 DEF ClientReleases, TypeOK, mail
<1>4. ASSUME NEW m \in posted, CallbackRepeated(m)
      PROVE  TypeOK'
  <2>1. tasks' \subseteq Messages /\ posted' \subseteq Messages
    BY <1>4, AcceptType DEF CallbackRepeated, TypeOK
  <2> QED
    BY <1>4, <2>1 DEF CallbackRepeated, TypeOK, core, world
<1>5. CASE OperatorSwitches
  BY <1>5 DEF OperatorSwitches, TypeOK, mail, world, edge
<1> QED
  BY <1>1, <1>2, <1>3, <1>4, <1>5 DEF Clients

\* The initial states.
LEMMA InitType == Init => TypeOK
<1> SUFFICES ASSUME Init PROVE TypeOK
  OBVIOUS
<1>1. rec \in Records /\ job \in Jobs
  BY BlankType, PhaseNames, FreeJobType DEF Init
<1>2. PICK c \in Adapters \cup {None}, r \in Adapters \cup {None} :
        reg = SeedRegistry(c, r) /\ spent = {c, r} \cap Adapters
  BY DEF Init
<1>3. reg \in Documents
  BY <1>2 DEF SeedRegistry, Documents, AdapterStates
<1>4. look \in Looks
  BY DEF Init, Unlooked, Looks
<1>5. maint \in BOOLEAN /\ enabled \in BOOLEAN
  BY ConstantsOK DEF Init
<1>6. dream \in Dreams
  BY DEF Init, NoDream, Dreams
<1> QED
  BY <1>1, <1>2, <1>3, <1>4, <1>5, <1>6 DEF Init, TypeOK

\* Every step, from the groups above.
LEMMA NextType ==
  ASSUME TypeOK, [Next]_vars
  PROVE  TypeOK'
<1>1. CASE Reopens
  <2>1. job' \in Jobs
    BY <1>1, GotoType, LeaveType, PlaceNames DEF Reopens, TypeOK
  <2> QED
    BY <1>1, <2>1 DEF Reopens, TypeOK, mail, world, edge
<1>2. CASE LockHolder
  BY <1>1, <1>2, NightlyType, CallbackType, RecoveryType, LeaseType,
     RollbackType DEF LockHolder
<1>3. CASE VllmBecomesHealthy
  BY <1>3 DEF VllmBecomesHealthy, TypeOK, mail, world, edge
<1>4. CASE UNCHANGED vars
  BY <1>4 DEF TypeOK, vars, core, mail, world, edge
<1> QED
  BY <1>2, <1>3, <1>4, BeginsType, BackgroundTaskType, TrainerType,
     ClientsType, ReconcilersType, ProcessType DEF Next

\* No operation, callback, reconciler, crash or restart writes a record, a
\* registry document or a lock holder of any other shape: every phase is in
\* PHASES (lifecycle.py:68) and every status in ADAPTER_STATES (registry.py:16).
THEOREM TypeCorrect == Spec => []TypeOK
<1>1. TypeOK /\ [Next]_vars => TypeOK'
  BY NextType
<1> QED
  BY <1>1, InitType, PTL DEF Spec

=============================================================================
