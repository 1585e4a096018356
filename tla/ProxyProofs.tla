---------------------------- MODULE ProxyProofs ------------------------------
(***************************************************************************)
(* Safety of InferenceProxy for every finite set of requests, any quotas   *)
(* and any engine: the counters tell the truth, the engine is never over   *)
(* its limits, and the proxy implements MaintenanceGate.                   *)
(***************************************************************************)
EXTENDS InferenceProxy, FiniteSetTheorems, TLAPS

InsideStages == {"working", "streaming"}

\* The sets the counters count, after a request has moved.
LEMMA MovedSets ==
  ASSUME TypeOK, NEW r \in Requests, NEW s \in Stages, Moves(r, s)
  PROVE  /\ Inside' = IF s \in InsideStages THEN Inside \cup {r} ELSE Inside \ {r}
         /\ Waiting' = IF s = "waiting" THEN Waiting \cup {r} ELSE Waiting \ {r}
         /\ \A w : InsideOf(w)' =
              IF s \in InsideStages /\ WorkloadOf[r] = w
              THEN InsideOf(w) \cup {r} ELSE InsideOf(w) \ {r}
         /\ stage' \in [Requests -> Stages]
<1>1. \A q \in Requests : stage'[q] = IF q = r THEN s ELSE stage[q]
  BY DEF Moves, TypeOK
<1>2. Inside' = IF s \in InsideStages THEN Inside \cup {r} ELSE Inside \ {r}
  BY <1>1 DEF Inside, InsideStages
<1>3. Waiting' = IF s = "waiting" THEN Waiting \cup {r} ELSE Waiting \ {r}
  BY <1>1 DEF Waiting
<1>4. \A w : InsideOf(w)' =
         IF s \in InsideStages /\ WorkloadOf[r] = w
         THEN InsideOf(w) \cup {r} ELSE InsideOf(w) \ {r}
  BY <1>2 DEF InsideOf
<1>5. stage' \in [Requests -> Stages]
  BY DEF Moves, TypeOK
<1> QED
  BY <1>2, <1>3, <1>4, <1>5

\* All of them are finite.
LEMMA FiniteSides ==
  /\ IsFiniteSet(Inside) /\ IsFiniteSet(Waiting)
  /\ \A w : IsFiniteSet(InsideOf(w))
<1>1. Inside \subseteq Requests /\ Waiting \subseteq Requests
  BY DEF Inside, Waiting
<1>2. \A w : InsideOf(w) \subseteq Requests
  BY <1>1 DEF InsideOf
<1> QED
  BY <1>1, <1>2, ProxyConstantsOK, FS_Subset

\* A newcomer makes a set larger by one, a leaver smaller by one.
LEMMA OneMore ==
  ASSUME NEW S, IsFiniteSet(S), NEW x
  PROVE  /\ x \notin S => Cardinality(S \cup {x}) = Cardinality(S) + 1
         /\ x \in S => Cardinality(S \cup {x}) = Cardinality(S)
         /\ x \in S => Cardinality(S \ {x}) = Cardinality(S) - 1
         /\ x \notin S => Cardinality(S \ {x}) = Cardinality(S)
         /\ Cardinality(S) \in Nat
         /\ x \in S => Cardinality(S) > 0
<1>1. Cardinality(S) \in Nat
  BY FS_CardinalityType
<1>2. x \in S => Cardinality(S) # 0
  BY FS_EmptySet
<1>3. x \notin S => Cardinality(S \cup {x}) = Cardinality(S) + 1
  BY FS_AddElement
<1>4. x \in S => Cardinality(S \ {x}) = Cardinality(S) - 1
  BY FS_RemoveElement
<1>5. x \in S => Cardinality(S \cup {x}) = Cardinality(S)
  BY FS_AddElement
<1>6. x \notin S => Cardinality(S \ {x}) = Cardinality(S)
  BY FS_RemoveElement
<1> QED
  BY <1>1, <1>2, <1>3, <1>4, <1>5, <1>6

-----------------------------------------------------------------------------
(***************************************************************************)
(* The inductive invariant: the counters match, they respect the limits,   *)
(* and the gate is shut as long as somebody keeps it, with nobody inside   *)
(* once the drain has been reported.                                       *)
(***************************************************************************)
WithinLimits ==
  /\ active <= MaxActive /\ waiting <= MaxWaiting
  /\ \A w \in Workloads : byWorkload[w] <= WorkloadLimit[w]

KeptShut ==
  /\ enabled <=> keeper # "away"
  /\ keeper = "lent" => Inside = {}

ProxyInv == TypeOK /\ CountsMatch /\ WithinLimits /\ KeptShut

\* The counters of a request that comes in.
LEMMA CountsIn ==
  ASSUME TypeOK, CountsMatch, NEW r \in Requests, stage[r] \in {"out", "waiting"},
         Reserve(r), Moves(r, "working")
  PROVE  /\ active' = Cardinality(Inside') /\ active' \in Nat
         /\ Cardinality(Inside') = Cardinality(Inside) + 1
         /\ \A w \in Workloads : byWorkload'[w] = Cardinality(InsideOf(w)')
         /\ byWorkload' \in [Workloads -> Nat]
<1>1. r \notin Inside /\ WorkloadOf[r] \in Workloads
  BY ProxyConstantsOK DEF Inside
<1>2. Inside' = Inside \cup {r}
  BY MovedSets DEF Stages, InsideStages
<1>3. Cardinality(Inside') = Cardinality(Inside) + 1
  BY <1>1, <1>2, FiniteSides, OneMore
<1>4. ASSUME NEW w \in Workloads
      PROVE  byWorkload'[w] = Cardinality(InsideOf(w)')
  <2>1. InsideOf(w)' = IF WorkloadOf[r] = w THEN InsideOf(w) \cup {r}
                                            ELSE InsideOf(w) \ {r}
    BY MovedSets DEF Stages, InsideStages
  <2>2. r \notin InsideOf(w) /\ IsFiniteSet(InsideOf(w))
    BY <1>1, FiniteSides DEF InsideOf
  <2>3. Cardinality(InsideOf(w)') =
          IF WorkloadOf[r] = w THEN Cardinality(InsideOf(w)) + 1
                               ELSE Cardinality(InsideOf(w))
    BY <2>1, <2>2, OneMore
  <2> QED
    BY <2>3, <1>1 DEF Reserve, TypeOK, CountsMatch
<1>5. active' \in Nat /\ byWorkload' \in [Workloads -> Nat]
  BY <1>1 DEF Reserve, TypeOK
<1> QED
  BY <1>3, <1>4, <1>5 DEF Reserve, CountsMatch

\* The counters of a request that leaves.
LEMMA CountsOut ==
  ASSUME TypeOK, CountsMatch, NEW r \in Requests, stage[r] \in InsideStages,
         Release(r), Moves(r, "out")
  PROVE  /\ active' = Cardinality(Inside') /\ active' \in Nat
         /\ active' <= active
         /\ Cardinality(Inside') = Cardinality(Inside) - 1
         /\ Cardinality(Inside') \in Nat
         /\ \A w \in Workloads : /\ byWorkload'[w] = Cardinality(InsideOf(w)')
                                 /\ byWorkload'[w] <= byWorkload[w]
         /\ byWorkload' \in [Workloads -> Nat]
<1>1. r \in Inside /\ WorkloadOf[r] \in Workloads
  BY ProxyConstantsOK DEF Inside, InsideStages
<1>2. Inside' = Inside \ {r}
  BY MovedSets DEF Stages, InsideStages
<1>3. Cardinality(Inside') = Cardinality(Inside) - 1 /\ Cardinality(Inside) > 0
      /\ Cardinality(Inside) \in Nat
  BY <1>1, <1>2, FiniteSides, OneMore
<1>4. ASSUME NEW w \in Workloads
      PROVE  byWorkload'[w] = Cardinality(InsideOf(w)')
             /\ byWorkload'[w] <= byWorkload[w]
  <2>1. InsideOf(w)' = InsideOf(w) \ {r}
    BY MovedSets DEF Stages, InsideStages
  <2>2. (r \in InsideOf(w) <=> WorkloadOf[r] = w) /\ IsFiniteSet(InsideOf(w))
    BY <1>1, FiniteSides DEF InsideOf
  <2>3. Cardinality(InsideOf(w)') =
          IF WorkloadOf[r] = w THEN Cardinality(InsideOf(w)) - 1
                               ELSE Cardinality(InsideOf(w))
    <3>1. CASE WorkloadOf[r] = w
      BY <2>1, <2>2, <3>1, OneMore
    <3>2. CASE WorkloadOf[r] # w
      BY <2>1, <2>2, <3>2, OneMore
    <3> QED
      BY <3>1, <3>2
  <2>4. WorkloadOf[r] = w => Cardinality(InsideOf(w)) > 0
    BY <2>2, OneMore
  <2>5. byWorkload[w] = Cardinality(InsideOf(w)) /\ byWorkload[w] \in Nat
    BY DEF CountsMatch, TypeOK
  <2>6. byWorkload'[w] = IF WorkloadOf[r] = w THEN LessOne(byWorkload[w])
                                              ELSE byWorkload[w]
    BY <1>1 DEF Release, TypeOK
  <2> QED
    BY <2>3, <2>4, <2>5, <2>6 DEF LessOne
<1>5. byWorkload' \in [Workloads -> Nat]
  BY <1>1 DEF Release, TypeOK, LessOne
<1>6. active' = active - 1 /\ active > 0 /\ active \in Nat
  BY <1>3 DEF Release, LessOne, CountsMatch, TypeOK
<1> QED
  BY <1>3, <1>4, <1>5, <1>6 DEF CountsMatch

\* A request comes in, straight or from the queue.
LEMMA EntersKeeps ==
  ASSUME ProxyInv, NEW r \in Requests, Arrives(r) \/ Polls(r)
  PROVE  ProxyInv'
<1> USE DEF ProxyInv
<1>1. Reserve(r) /\ Moves(r, "working") /\ ~enabled /\ count' = count + 1
      /\ UNCHANGED <<enabled, keeper>> /\ HasCapacity(WorkloadOf[r])
  BY DEF Arrives, Polls, Enters
<1>2. stage[r] \in {"out", "waiting"}
  BY DEF Arrives, Polls
<1>3. WorkloadOf[r] \in Workloads
  BY ProxyConstantsOK
<1>4. waiting' = Cardinality(Waiting') /\ waiting' \in Nat /\ waiting' <= MaxWaiting
  <2>1. Waiting' = Waiting \ {r}
    BY <1>1, MovedSets DEF Stages
  <2>2. CASE Arrives(r)
    <3>1. r \notin Waiting /\ UNCHANGED waiting
      BY <2>2 DEF Arrives, Waiting
    <3> QED
      BY <2>1, <3>1, FiniteSides, OneMore DEF CountsMatch, WithinLimits, TypeOK
  <2>3. CASE Polls(r)
    <3>1. r \in Waiting /\ waiting' = waiting - 1
      BY <2>3 DEF Polls, Waiting, Unqueued
    <3>2. Cardinality(Waiting) > 0 /\ Cardinality(Waiting') = Cardinality(Waiting) - 1
      BY <2>1, <3>1, FiniteSides, OneMore
    <3> QED
      BY <3>1, <3>2, ProxyConstantsOK DEF CountsMatch, WithinLimits, TypeOK
  <2> QED
    BY <2>2, <2>3
<1>5. active' <= MaxActive /\ \A w \in Workloads : byWorkload'[w] <= WorkloadLimit[w]
  <2>1. active' <= MaxActive
    BY <1>1, ProxyConstantsOK DEF Reserve, HasCapacity, TypeOK
  <2>2. ASSUME NEW w \in Workloads
        PROVE  byWorkload'[w] <= WorkloadLimit[w]
    <3>1. byWorkload[w] \in Nat /\ WorkloadLimit[w] \in Nat
      BY ProxyConstantsOK DEF TypeOK
    <3>2. byWorkload'[w] = IF w = WorkloadOf[r] THEN byWorkload[w] + 1
                                                ELSE byWorkload[w]
      BY <1>1, <1>3 DEF Reserve, TypeOK
    <3>3. w = WorkloadOf[r] => byWorkload[w] < WorkloadLimit[w]
      BY <1>1 DEF HasCapacity
    <3> QED
      BY <3>1, <3>2, <3>3 DEF WithinLimits
  <2> QED
    BY <2>1, <2>2
<1>6. /\ active' = Cardinality(Inside') /\ active' \in Nat
      /\ Cardinality(Inside') = Cardinality(Inside) + 1
      /\ \A w \in Workloads : byWorkload'[w] = Cardinality(InsideOf(w)')
      /\ byWorkload' \in [Workloads -> Nat]
  BY <1>1, <1>2, CountsIn
<1>7. stage' \in [Requests -> Stages]
  BY <1>1, MovedSets DEF Stages
<1>8. count' = Cardinality(Inside') /\ count' \in Nat
  BY <1>1, <1>6 DEF CountsMatch, TypeOK
<1>9. TypeOK'
  BY <1>1, <1>4, <1>6, <1>7, <1>8 DEF TypeOK
<1>10. CountsMatch'
  BY <1>4, <1>6, <1>8 DEF CountsMatch
<1>11. WithinLimits'
  BY <1>4, <1>5 DEF WithinLimits
<1>12. KeptShut'
  BY <1>1 DEF KeptShut
<1> QED
  BY <1>9, <1>10, <1>11, <1>12

\* A request joins the queue or gives it up.
LEMMA QueueKeeps ==
  ASSUME ProxyInv, NEW r \in Requests, Queues(r) \/ WaitEnds(r)
  PROVE  ProxyInv'
<1> USE DEF ProxyInv
<1>1. UNCHANGED <<active, byWorkload, gate>> /\ r \notin Inside
  BY DEF Queues, WaitEnds, Inside
<1>2. Inside' = Inside /\ (\A w : InsideOf(w)' = InsideOf(w))
      /\ stage' \in [Requests -> Stages]
  BY <1>1, MovedSets DEF Queues, WaitEnds, Stages, InsideStages, InsideOf
<1>3. waiting' = Cardinality(Waiting') /\ waiting' \in Nat /\ waiting' <= MaxWaiting
  <2>1. CASE Queues(r)
    <3>1. Waiting' = Waiting \cup {r} /\ r \notin Waiting
      BY <2>1, MovedSets DEF Queues, Stages, Waiting
    <3>2. Cardinality(Waiting') = Cardinality(Waiting) + 1
      BY <3>1, FiniteSides, OneMore
    <3> QED
      BY <2>1, <3>2, ProxyConstantsOK DEF Queues, CountsMatch, TypeOK
  <2>2. CASE WaitEnds(r)
    <3>1. Waiting' = Waiting \ {r} /\ r \in Waiting
      BY <2>2, MovedSets DEF WaitEnds, Stages, Waiting
    <3>2. Cardinality(Waiting') = Cardinality(Waiting) - 1 /\ Cardinality(Waiting) > 0
      BY <3>1, FiniteSides, OneMore
    <3> QED
      BY <2>2, <3>2, ProxyConstantsOK
         DEF WaitEnds, Unqueued, CountsMatch, WithinLimits, TypeOK
  <2> QED
    BY <2>1, <2>2
<1>4. TypeOK' /\ WithinLimits'
  BY <1>1, <1>2, <1>3 DEF TypeOK, WithinLimits, gate
<1>5. CountsMatch' /\ KeptShut'
  BY <1>1, <1>2, <1>3 DEF CountsMatch, KeptShut, gate
<1> QED
  BY <1>4, <1>5

\* A request leaves: its answer is sent or its stream is over.
LEMMA LeavesKeeps ==
  ASSUME ProxyInv, NEW r \in Requests, Answers(r) \/ StreamEnds(r)
  PROVE  ProxyInv'
<1> USE DEF ProxyInv
<1>1. /\ stage[r] \in InsideStages
      /\ Release(r) /\ Moves(r, "out") /\ count' = count - 1
      /\ UNCHANGED <<waiting, enabled, keeper>>
  BY DEF Answers, StreamEnds, Leaves, InsideStages
<1>2. /\ active' = Cardinality(Inside') /\ active' \in Nat
      /\ active' <= active
      /\ Cardinality(Inside') = Cardinality(Inside) - 1
      /\ Cardinality(Inside') \in Nat
      /\ \A w \in Workloads : /\ byWorkload'[w] = Cardinality(InsideOf(w)')
                              /\ byWorkload'[w] <= byWorkload[w]
      /\ byWorkload' \in [Workloads -> Nat]
  BY <1>1, CountsOut
<1>3. Inside' \subseteq Inside /\ Waiting' = Waiting
      /\ stage' \in [Requests -> Stages]
  BY <1>1, MovedSets DEF Stages, InsideStages, Waiting
<1>4. count' = Cardinality(Inside') /\ count' \in Nat
  BY <1>1, <1>2 DEF CountsMatch, TypeOK
<1>5. TypeOK'
  BY <1>1, <1>2, <1>3, <1>4 DEF TypeOK
<1>6. CountsMatch'
  BY <1>1, <1>2, <1>3, <1>4 DEF CountsMatch
<1>7. WithinLimits'
  BY <1>1, <1>2, ProxyConstantsOK DEF WithinLimits, TypeOK
<1>8. KeptShut'
  BY <1>1, <1>3 DEF KeptShut
<1> QED
  BY <1>5, <1>6, <1>7, <1>8

\* A request whose stream begins stays inside.
LEMMA StreamKeeps ==
  ASSUME ProxyInv, NEW r \in Requests, StreamBegins(r)
  PROVE  ProxyInv' /\ Inside' = Inside
<1> USE DEF ProxyInv
<1>1. r \in Inside /\ r \notin Waiting
  BY DEF StreamBegins, Inside, Waiting
<1>2. Inside' = Inside /\ Waiting' = Waiting /\ stage' \in [Requests -> Stages]
  BY <1>1, MovedSets DEF StreamBegins, Stages, InsideStages
<1>3. \A w : InsideOf(w)' = InsideOf(w)
  BY <1>2 DEF InsideOf
<1> QED
  BY <1>2, <1>3 DEF StreamBegins, admission, gate, TypeOK, CountsMatch,
     WithinLimits, KeptShut

\* The lifecycle thread touches no counter; it reports a drain only when the
\* count, and so the set, is empty.
LEMMA KeeperKeeps ==
  ASSUME ProxyInv, KeeperShuts \/ KeeperDrains \/ KeeperOpens
  PROVE  ProxyInv' /\ Inside' = Inside
<1> USE DEF ProxyInv
<1>1. UNCHANGED <<stage, admission, count>>
  BY DEF KeeperShuts, KeeperDrains, KeeperOpens
<1>2. Inside' = Inside /\ Waiting' = Waiting /\ \A w : InsideOf(w)' = InsideOf(w)
  BY <1>1 DEF Inside, Waiting, InsideOf
<1>3. KeeperDrains => Inside = {}
  BY FiniteSides, FS_EmptySet DEF KeeperDrains, CountsMatch
<1> QED
  BY <1>1, <1>2, <1>3 DEF KeeperShuts, KeeperDrains, KeeperOpens, admission,
     TypeOK, CountsMatch, WithinLimits, KeptShut

\* The invariant is inductive.
LEMMA ProxyInductive == Spec => []ProxyInv
<1>1. Init => ProxyInv
  <2> SUFFICES ASSUME Init PROVE ProxyInv
    OBVIOUS
  <2>1. Inside = {} /\ Waiting = {} /\ \A w : InsideOf(w) = {}
    BY DEF Init, Inside, Waiting, InsideOf
  <2>2. Cardinality({}) = 0
    BY FS_EmptySet
  <2>3. TypeOK
    BY DEF Init, TypeOK, Stages
  <2>4. CountsMatch
    BY <2>1, <2>2 DEF Init, CountsMatch
  <2>5. WithinLimits
    <3>1. \A w \in Workloads : WorkloadLimit[w] \in Nat
      BY ProxyConstantsOK
    <3> QED
      BY <3>1, ProxyConstantsOK DEF Init, WithinLimits
  <2> QED
    BY <2>1, <2>3, <2>4, <2>5 DEF Init, ProxyInv, KeptShut
<1>2. ProxyInv /\ [Next]_proxyVars => ProxyInv'
  <2> SUFFICES ASSUME ProxyInv, [Next]_proxyVars PROVE ProxyInv'
    OBVIOUS
  <2>1. CASE UNCHANGED proxyVars
    <3>1. Inside' = Inside /\ Waiting' = Waiting /\ \A w : InsideOf(w)' = InsideOf(w)
      BY <2>1 DEF proxyVars, Inside, Waiting, InsideOf
    <3> QED
      BY <2>1, <3>1 DEF proxyVars, admission, gate, ProxyInv, TypeOK,
         CountsMatch, WithinLimits, KeptShut
  <2> QED
    BY <2>1, EntersKeeps, QueueKeeps, LeavesKeeps, StreamKeeps, KeeperKeeps
       DEF Next, Request
<1> QED
  BY <1>1, <1>2, PTL DEF Spec

-----------------------------------------------------------------------------
\* Stages, counters and the keeper of the gate keep the shapes the code gives
\* them (admission.py:37-55, runtime.py:19-24).
THEOREM ProxyTypeCorrect == Spec => []TypeOK
<1>1. ProxyInv => TypeOK
  BY DEF ProxyInv
<1> QED
  BY <1>1, ProxyInductive, PTL

\* Every way out of the proxy gives back what the way in took, exactly once,
\* for any number of requests and workloads (proxy.py:193-223).
THEOREM CountsTheorem == Spec => []CountsMatch
<1>1. ProxyInv => CountsMatch
  BY DEF ProxyInv
<1> QED
  BY <1>1, ProxyInductive, PTL

\* The engine never has more requests than it may, in total and of each
\* workload, and the queue is bounded (admission.py:56-122).
THEOREM BoundTheorem == Spec => []EngineBounded
<1>1. ProxyInv => EngineBounded
  BY DEF ProxyInv, CountsMatch, WithinLimits, EngineBounded
<1> QED
  BY <1>1, ProxyInductive, PTL

\* What MaintenanceState promises its keepers holds with admission, queue and
\* streams in between: the proxy implements MaintenanceGate.
THEOREM GateTheorem == Spec => GateHolds
<1>1. Init => Gate!Init
  BY DEF Init, Gate!Init, Inside
<1>2. ProxyInv /\ [Next]_proxyVars => [Gate!Next]_(Gate!gateVars)
  <2> SUFFICES ASSUME ProxyInv, [Next]_proxyVars
               PROVE  [Gate!Next]_(Gate!gateVars)
    OBVIOUS
  <2> USE DEF Gate!Next, Gate!gateVars
  <2>1. ASSUME NEW r \in Requests, Arrives(r) \/ Polls(r)
        PROVE  Gate!Admit(r)
    <3>1. Inside' = Inside \cup {r} /\ r \notin Inside
      BY <2>1, MovedSets DEF Arrives, Polls, Enters, ProxyInv, Stages,
         InsideStages, Inside
    <3> QED
      BY <2>1, <3>1 DEF Gate!Admit, Arrives, Polls, Enters
  <2>2. ASSUME NEW r \in Requests, Answers(r) \/ StreamEnds(r)
        PROVE  Gate!Finish(r)
    <3>1. Inside' = Inside \ {r} /\ r \in Inside
      BY <2>2, MovedSets DEF Answers, StreamEnds, Leaves, ProxyInv, Stages,
         InsideStages, Inside
    <3> QED
      BY <2>2, <3>1 DEF Gate!Finish, Answers, StreamEnds, Leaves
  <2>3. ASSUME NEW r \in Requests, Queues(r) \/ WaitEnds(r)
        PROVE  UNCHANGED Gate!gateVars
    <3>1. Inside' = Inside \ {r} /\ r \notin Inside
      BY <2>3, MovedSets DEF Queues, WaitEnds, ProxyInv, Stages, InsideStages,
         Inside
    <3> QED
      BY <2>3, <3>1 DEF Queues, WaitEnds, gate
  <2>4. ASSUME NEW r \in Requests, StreamBegins(r)
        PROVE  UNCHANGED Gate!gateVars
    BY <2>4, StreamKeeps DEF StreamBegins, gate
  <2>5. CASE KeeperShuts
    BY <2>5, KeeperKeeps DEF KeeperShuts, ProxyInv, KeptShut, Gate!Shut
  <2>6. CASE KeeperDrains
    BY <2>6, KeeperKeeps, FiniteSides, FS_EmptySet
       DEF KeeperDrains, ProxyInv, KeptShut, CountsMatch, Gate!Drained
  <2>7. CASE KeeperOpens
    BY <2>7, KeeperKeeps DEF KeeperOpens, ProxyInv, KeptShut, Gate!Open
  <2>8. CASE UNCHANGED proxyVars
    BY <2>8 DEF proxyVars, gate, Inside
  <2> QED
    BY <2>1, <2>2, <2>3, <2>4, <2>5, <2>6, <2>7, <2>8 DEF Next, Request
<1> QED
  BY <1>1, <1>2, ProxyInductive, PTL DEF Spec, GateHolds, Gate!Spec
=============================================================================
