----------------------------- MODULE CacheProofs -----------------------------
(***************************************************************************)
(* Safety of the adapter cache (AdapterCache), for any adapters, routes,   *)
(* requests and limit.                                                     *)
(***************************************************************************)
EXTENDS AdapterCache, FiniteSetTheorems, TLAPS

LifeRecords ==
  [step : LifeSteps, why : Reasons, candidate : Adapters \cup {None},
   other : Adapters \cup {None}, upstream : SUBSET Adapters, todo : SUBSET Adapters]

LoaderRecords ==
  [step : LoaderSteps, want : Adapters \cup {None}, victim : Adapters \cup {None}]

UseRecords == [route : RouteIds \cup {None}, adapter : Adapters \cup {None}]

Stages == {"out", "waiting", "loading", "ready", "sent"}

LEMMA RestRecords ==
  /\ Away \in LifeRecords
  /\ Idle \in LoaderRecords
  /\ NoRoute \in UseRecords
BY DEF Away, Idle, NoRoute, LifeRecords, LoaderRecords, UseRecords, LifeSteps,
       Reasons, LoaderSteps

LEMMA StepNames ==
  /\ {"away", "draining", "stopped", "listing", "listed", "next", "current",
      "candidate", "judging", "probing", "prior"} \subseteq LifeSteps
  /\ {"none", "lease", "training", "rollback", "refresh", "promoted",
      "recovery", "running"} \subseteq Reasons
  /\ {"idle", "looking", "evicting", "unloading", "dropping", "popping",
      "loading", "noting"} \subseteq LoaderSteps
BY DEF LifeSteps, Reasons, LoaderSteps

LEMMA DocumentsStay ==
  ASSUME registry \in Documents, NEW a \in Adapters
  PROVE  /\ AddAdapter(registry, a) \in Documents
         /\ \A s \in AdapterStates : Transition(registry, a, s) \in Documents
         /\ Promote(registry, a) \in Documents
         /\ Rollback(registry) \in Documents
         /\ \A b, c \in Adapters \cup {None} :
              [registry EXCEPT !.current = b, !.rollback = c] \in Documents
<1>1. {"candidate", "approved"} \subseteq AdapterStates
  BY DEF AdapterStates
<1>2. Promote(registry, a) \in Documents
  BY <1>1 DEF Promote, Documents
<1> QED
  BY <1>1, <1>2 DEF Documents, AddAdapter, Transition, Rollback

\* A thread in ensure_loaded goes on, or leaves it.
LEMMA LoaderPut ==
  ASSUME loader \in [Threads -> LoaderRecords], NEW t \in Threads,
         NEW r \in LoaderRecords, loader' = [loader EXCEPT ![t] = r]
  PROVE  /\ loader' \in [Threads -> LoaderRecords]
         /\ loader'[t] = r
         /\ \A u \in Threads \ {t} : loader'[u] = loader[u]
OBVIOUS

LEMMA LoaderGoesPut ==
  ASSUME loader \in [Threads -> LoaderRecords], NEW t \in Threads,
         NEW s \in LoaderSteps, LoaderGoes(t, s)
  PROVE  /\ loader' \in [Threads -> LoaderRecords]
         /\ loader'[t].step = s /\ loader'[t].want = loader[t].want
         /\ loader'[t].victim = loader[t].victim
         /\ \A u \in Threads \ {t} : loader'[u] = loader[u]
BY DEF LoaderGoes, LoaderRecords

CacheTypes ==
  /\ registry \in Documents
  /\ pins \in [RouteIds -> Adapters \cup {None, "gone"}]
  /\ engine \subseteq Adapters
  /\ cached \subseteq Adapters
  /\ loader \in [Threads -> LoaderRecords]
  /\ stage \in [Requests -> Stages]
  /\ using \in [Requests -> UseRecords]
  /\ shut \in BOOLEAN
  /\ behind \subseteq Mishaps
  /\ condemned \subseteq Adapters
  /\ life \in LifeRecords

LEMMA TypesAre == TypeOK <=> CacheTypes
BY DEF TypeOK, CacheTypes, LifeRecords, LoaderRecords, UseRecords, Stages

-----------------------------------------------------------------------------
(***************************************************************************)
(* The lifecycle operation's record after each of its steps.               *)
(***************************************************************************)
LifeIs(s, w, c, o, T) ==
  /\ life' \in LifeRecords
  /\ life'.step = s /\ life'.why = w /\ life'.candidate = c
  /\ life'.other = o /\ life'.todo = T

\* The same operation, at another step.
LifeAt(s) == LifeIs(s, life.why, life.candidate, life.other, life.todo)

LEMMA LifeFields ==
  ASSUME CacheTypes
  PROVE  /\ life \in LifeRecords
         /\ life.step \in LifeSteps /\ life.why \in Reasons
         /\ life.candidate \in Adapters \cup {None}
         /\ life.other \in Adapters \cup {None}
         /\ life.upstream \subseteq Adapters /\ life.todo \subseteq Adapters
         /\ registry.current \in Adapters \cup {None}
         /\ registry.rollback \in Adapters \cup {None}
         /\ registry.status \in [Adapters -> AdapterStates \cup {"absent"}]
BY DEF CacheTypes, LifeRecords, Documents

LEMMA ReturnsShape ==
  ASSUME Returns
  PROVE  LifeIs("away", "none", None, None, {}) /\ shut' = FALSE
BY RestRecords DEF Returns, Away, LifeIs

LEMMA AwayShape ==
  ASSUME life' = Away
  PROVE  LifeIs("away", "none", None, None, {})
BY RestRecords DEF Away, LifeIs

LEMMA LifeGoesShape ==
  ASSUME CacheTypes, NEW s \in LifeSteps, LifeGoes(s)
  PROVE  LifeAt(s)
BY LifeFields DEF LifeGoes, LifeAt, LifeIs, LifeRecords

LEMMA ChoosesShape ==
  ASSUME CacheTypes, life' = Chooses
  PROVE  LifeIs("next", "training", None, life.other, life.todo)
BY LifeFields, StepNames DEF Chooses, LifeIs, LifeRecords

LEMMA RecoversShape ==
  ASSUME CacheTypes, NEW why \in Reasons, Recovers(why)
  PROVE  /\ registry' \in Documents
         /\ registry'.current = registry.current
         /\ registry'.rollback = registry.rollback
         /\ condemned \subseteq condemned' /\ condemned' \subseteq Adapters
         /\ \A a \in Adapters :
              \/ registry'.status[a] = registry.status[a]
              \/ /\ registry'.status[a] = "failed" /\ a = life.candidate
                 /\ registry.status[a] = "approved" => a \in condemned'
         /\ LifeIs("listing", why, None, None, {})
         /\ shut' = shut
<1>1. LifeIs("listing", why, None, None, {})
  <2> DEFINE n == [Away EXCEPT !.step = "listing", !.why = why]
  <2>1. life' = n
    BY DEF Recovers
  <2>2. n \in LifeRecords
    BY StepNames DEF Away, LifeRecords
  <2>3. n.step = "listing" /\ n.why = why /\ n.candidate = None /\ n.other = None
        /\ n.todo = {}
    BY DEF Away
  <2> QED
    BY <2>1, <2>2, <2>3 DEF LifeIs
<1>2. shut' = shut
  BY DEF Recovers
<1>3. condemned \subseteq condemned' /\ condemned' \subseteq Adapters
  BY LifeFields DEF Recovers, CacheTypes
<1>4. CASE life.candidate = None
  BY <1>1, <1>2, <1>3, <1>4 DEF Recovers, CacheTypes
<1>5. CASE life.candidate # None
  <2>1. life.candidate \in Adapters
    BY <1>5, LifeFields
  <2>2. registry' = [registry EXCEPT !.status[life.candidate] = "failed"]
    BY <1>5 DEF Recovers, Transition
  <2>3. /\ registry'.current = registry.current
        /\ registry'.rollback = registry.rollback
        /\ registry'.status = [registry.status EXCEPT ![life.candidate] = "failed"]
    BY <2>2 DEF CacheTypes, Documents
  <2>4. registry' \in Documents
    BY <2>1, DocumentsStay DEF CacheTypes, Recovers, AdapterStates
  <2>5. \A a \in Adapters : a # life.candidate => registry'.status[a] = registry.status[a]
    BY <2>3, LifeFields
  <2>6. registry'.status[life.candidate] = "failed"
    BY <2>1, <2>3, LifeFields
  <2>7. registry.status[life.candidate] = "approved" => life.candidate \in condemned'
    BY <1>5 DEF Recovers
  <2> QED
    BY <1>1, <1>2, <1>3, <2>3, <2>4, <2>5, <2>6, <2>7
<1> QED
  BY <1>4, <1>5

LEMMA RestoresShape ==
  ASSUME CacheTypes, RestoresAliases
  PROVE  /\ registry' \in Documents
         /\ registry'.status = registry.status
         /\ registry'.current = life.other /\ registry'.rollback = registry.current
         /\ condemned' = condemned
         /\ \/ /\ LifeIs("away", "none", None, None, {}) /\ shut' = FALSE
            \/ /\ LifeAt("prior") /\ shut' = shut
               /\ life.other \in Adapters
<1>1. /\ registry' \in Documents
      /\ registry'.status = registry.status
      /\ registry'.current = life.other /\ registry'.rollback = registry.current
  <2>1. registry' = [registry EXCEPT !.current = life.other,
                                     !.rollback = registry.current]
    BY DEF RestoresAliases
  <2> QED
    BY <2>1, LifeFields DEF CacheTypes, Documents
<1>2. CASE life.other = None
  BY <1>1, <1>2, ReturnsShape DEF RestoresAliases
<1>3. CASE life.other # None
  BY <1>1, <1>3, LifeFields, LifeGoesShape, StepNames DEF RestoresAliases
<1> QED
  BY <1>2, <1>3

LEMMA ShutsShape ==
  ASSUME CacheTypes, NEW why \in {"lease", "training", "rollback"}, Shuts(why)
  PROVE  /\ life.step = "away"
         /\ LifeIs("draining", why, None, None, {}) /\ shut' = TRUE
         /\ UNCHANGED <<registry, engine, cached, loader, behind, condemned>>
<1> DEFINE n == [Away EXCEPT !.step = "draining", !.why = why]
<1>1. life' = n
  BY DEF Shuts
<1>2. n \in LifeRecords
  BY StepNames DEF Away, LifeRecords
<1>3. n.step = "draining" /\ n.why = why /\ n.candidate = None /\ n.other = None
      /\ n.todo = {}
  BY DEF Away
<1> QED
  BY <1>1, <1>2, <1>3 DEF Shuts, LifeIs, controllerVars

LEMMA StopsShape ==
  ASSUME CacheTypes, Stops
  PROVE  /\ life.step = "draining" /\ life.why # "rollback" /\ Inside = {}
         /\ UNCHANGED <<cached, loader>>
         /\ \/ engine' = {} /\ behind' = behind \cup {life.why}
            \/ UNCHANGED <<engine, behind>>
         /\ \/ /\ LifeAt("stopped") /\ engine' = {} /\ behind' = behind \cup {life.why}
               /\ UNCHANGED <<registry, shut, condemned>>
            \/ life.why = "training" /\ Recovers("running")
            \/ /\ life.why # "training"
               /\ LifeIs("away", "none", None, None, {}) /\ shut' = FALSE
               /\ UNCHANGED <<registry, condemned>>
<1>1. CASE StopsVllm /\ LifeGoes("stopped") /\ UNCHANGED <<registry, shut, condemned>>
  BY <1>1, LifeGoesShape, StepNames DEF Stops, StopsVllm
<1>2. CASE /\ StopsVllm \/ UNCHANGED <<engine, behind>>
           /\ IF life.why = "training" THEN Recovers("running")
              ELSE Returns /\ UNCHANGED <<registry, condemned>>
  BY <1>2, ReturnsShape DEF Stops, StopsVllm
<1> QED
  BY <1>1, <1>2 DEF Stops

LEMMA RollsBackShape ==
  ASSUME CacheTypes, RollsBack
  PROVE  /\ life.step = "draining" /\ life.why = "rollback" /\ Inside = {}
         /\ UNCHANGED <<engine, cached, loader, shut, behind, condemned>>
         /\ \/ /\ LifeIs("current", "rollback", life.candidate, registry.current, life.todo)
               /\ registry' \in Documents
               /\ registry'.status = registry.status
               /\ registry.rollback \in Adapters
               /\ registry'.current = registry.rollback
               /\ registry'.rollback = registry.current
            \/ LifeIs("away", "none", None, None, {}) /\ registry' = registry
<1>0. /\ life.step = "draining" /\ life.why = "rollback" /\ Inside = {}
      /\ UNCHANGED <<engine, cached, loader, shut, behind, condemned>>
  BY DEF RollsBack, controllerVars
<1>1. CASE MayRollback(registry)
  <2>1. life' = [life EXCEPT !.step = "current", !.other = registry.current]
    BY <1>1 DEF RollsBack
  <2>2. LifeIs("current", "rollback", life.candidate, registry.current, life.todo)
    BY <1>0, <2>1, LifeFields, StepNames DEF LifeIs, LifeRecords
  <2>3. registry.rollback \in Adapters
    BY <1>1, LifeFields DEF MayRollback
  <2>4. registry' = [registry EXCEPT !.current = registry.rollback,
                                     !.rollback = registry.current]
    BY <1>1 DEF RollsBack, Rollback
  <2> QED
    BY <1>0, <2>2, <2>3, <2>4 DEF CacheTypes, Documents
<1>2. CASE ~MayRollback(registry)
  BY <1>0, <1>2, AwayShape DEF RollsBack
<1> QED
  BY <1>1, <1>2

LEMMA DrainTimesOutShape ==
  ASSUME CacheTypes, DrainTimesOut
  PROVE  /\ life.step = "draining"
         /\ UNCHANGED <<engine, cached, loader>>
         /\ \/ life.why = "training" /\ Recovers("running")
                 /\ behind' = behind \cup {"undrained"}
            \/ LifeIs("away", "none", None, None, {}) /\ shut' = FALSE
                 /\ UNCHANGED <<registry, behind, condemned>>
BY ReturnsShape DEF DrainTimesOut, controllerVars

LEMMA LeaseEndsShape ==
  ASSUME CacheTypes, LeaseEnds
  PROVE  /\ life.step = "stopped"
         /\ LifeIs("away", "none", None, None, {}) /\ shut' = FALSE
         /\ UNCHANGED <<registry, engine, cached, loader, behind, condemned>>
BY ReturnsShape DEF LeaseEnds, controllerVars

LEMMA TrainerReportsShape ==
  ASSUME CacheTypes, TrainerReports
  PROVE  /\ life.step = "stopped" /\ life.why = "training"
         /\ UNCHANGED <<engine, cached, loader, shut, behind, condemned>>
         /\ \/ \E a \in Adapters \ Known(registry) :
                 /\ registry' = AddAdapter(registry, a)
                 /\ LifeIs("listing", "training", a, life.other, life.todo)
            \/ \E A \in SUBSET (Adapters \ Known(registry)) :
                 /\ registry' = registry
                 /\ LifeIs("listing", "training", life.candidate, life.other, A)
            \/ /\ registry' = registry
               /\ LifeIs("listing", "refresh", life.candidate, life.other, life.todo)
<1>0. /\ life.step = "stopped" /\ life.why = "training"
      /\ UNCHANGED <<engine, cached, loader, shut, behind, condemned>>
  BY DEF TrainerReports, controllerVars
<1>1. ASSUME NEW a \in Adapters \ Known(registry), registry' = AddAdapter(registry, a),
             life' = [life EXCEPT !.step = "listing", !.candidate = a]
      PROVE  LifeIs("listing", "training", a, life.other, life.todo)
  BY <1>0, <1>1, LifeFields, StepNames DEF LifeIs, LifeRecords
<1>2. ASSUME NEW A \in SUBSET (Adapters \ Known(registry)),
             life' = [life EXCEPT !.step = "listing", !.todo = A]
      PROVE  LifeIs("listing", "training", life.candidate, life.other, A)
  BY <1>0, <1>2, LifeFields, StepNames DEF LifeIs, LifeRecords
<1>3. ASSUME life' = [life EXCEPT !.step = "listing", !.why = "refresh"]
      PROVE  LifeIs("listing", "refresh", life.candidate, life.other, life.todo)
  BY <1>0, <1>3, LifeFields, StepNames DEF LifeIs, LifeRecords
<1>4. CASE \E a \in Adapters \ Known(registry) :
             /\ registry' = AddAdapter(registry, a)
             /\ life' = [life EXCEPT !.step = "listing", !.candidate = a]
  BY <1>0, <1>1, <1>4
<1>5. CASE \E A \in SUBSET (Adapters \ Known(registry)) \ {{}} :
             /\ life' = [life EXCEPT !.step = "listing", !.todo = A]
             /\ UNCHANGED registry
  BY <1>0, <1>2, <1>5
<1>6. CASE /\ life' = [life EXCEPT !.step = "listing", !.why = "refresh"]
           /\ UNCHANGED registry
  BY <1>0, <1>3, <1>6
<1> QED
  BY <1>4, <1>5, <1>6 DEF TrainerReports

LEMMA ListsShape ==
  ASSUME CacheTypes, Lists
  PROVE  /\ life.step = "listing" /\ LifeAt("listed") /\ life'.upstream = engine
         /\ UNCHANGED <<registry, engine, cached, loader, shut, behind, condemned>>
BY LifeFields, StepNames DEF CacheTypes, Lists, LifeAt, LifeIs, LifeRecords, controllerVars

LEMMA ListsInVainShape ==
  ASSUME CacheTypes, ListsInVain
  PROVE  /\ life.step = "listing"
         /\ UNCHANGED <<engine, cached, loader, behind>>
         /\ \/ LifeIs("away", "none", None, None, {}) /\ shut' = FALSE
                 /\ UNCHANGED <<registry, condemned>>
            \/ life.why \notin {"recovery", "running"} /\ Recovers("recovery")
BY ReturnsShape DEF ListsInVain, controllerVars

LEMMA LoadsCurrentShape ==
  ASSUME CacheTypes, NEW r \in LifeRecords, life' = [r EXCEPT !.step = "current"]
  PROVE  LifeIs("current", r.why, r.candidate, r.other, r.todo)
BY StepNames DEF LifeIs, LifeRecords

LEMMA EvaluatesShape ==
  ASSUME CacheTypes, NEW r \in LifeRecords, registry.current \in Adapters \cup {None},
         Evaluates(r)
  PROVE  /\ shut' = shut
         /\ \/ LifeIs("candidate", r.why, r.candidate, r.other, r.todo)
            \/ /\ LifeIs("current", r.why, r.candidate, r.other, r.todo)
               /\ registry.current \in Adapters
<1>1. life' = [r EXCEPT !.step = "candidate"] =>
        LifeIs("candidate", r.why, r.candidate, r.other, r.todo)
  BY StepNames DEF LifeIs, LifeRecords
<1> QED
  BY <1>1, LoadsCurrentShape DEF Evaluates, LoadsCurrent

LEMMA OverwritesShape ==
  ASSUME CacheTypes, Overwrites
  PROVE  /\ life.step = "listed"
         /\ UNCHANGED <<registry, engine, loader, condemned>>
         /\ cached' = life.upstream \cap Known(registry)
         /\ behind' = IF life.why = "running" THEN behind ELSE {}
         /\ \/ LifeIs("away", "none", None, None, {}) /\ shut' = FALSE
            \/ /\ life.why = "training" /\ life.candidate # None
               /\ LifeAt("candidate") /\ shut' = shut
            \/ /\ life.why = "training" => life.candidate # None
               /\ life.why \notin {"refresh", "promoted"}
               /\ registry.current \in Adapters
               /\ LifeAt("current") /\ shut' = shut
            \/ /\ life.why \in {"training", "promoted"}
               /\ LifeIs("next", "training", None, life.other, life.todo)
               /\ shut' = shut
<1> DEFINE this == [life EXCEPT !.upstream = {}]
<1>0. /\ life.step = "listed"
      /\ UNCHANGED <<registry, engine, loader, condemned>>
      /\ cached' = life.upstream \cap Known(registry)
      /\ behind' = IF life.why = "running" THEN behind ELSE {}
  BY DEF Overwrites, Rebuilt
<1>1. /\ this \in LifeRecords /\ this.why = life.why
      /\ this.candidate = life.candidate /\ this.other = life.other
      /\ this.todo = life.todo
  BY LifeFields DEF LifeRecords
<1>2. CASE life.why = "refresh"
  BY <1>0, <1>2, ReturnsShape DEF Overwrites
<1>3. CASE life.why = "training" /\ life.candidate # None
  <2>1. /\ shut' = shut
        /\ \/ life' = [this EXCEPT !.step = "candidate"]
           \/ registry.current # None /\ life' = [this EXCEPT !.step = "current"]
    BY <1>3 DEF Overwrites, Evaluates, LoadsCurrent
  <2> HIDE DEF this
  <2>2. \/ LifeAt("candidate")
        \/ LifeAt("current") /\ registry.current \in Adapters
    BY <1>1, <2>1, StepNames, LifeFields DEF LifeAt, LifeIs, LifeRecords
  <2> QED
    BY <1>0, <1>3, <2>1, <2>2
<1>4. CASE \/ life.why = "promoted"
           \/ life.why = "training" /\ life.candidate = None
  <2>1. life' = Chooses /\ shut' = shut
    BY <1>4 DEF Overwrites
  <2> QED
    BY <1>0, <1>4, <2>1, ChoosesShape
<1>5. CASE life.why \notin {"refresh", "training", "promoted"}
  <2>1. LoadsCurrent(this, Returns)
    BY <1>5 DEF Overwrites
  <2> HIDE DEF this
  <2>2. CASE registry.current = None
    BY <1>0, <2>1, <2>2, ReturnsShape DEF LoadsCurrent
  <2>3. CASE registry.current # None
    BY <1>0, <1>1, <1>5, <2>1, <2>3, LoadsCurrentShape, LifeFields
       DEF LoadsCurrent, LifeAt
  <2> QED
    BY <2>2, <2>3
<1> QED
  BY <1>2, <1>3, <1>4, <1>5

LEMMA RegistersShape ==
  ASSUME CacheTypes, Registers
  PROVE  /\ life.step = "next"
         /\ UNCHANGED <<engine, cached, loader, shut, behind, condemned>>
         /\ \E a \in life.todo :
              /\ registry' = AddAdapter(registry, a)
              /\ \/ LifeIs("candidate", life.why, a, life.other, life.todo \ {a})
                 \/ /\ LifeIs("current", life.why, a, life.other, life.todo \ {a})
                    /\ registry.current \in Adapters
<1>1. PICK a \in life.todo :
        /\ registry' = AddAdapter(registry, a)
        /\ Evaluates([life EXCEPT !.candidate = a, !.todo = @ \ {a}])
  BY DEF Registers
<1> DEFINE this == [life EXCEPT !.candidate = a, !.todo = @ \ {a}]
<1>2. /\ this \in LifeRecords /\ this.why = life.why
      /\ this.candidate = a /\ this.other = life.other
      /\ this.todo = life.todo \ {a}
  BY <1>1, LifeFields DEF LifeRecords
<1>3. Evaluates(this)
  BY <1>1
<1> HIDE DEF this
<1>4. /\ shut' = shut
      /\ \/ LifeIs("candidate", life.why, a, life.other, life.todo \ {a})
         \/ /\ LifeIs("current", life.why, a, life.other, life.todo \ {a})
            /\ registry.current \in Adapters
  BY <1>2, <1>3, EvaluatesShape, LifeFields
<1>5. /\ life.step = "next"
      /\ UNCHANGED <<engine, cached, loader, behind, condemned>>
  BY DEF Registers, controllerVars
<1> QED
  BY <1>1, <1>4, <1>5

LEMMA CompletesShape ==
  ASSUME CacheTypes, Completes
  PROVE  /\ life.step = "next"
         /\ LifeIs("away", "none", None, None, {}) /\ shut' = FALSE
         /\ UNCHANGED <<registry, engine, cached, loader, behind, condemned>>
BY ReturnsShape DEF Completes, controllerVars

\* Whatever fails after the drain, with vLLM stopped or not, is recovered from.
LEMMA FailsShape ==
  ASSUME CacheTypes, TrainerFails \/ RegistersNot \/ EvaluationRaises
  PROVE  /\ Recovers("recovery")
         /\ UNCHANGED <<engine, cached, loader, behind>>
         /\ \/ life.step = "stopped" /\ life.why = "training"
            \/ life.step \in {"next", "judging"}
BY DEF TrainerFails, RegistersNot, EvaluationRaises, controllerVars

LEMMA PromotesShape ==
  ASSUME CacheTypes, Promotes
  PROVE  /\ life.step = "judging"
         /\ registry' = Promote(registry, life.candidate)
         /\ LifeIs("listing", "promoted", life.candidate, life.other, life.todo)
         /\ UNCHANGED <<engine, cached, loader, shut, behind, condemned>>
BY LifeFields, StepNames DEF Promotes, LifeIs, LifeRecords, controllerVars

LEMMA RejectsShape ==
  ASSUME CacheTypes, Rejects
  PROVE  /\ life.step = "judging"
         /\ registry' = Transition(registry, life.candidate, "rejected")
         /\ LifeIs("next", "training", None, life.other, life.todo)
         /\ UNCHANGED <<engine, cached, loader, shut, behind, condemned>>
BY ChoosesShape DEF Rejects, controllerVars

LEMMA ProbesShape ==
  ASSUME CacheTypes, Probes
  PROVE  /\ life.step = "probing"
         /\ UNCHANGED <<engine, cached, loader, behind>>
         /\ \/ LifeIs("away", "none", None, None, {}) /\ shut' = FALSE
                 /\ UNCHANGED <<registry, condemned>>
            \/ RestoresAliases
BY ReturnsShape DEF Probes, controllerVars

LEMMA LifeRest ==
  ASSUME LifeNext
  PROVE  UNCHANGED <<pins, stage, using>>
BY DEF LifeNext, Shuts, Stops, RollsBack, DrainTimesOut, LeaseEnds, TrainerReports,
       TrainerFails, Lists, ListsInVain, Overwrites, Registers, RegistersNot,
       Completes, Asks, Promotes, Rejects, EvaluationRaises, Probes, requestVars

-----------------------------------------------------------------------------
(***************************************************************************)
(* Where the loaders leave the request and the lifecycle operation.        *)
(***************************************************************************)
LEMMA LoopShape ==
  ASSUME CacheTypes, NEW ok \in BOOLEAN, LoopContinues(ok)
  PROVE  /\ stage' \in [Requests -> Stages]
         /\ using' \in [Requests -> UseRecords]
         /\ UNCHANGED <<registry, shut, life, condemned>>
         /\ \A r \in Requests :
              /\ stage[r] # "loading" => stage'[r] = stage[r] /\ using'[r] = using[r]
              /\ stage[r] = "loading" /\ ok => stage'[r] = "ready" /\ using'[r] = using[r]
              /\ stage[r] = "loading" /\ ~ok => stage'[r] = "out" /\ using'[r] = NoRoute
BY RestRecords DEF CacheTypes, LoopContinues, Stages

\* The operation recovers, goes on, takes the aliases back, or ends.
LEMMA LifeShape ==
  ASSUME CacheTypes, NEW ok \in BOOLEAN, LifeContinues(ok)
  PROVE  /\ UNCHANGED <<stage, using>>
         /\ \/ life.why = "training" /\ ~ok /\ Recovers("recovery")
            \/ /\ UNCHANGED <<registry, shut, condemned>>
               /\ ok
               /\ \/ life.why = "training" /\ life.step = "current" /\ LifeAt("candidate")
                  \/ life.why = "training" /\ life.step # "current" /\ LifeAt("judging")
                  \/ life.why = "rollback" /\ LifeAt("probing")
            \/ life.why = "rollback" /\ RestoresAliases
            \/ /\ UNCHANGED <<registry, condemned>>
               /\ LifeIs("away", "none", None, None, {}) /\ shut' = FALSE
<1>0. UNCHANGED <<stage, using>>
  BY DEF LifeContinues, requestVars
<1>1. CASE life.why = "training" /\ ok
  BY <1>0, <1>1, LifeGoesShape, StepNames DEF LifeContinues
<1>2. CASE life.why = "training" /\ ~ok
  BY <1>0, <1>2 DEF LifeContinues
<1>3. CASE life.why = "rollback" /\ life.step = "current" /\ ok
  BY <1>0, <1>3, LifeGoesShape, StepNames DEF LifeContinues
<1>4. CASE life.why = "rollback" /\ life.step = "current" /\ ~ok
  BY <1>0, <1>4 DEF LifeContinues
<1>5. CASE /\ life.why # "training"
           /\ ~(life.why = "rollback" /\ life.step = "current")
  <2>1. Returns /\ UNCHANGED <<registry, condemned>>
    BY <1>5 DEF LifeContinues
  <2> QED
    BY <1>0, <2>1, ReturnsShape
<1> QED
  BY <1>1, <1>2, <1>3, <1>4, <1>5

\* A step of a thread in ensure_loaded that does not end the call.
GoesOn(t, s) ==
  /\ UNCHANGED <<registry, stage, using, shut, life, condemned>>
  /\ loader' \in [Threads -> LoaderRecords]
  /\ \A u \in Threads \ {t} : loader'[u] = loader[u]
  /\ loader[t].step # "idle"
  /\ loader'[t].step = s /\ loader'[t].want = loader[t].want

\* One that does.
Ends(t, ok) ==
  /\ loader[t].step # "idle"
  /\ loader' \in [Threads -> LoaderRecords]
  /\ loader'[t].step = "idle"
  /\ \A u \in Threads \ {t} : loader'[u] = loader[u]
  /\ \/ t = "loop" /\ LoopContinues(ok)
     \/ t = "lifecycle" /\ LifeContinues(ok)

LEMMA EndsShape ==
  ASSUME CacheTypes, NEW t \in Threads, NEW ok \in BOOLEAN, Finishes(t, ok),
         loader[t].step # "idle"
  PROVE  Ends(t, ok)
<1>1. loader' = [loader EXCEPT ![t] = Idle]
  BY DEF Finishes
<1>2. /\ loader' \in [Threads -> LoaderRecords]
      /\ loader'[t] = Idle
      /\ \A u \in Threads \ {t} : loader'[u] = loader[u]
  BY <1>1, RestRecords, LoaderPut DEF CacheTypes
<1>3. \/ t = "loop" /\ LoopContinues(ok)
      \/ t = "lifecycle" /\ LifeContinues(ok)
  BY DEF Finishes, Threads
<1> QED
  BY <1>2, <1>3 DEF Ends, Idle

LEMMA GoesOnShape ==
  ASSUME CacheTypes, NEW t \in Threads, NEW s \in LoaderSteps, LoaderGoes(t, s),
         UNCHANGED callerVars, loader[t].step # "idle"
  PROVE  GoesOn(t, s) /\ loader'[t].victim = loader[t].victim
BY LoaderGoesPut DEF CacheTypes, GoesOn, callerVars, requestVars

\* A thread's step, and what it leaves alone.
Moves(t) ==
  \/ Looks(t)
  \/ Evicts(t)
  \/ Unloads(t)
  \/ Drops(t)
  \/ Pops(t)
  \/ Loads(t)
  \/ Notes(t)

LEMMA LooksShape ==
  ASSUME CacheTypes, NEW t \in Threads, Looks(t)
  PROVE  /\ loader[t].step = "looking"
         /\ UNCHANGED <<pins, engine, cached, behind>>
         /\ \/ loader[t].want \in cached /\ Ends(t, TRUE)
            \/ Ends(t, FALSE)
            \/ /\ GoesOn(t, "evicting") /\ loader'[t].victim = loader[t].victim
               /\ Loadable(registry, loader[t].want)
               /\ loader[t].want \notin cached
BY EndsShape, GoesOnShape, StepNames DEF Looks

LEMMA EvictsShape ==
  ASSUME CacheTypes, NEW t \in Threads, Evicts(t)
  PROVE  /\ loader[t].step = "evicting"
         /\ UNCHANGED <<pins, engine, cached, behind>>
         /\ \/ Ends(t, FALSE)
            \/ /\ GoesOn(t, "loading") /\ loader'[t].victim = loader[t].victim
               /\ HasRoom \/ loader[t].want \in cached
            \/ /\ GoesOn(t, "unloading") /\ loader'[t].victim \in cached
<1>1. ASSUME NEW v \in cached,
             loader' = [loader EXCEPT ![t].step = "unloading", ![t].victim = v],
             UNCHANGED callerVars, loader[t].step # "idle"
      PROVE  GoesOn(t, "unloading") /\ loader'[t].victim = v
  <2> DEFINE r == [loader[t] EXCEPT !.step = "unloading", !.victim = v]
  <2>1. loader' = [loader EXCEPT ![t] = r]
    BY <1>1 DEF CacheTypes, LoaderRecords
  <2>2. r \in LoaderRecords /\ r.step = "unloading" /\ r.want = loader[t].want
        /\ r.victim = v
    BY StepNames DEF CacheTypes, LoaderRecords
  <2> HIDE DEF r
  <2>3. /\ loader' \in [Threads -> LoaderRecords] /\ loader'[t] = r
        /\ \A u \in Threads \ {t} : loader'[u] = loader[u]
    BY <2>1, <2>2, LoaderPut DEF CacheTypes
  <2> QED
    BY <1>1, <2>2, <2>3 DEF GoesOn, callerVars, requestVars
<1>2. /\ loader[t].step = "evicting"
      /\ UNCHANGED <<pins, engine, cached, behind>>
  BY DEF Evicts
<1>3. CASE /\ HasRoom \/ loader[t].want \in cached
           /\ LoaderGoes(t, "loading") /\ UNCHANGED callerVars
  BY <1>2, <1>3, GoesOnShape, StepNames
<1>4. CASE \E v \in cached \ Pinned :
             /\ loader' = [loader EXCEPT ![t].step = "unloading", ![t].victim = v]
             /\ UNCHANGED callerVars
  BY <1>1, <1>2, <1>4
<1>5. CASE Finishes(t, FALSE)
  BY <1>2, <1>5, EndsShape
<1> QED
  BY <1>3, <1>4, <1>5 DEF Evicts

LEMMA UnloadsShape ==
  ASSUME CacheTypes, NEW t \in Threads, Unloads(t)
  PROVE  /\ loader[t].step = "unloading"
         /\ UNCHANGED <<pins, engine, cached, behind>>
         /\ \/ Ends(t, FALSE)
            \/ /\ GoesOn(t, "dropping") /\ loader'[t].victim = loader[t].victim
               /\ loader[t].victim \notin Pinned
BY EndsShape, GoesOnShape, StepNames DEF Unloads

LEMMA DropsShape ==
  ASSUME CacheTypes, NEW t \in Threads, Drops(t)
  PROVE  /\ loader[t].step = "dropping"
         /\ UNCHANGED <<pins, cached>>
         /\ \/ /\ engine' = engine \ {loader[t].victim} /\ behind' = behind
               /\ GoesOn(t, "popping") /\ loader'[t].victim = loader[t].victim
            \/ /\ engine' = engine \ {loader[t].victim}
               /\ behind' = behind \cup {"dropped"}
               /\ Ends(t, FALSE)
            \/ engine' = engine /\ behind' = behind /\ Ends(t, FALSE)
BY EndsShape, GoesOnShape, StepNames DEF Drops

LEMMA PopsShape ==
  ASSUME CacheTypes, NEW t \in Threads, Pops(t)
  PROVE  /\ loader[t].step = "popping"
         /\ UNCHANGED <<pins, engine, behind>>
         /\ cached' = cached \ {loader[t].victim}
         /\ GoesOn(t, "loading") /\ loader'[t].victim = None
<1> DEFINE r == [loader[t] EXCEPT !.step = "loading", !.victim = None]
<1>1. loader' = [loader EXCEPT ![t] = r]
  BY DEF Pops, CacheTypes, LoaderRecords
<1>2. /\ r \in LoaderRecords /\ r.step = "loading" /\ r.want = loader[t].want
      /\ r.victim = None
  BY StepNames DEF CacheTypes, LoaderRecords
<1> HIDE DEF r
<1>3. /\ loader' \in [Threads -> LoaderRecords] /\ loader'[t] = r
      /\ \A u \in Threads \ {t} : loader'[u] = loader[u]
  BY <1>1, <1>2, LoaderPut DEF CacheTypes
<1> QED
  BY <1>2, <1>3 DEF Pops, GoesOn, lifeVars, requestVars

LEMMA LoadsShape ==
  ASSUME CacheTypes, NEW t \in Threads, Loads(t)
  PROVE  /\ loader[t].step = "loading"
         /\ UNCHANGED <<pins, cached>>
         /\ \/ /\ engine' = engine \cup {loader[t].want} /\ behind' = behind
               /\ GoesOn(t, "noting") /\ loader'[t].victim = loader[t].victim
            \/ /\ engine' = engine \cup {loader[t].want}
               /\ behind' = behind \cup {"loaded"}
               /\ Ends(t, FALSE)
            \/ engine' = engine /\ behind' = behind /\ Ends(t, FALSE)
BY EndsShape, GoesOnShape, StepNames DEF Loads

LEMMA NotesShape ==
  ASSUME CacheTypes, NEW t \in Threads, Notes(t)
  PROVE  /\ loader[t].step = "noting"
         /\ UNCHANGED <<pins, engine, behind>>
         /\ cached' = cached \cup {loader[t].want}
         /\ Ends(t, TRUE)
BY EndsShape DEF Notes

\* Whatever the step: the call goes on, or it ends.
LEMMA MovesShape ==
  ASSUME CacheTypes, NEW t \in Threads, Moves(t)
  PROVE  /\ pins' = pins
         /\ behind \subseteq behind'
         /\ behind' \subseteq behind \cup {"dropped", "loaded"}
         /\ loader[t].step # "idle"
         /\ loader' \in [Threads -> LoaderRecords]
         /\ \A u \in Threads \ {t} : loader'[u] = loader[u]
         /\ \/ \E s \in LoaderSteps \ {"idle", "looking"} : GoesOn(t, s)
            \/ \E ok \in BOOLEAN : Ends(t, ok)
<1>0. {"evicting", "unloading", "dropping", "popping", "loading", "noting"}
        \subseteq LoaderSteps \ {"idle", "looking"}
  BY DEF LoaderSteps
<1>1. CASE Looks(t)
  BY <1>0, <1>1, LooksShape DEF GoesOn, Ends
<1>2. CASE Evicts(t)
  BY <1>0, <1>2, EvictsShape DEF GoesOn, Ends
<1>3. CASE Unloads(t)
  BY <1>0, <1>3, UnloadsShape DEF GoesOn, Ends
<1>4. CASE Drops(t)
  <2>1. /\ pins' = pins /\ loader[t].step # "idle"
        /\ behind \subseteq behind' /\ behind' \subseteq behind \cup {"dropped", "loaded"}
        /\ \/ \E s \in LoaderSteps \ {"idle", "looking"} : GoesOn(t, s)
           \/ Ends(t, FALSE)
    BY <1>0, <1>4, DropsShape
  <2> QED
    BY <2>1 DEF GoesOn, Ends
<1>5. CASE Pops(t)
  BY <1>0, <1>5, PopsShape DEF GoesOn, Ends
<1>6. CASE Loads(t)
  <2>1. /\ pins' = pins /\ loader[t].step # "idle"
        /\ behind \subseteq behind' /\ behind' \subseteq behind \cup {"dropped", "loaded"}
        /\ \/ \E s \in LoaderSteps \ {"idle", "looking"} : GoesOn(t, s)
           \/ Ends(t, FALSE)
    BY <1>0, <1>6, LoadsShape
  <2> QED
    BY <2>1 DEF GoesOn, Ends
<1>7. CASE Notes(t)
  BY <1>0, <1>7, NotesShape DEF GoesOn, Ends
<1> QED
  BY <1>1, <1>2, <1>3, <1>4, <1>5, <1>6, <1>7 DEF Moves

\* A thread keeps what it loads until its call ends.
LEMMA MovesLoader ==
  ASSUME CacheTypes, NEW t \in Threads, Moves(t)
  PROVE  \A u \in Threads : loader'[u].step # "idle" =>
           loader[u].step # "idle" /\ loader'[u].want = loader[u].want
BY MovesShape DEF GoesOn, Ends

\* Only the end of the lifecycle's own call moves its operation on.
LEMMA MovesLife ==
  ASSUME CacheTypes, NEW t \in Threads, Moves(t)
  PROVE  \/ UNCHANGED <<registry, shut, life, condemned>>
         \/ /\ t = "lifecycle" /\ loader'[t].step = "idle" /\ loader[t].step # "idle"
            /\ UNCHANGED <<stage, using>>
            /\ \E ok \in BOOLEAN : Ends(t, ok) /\ LifeContinues(ok)
<1>1. ASSUME NEW s, GoesOn(t, s)
      PROVE  UNCHANGED <<registry, shut, life, condemned>>
  BY <1>1 DEF GoesOn
<1>2. ASSUME NEW ok \in BOOLEAN, Ends(t, ok), t = "loop"
      PROVE  UNCHANGED <<registry, shut, life, condemned>>
  BY <1>2, LoopShape DEF Ends
<1>3. ASSUME NEW ok \in BOOLEAN, Ends(t, ok), t # "loop"
      PROVE  /\ t = "lifecycle" /\ loader'[t].step = "idle" /\ loader[t].step # "idle"
             /\ UNCHANGED <<stage, using>>
             /\ Ends(t, ok) /\ LifeContinues(ok)
  BY <1>3, LifeShape DEF Ends
<1> QED
  BY <1>1, <1>2, <1>3, MovesShape

-----------------------------------------------------------------------------
(***************************************************************************)
(* Types.                                                                  *)
(***************************************************************************)
\* Whoever loads, or is about to, knows what.
LifeAims ==
  /\ life.step = "current" =>
       /\ registry.current \in Adapters
       /\ life.why = "training" => life.candidate \in Adapters
       /\ life.why \in {"training", "rollback", "recovery", "running"}
  /\ life.step \in {"candidate", "judging"} =>
       life.why = "training" /\ life.candidate \in Adapters
  /\ life.step = "prior" => life.other \in Adapters
  /\ life.step \in {"probing", "prior"} => life.why = "rollback"
  /\ life.step = "next" => life.why = "training"
  /\ life.step = "stopped" => life.why \in {"lease", "training"}
  /\ life.step = "draining" => life.why \in {"lease", "training", "rollback"}
  /\ life.step \in {"draining", "stopped"} => life.todo = {}
  /\ life.step \in {"listing", "listed"} =>
       life.why \in {"training", "refresh", "promoted", "recovery", "running"}

Aims ==
  /\ LifeAims
  /\ \A t \in Threads : loader[t].step # "idle" => loader[t].want \in Adapters
  /\ loader["lifecycle"].step # "idle" =>
       life.step \in {"current", "candidate", "prior"}

TypeInv == CacheTypes /\ Aims

\* Taking the registry forward keeps its types and its aliases.
LEMMA RegistryTypes ==
  ASSUME CacheTypes, NEW a \in Adapters
  PROVE  /\ AddAdapter(registry, a) \in Documents
         /\ AddAdapter(registry, a).current = registry.current
         /\ Promote(registry, a) \in Documents
         /\ Transition(registry, a, "rejected") \in Documents
         /\ Transition(registry, a, "rejected").current = registry.current
<1>1. "rejected" \in AdapterStates
  BY DEF AdapterStates
<1> QED
  BY <1>1, DocumentsStay DEF CacheTypes, AddAdapter, Transition, Documents

\* The operation's steps.
LEMMA LifeAimsContinue ==
  ASSUME CacheTypes, LifeAims, NEW ok \in BOOLEAN, LifeContinues(ok),
         life.step \in {"current", "candidate", "prior"}
  PROVE  /\ LifeAims' /\ registry' \in Documents /\ shut' \in BOOLEAN
         /\ condemned' \subseteq Adapters /\ life' \in LifeRecords
<1>0. shut \in BOOLEAN /\ condemned \subseteq Adapters /\ registry \in Documents
  BY DEF CacheTypes
<1>1. CASE Recovers("recovery")
  BY <1>0, <1>1, RecoversShape, StepNames DEF LifeAims, LifeIs
<1>2. CASE /\ UNCHANGED <<registry, shut, condemned>>
           /\ \/ life.why = "training" /\ life.step = "current" /\ LifeAt("candidate")
              \/ life.why = "training" /\ life.step # "current" /\ LifeAt("judging")
              \/ life.why = "rollback" /\ LifeAt("probing")
  BY <1>0, <1>2 DEF LifeAims, LifeIs, LifeAt
<1>3. CASE life.why = "rollback" /\ RestoresAliases
  BY <1>0, <1>3, RestoresShape DEF LifeAims, LifeIs, LifeAt
<1>4. CASE /\ UNCHANGED <<registry, condemned>>
           /\ LifeIs("away", "none", None, None, {}) /\ shut' = FALSE
  BY <1>0, <1>4 DEF LifeAims, LifeIs
<1> QED
  BY <1>1, <1>2, <1>3, <1>4, LifeShape

LEMMA LifeAimsNext ==
  ASSUME CacheTypes, LifeAims, LifeNext
  PROVE  /\ LifeAims' /\ registry' \in Documents /\ shut' \in BOOLEAN
         /\ behind' \subseteq Mishaps /\ condemned' \subseteq Adapters
         /\ life' \in LifeRecords
         /\ engine' \subseteq Adapters /\ cached' \subseteq Adapters
<1>0. /\ shut \in BOOLEAN /\ condemned \subseteq Adapters /\ registry \in Documents
      /\ engine \subseteq Adapters /\ cached \subseteq Adapters
      /\ behind \subseteq Mishaps /\ life \in LifeRecords
      /\ {"lease", "training", "undrained"} \subseteq Mishaps
  BY DEF CacheTypes, Mishaps
<1>1. ASSUME NEW why \in {"lease", "training", "rollback"}, Shuts(why)
      PROVE  LifeAims' /\ shut' \in BOOLEAN /\ life' \in LifeRecords
             /\ UNCHANGED <<registry, engine, cached, behind, condemned>>
  BY <1>1, ShutsShape DEF LifeAims, LifeIs
<1>2. CASE Stops
  <2>1. /\ life.step = "draining" /\ life.why # "rollback" /\ life.why \in {"lease", "training"}
        /\ engine' \subseteq Adapters /\ cached' = cached /\ behind' \subseteq Mishaps
    BY <1>0, <1>2, StopsShape DEF LifeAims
  <2>2. CASE LifeAt("stopped") /\ UNCHANGED <<registry, shut, condemned>>
    BY <1>0, <2>1, <2>2 DEF LifeAims, LifeIs, LifeAt
  <2>3. CASE Recovers("running")
    BY <1>0, <2>1, <2>3, RecoversShape, StepNames DEF LifeAims, LifeIs
  <2>4. CASE LifeIs("away", "none", None, None, {}) /\ shut' = FALSE
               /\ UNCHANGED <<registry, condemned>>
    BY <1>0, <2>1, <2>4 DEF LifeAims, LifeIs
  <2> QED
    BY <1>2, <2>2, <2>3, <2>4, StopsShape
<1>3. CASE RollsBack
  BY <1>0, <1>3, RollsBackShape DEF LifeAims, LifeIs
<1>4. CASE DrainTimesOut
  <2>1. UNCHANGED <<engine, cached>> /\ behind' \subseteq Mishaps
    BY <1>0, <1>4, DrainTimesOutShape
  <2>2. CASE Recovers("running")
    BY <1>0, <2>1, <2>2, RecoversShape, StepNames DEF LifeAims, LifeIs
  <2>3. CASE ~Recovers("running")
    BY <1>0, <1>4, <2>1, <2>3, DrainTimesOutShape DEF LifeAims, LifeIs
  <2> QED
    BY <2>2, <2>3
<1>5. CASE LeaseEnds \/ Completes
  BY <1>0, <1>5, LeaseEndsShape, CompletesShape DEF LifeAims, LifeIs
<1>6. CASE TrainerReports
  <2>1. registry' \in Documents /\ UNCHANGED <<engine, cached, shut, behind, condemned>>
    BY <1>0, <1>6, TrainerReportsShape, RegistryTypes
  <2>2. life' \in LifeRecords /\ life'.step = "listing" /\ life'.why \in {"training", "refresh"}
    BY <1>6, TrainerReportsShape DEF LifeIs
  <2> QED
    BY <1>0, <2>1, <2>2 DEF LifeAims
<1>7. CASE TrainerFails \/ RegistersNot \/ EvaluationRaises
  BY <1>0, <1>7, FailsShape, RecoversShape, StepNames DEF LifeAims, LifeIs
<1>8. CASE Lists
  BY <1>0, <1>8, ListsShape DEF LifeAims, LifeIs, LifeAt
<1>9. CASE ListsInVain
  <2>1. CASE Recovers("recovery")
    BY <1>0, <1>9, <2>1, ListsInVainShape, RecoversShape, StepNames DEF LifeAims, LifeIs
  <2>2. CASE ~Recovers("recovery")
    BY <1>0, <1>9, <2>2, ListsInVainShape DEF LifeAims, LifeIs
  <2> QED
    BY <2>1, <2>2
<1>10. CASE Overwrites
  <2>1. /\ cached' \subseteq Adapters /\ behind' \subseteq Mishaps
        /\ UNCHANGED <<registry, engine, condemned>> /\ life.step = "listed"
        /\ life.candidate # None => life.candidate \in Adapters
    BY <1>0, <1>10, OverwritesShape, LifeFields
  <2> QED
    BY <1>0, <1>10, <2>1, OverwritesShape DEF LifeAims, LifeIs, LifeAt
<1>11. CASE Registers
  <2>1. PICK a \in life.todo :
          /\ registry' = AddAdapter(registry, a)
          /\ \/ LifeIs("candidate", life.why, a, life.other, life.todo \ {a})
             \/ /\ LifeIs("current", life.why, a, life.other, life.todo \ {a})
                /\ registry.current \in Adapters
    BY <1>11, RegistersShape
  <2>2. a \in Adapters /\ life.why = "training"
    BY <1>11, RegistersShape, LifeFields DEF LifeAims
  <2>3. registry' \in Documents /\ registry'.current = registry.current
    BY <2>1, <2>2, RegistryTypes
  <2> QED
    BY <1>0, <1>11, <2>1, <2>2, <2>3, RegistersShape DEF LifeAims, LifeIs
<1>12. CASE Asks
  BY <1>0, <1>12 DEF Asks, lifeVars, LifeAims
<1>13. CASE Promotes
  <2>1. life.candidate \in Adapters
    BY <1>13, PromotesShape DEF LifeAims
  <2> QED
    BY <1>0, <1>13, <2>1, PromotesShape, RegistryTypes DEF LifeAims, LifeIs
<1>14. CASE Rejects
  <2>1. life.candidate \in Adapters
    BY <1>14, RejectsShape DEF LifeAims
  <2> QED
    BY <1>0, <1>14, <2>1, RejectsShape, RegistryTypes DEF LifeAims, LifeIs
<1>15. CASE Probes
  <2>1. CASE RestoresAliases
    BY <1>0, <1>15, <2>1, ProbesShape, RestoresShape DEF LifeAims, LifeIs, LifeAt
  <2>2. CASE ~RestoresAliases
    BY <1>0, <1>15, <2>2, ProbesShape DEF LifeAims, LifeIs
  <2> QED
    BY <2>1, <2>2
<1> QED
  BY <1>0, <1>1, <1>2, <1>3, <1>4, <1>5, <1>6, <1>7, <1>8, <1>9, <1>10, <1>11, <1>12,
     <1>13, <1>14, <1>15 DEF LifeNext

LEMMA MovesTypes ==
  ASSUME TypeInv, NEW t \in Threads, Moves(t)
  PROVE  TypeInv'
<1>0. CacheTypes /\ LifeAims
  BY DEF TypeInv, Aims
<1>1. /\ pins' = pins /\ loader' \in [Threads -> LoaderRecords]
      /\ behind' \subseteq Mishaps
  BY <1>0, MovesShape DEF CacheTypes, Mishaps
<1>2. /\ stage' \in [Requests -> Stages]
      /\ using' \in [Requests -> UseRecords]
  <2>1. ASSUME NEW s, GoesOn(t, s) PROVE UNCHANGED <<stage, using>>
    BY <2>1 DEF GoesOn
  <2>2. ASSUME NEW ok \in BOOLEAN, Ends(t, ok)
        PROVE  stage' \in [Requests -> Stages] /\ using' \in [Requests -> UseRecords]
    BY <1>0, <2>2, LoopShape, LifeShape DEF Ends, CacheTypes
  <2> QED
    BY <1>0, <2>1, <2>2, MovesShape DEF CacheTypes
<1>3. loader[t].want \in Adapters
  BY <1>0, MovesShape DEF TypeInv, Aims
<1>4. engine' \subseteq Adapters /\ cached' \subseteq Adapters
  <2>1. CASE Looks(t) \/ Evicts(t) \/ Unloads(t)
    BY <1>0, <2>1, LooksShape, EvictsShape, UnloadsShape DEF CacheTypes
  <2>2. CASE Drops(t) \/ Pops(t)
    BY <1>0, <2>2, DropsShape, PopsShape DEF CacheTypes
  <2>3. CASE Loads(t)
    <3>1. cached' = cached /\ engine' \in {engine, engine \cup {loader[t].want}}
      BY <1>0, <2>3, LoadsShape
    <3> QED
      BY <1>0, <1>3, <3>1 DEF CacheTypes
  <2>4. CASE Notes(t)
    BY <1>0, <1>3, <2>4, NotesShape DEF CacheTypes
  <2> QED
    BY <2>1, <2>2, <2>3, <2>4 DEF Moves
<1>5. /\ registry' \in Documents /\ shut' \in BOOLEAN /\ life' \in LifeRecords
      /\ condemned' \subseteq Adapters /\ LifeAims'
      /\ loader'["lifecycle"].step # "idle" =>
           life'.step \in {"current", "candidate", "prior"}
  <2>1. loader'["lifecycle"].step # "idle" => loader["lifecycle"].step # "idle"
    BY <1>0, MovesLoader DEF Threads
  <2>2. CASE UNCHANGED <<registry, shut, life, condemned>>
    BY <1>0, <2>1, <2>2 DEF CacheTypes, TypeInv, Aims, LifeAims
  <2>3. ASSUME NEW ok \in BOOLEAN, LifeContinues(ok), t = "lifecycle",
               loader'[t].step = "idle", loader[t].step # "idle"
        PROVE  /\ registry' \in Documents /\ shut' \in BOOLEAN /\ life' \in LifeRecords
               /\ condemned' \subseteq Adapters /\ LifeAims'
    BY <1>0, <2>3, LifeAimsContinue DEF TypeInv, Aims
  <2> QED
    BY <1>0, <2>1, <2>2, <2>3, MovesLife
<1>6. \A u \in Threads : loader'[u].step # "idle" => loader'[u].want \in Adapters
  BY <1>0, MovesLoader DEF TypeInv, Aims
<1> QED
  BY <1>1, <1>2, <1>4, <1>5, <1>6 DEF TypeInv, CacheTypes, Aims

LEMMA RouteTypes ==
  ASSUME TypeInv, RouteNext PROVE TypeInv'
<1> USE DEF controllerVars, requestVars, lifeVars
<1>1. /\ UNCHANGED <<registry, controllerVars, requestVars, lifeVars>>
      /\ pins' \in [RouteIds -> Adapters \cup {None, "gone"}]
  BY DEF RouteNext, CreateRoute, Expires, TypeInv, CacheTypes
<1> QED
  BY <1>1 DEF TypeInv, CacheTypes, Aims, LifeAims

\* A request that enters begins the loop's call.
LEMMA EntersLoads ==
  ASSUME CacheTypes, NEW r \in Requests, Enters(r), loader' # loader
  PROVE  /\ using[r].adapter \in Adapters
         /\ loader["loop"].step = "idle"
         /\ loader' \in [Threads -> LoaderRecords]
         /\ loader'["loop"].step = "looking"
         /\ loader'["loop"].want = using[r].adapter
         /\ loader'["lifecycle"] = loader["lifecycle"]
         /\ stage' = [stage EXCEPT ![r] = "loading"] /\ using' = using /\ ~shut
<1> DEFINE i == [Idle EXCEPT !.step = "looking", !.want = using[r].adapter]
<1>1. /\ loader' = [loader EXCEPT !["loop"] = i]
      /\ using[r].adapter # None
      /\ stage' = [stage EXCEPT ![r] = "loading"] /\ using' = using /\ ~shut
      /\ loader["loop"].step = "idle"
  BY DEF Enters, LoopFree
<1>2. using[r].adapter \in Adapters
  BY <1>1 DEF CacheTypes, UseRecords
<1>3. i \in LoaderRecords /\ i.want = using[r].adapter /\ i.step = "looking"
  BY <1>2, StepNames DEF Idle, LoaderRecords
<1> HIDE DEF i
<1>4. {"loop", "lifecycle"} \subseteq Threads
  BY DEF Threads
<1> QED
  BY <1>1, <1>2, <1>3, <1>4, LoaderPut DEF CacheTypes

LEMMA RequestTypes ==
  ASSUME TypeInv, RequestNext PROVE TypeInv'
<1> USE DEF controllerVars, requestVars, lifeVars
<1>1. ASSUME NEW r \in Requests, NEW id \in RouteIds, Resolves(r, id)
      PROVE  TypeInv'
  <2>1. [route |-> id, adapter |-> pins[id]] \in UseRecords
    BY <1>1 DEF Resolves, TypeInv, CacheTypes, UseRecords
  <2> QED
    BY <1>1, <2>1 DEF Resolves, TypeInv, CacheTypes, Aims, LifeAims, Stages
<1>2. ASSUME NEW r \in Requests, Enters(r) PROVE TypeInv'
  <2>1. /\ UNCHANGED <<registry, pins, engine, cached, lifeVars>>
        /\ stage' \in [Requests -> Stages]
        /\ using' \in [Requests -> UseRecords]
    BY <1>2, RestRecords DEF Enters, TypeInv, CacheTypes, Stages
  <2>2. CASE loader' = loader
    BY <2>1, <2>2 DEF TypeInv, CacheTypes, Aims, LifeAims
  <2>3. CASE loader' # loader
    BY <1>2, <2>1, <2>3, EntersLoads DEF TypeInv, CacheTypes, Aims, LifeAims, Threads
  <2> QED
    BY <2>2, <2>3
<1>3. ASSUME NEW r \in Requests, Leaves(r) \/ Dispatches(r) PROVE TypeInv'
  BY <1>3, RestRecords DEF Leaves, Dispatches, TypeInv, CacheTypes, Aims, LifeAims, Stages
<1> QED
  BY <1>1, <1>2, <1>3 DEF RequestNext

\* Asks alone begins the lifecycle's call; no other of its steps is beside one.
LEMMA AsksShape ==
  ASSUME TypeInv, Asks
  PROVE  /\ UNCHANGED <<registry, engine, cached, shut, life, behind, condemned>>
         /\ loader["lifecycle"].step = "idle"
         /\ loader' \in [Threads -> LoaderRecords]
         /\ loader'["lifecycle"].step = "looking"
         /\ loader'["lifecycle"].want \in Adapters
         /\ loader'["loop"] = loader["loop"]
         /\ life.step \in {"current", "candidate", "prior"}
<1> DEFINE w == CASE life.step = "current" -> registry.current
                  [] life.step = "candidate" -> life.candidate
                  [] OTHER -> life.other
           i == [Idle EXCEPT !.step = "looking", !.want = w]
<1>1. loader' = [loader EXCEPT !["lifecycle"] = i]
  BY DEF Asks
<1>2. /\ life.step \in {"current", "candidate", "prior"}
      /\ UNCHANGED <<registry, engine, cached, shut, life, behind, condemned>>
      /\ loader["lifecycle"].step = "idle"
  BY DEF Asks, lifeVars
<1>3. w \in Adapters
  BY <1>2 DEF TypeInv, Aims, LifeAims
<1>4. i \in LoaderRecords /\ i.want = w /\ i.step = "looking"
  BY <1>3, StepNames DEF Idle, LoaderRecords
<1> HIDE DEF w, i
<1>5. {"loop", "lifecycle"} \subseteq Threads
  BY DEF Threads
<1> QED
  BY <1>1, <1>2, <1>3, <1>4, <1>5, LoaderPut DEF TypeInv, CacheTypes, Threads

LEMMA LifeAlone ==
  ASSUME TypeInv, LifeNext, ~Asks
  PROVE  /\ loader' = loader
         /\ loader["lifecycle"].step = "idle"
<1>1. loader' = loader
  BY DEF LifeNext, Shuts, Stops, RollsBack, DrainTimesOut, LeaseEnds, TrainerReports,
         TrainerFails, Lists, ListsInVain, Overwrites, Registers, RegistersNot,
         Completes, Promotes, Rejects, EvaluationRaises, Probes, controllerVars
<1>2. life.step \notin {"current", "candidate", "prior"}
  BY DEF LifeNext, Shuts, Stops, RollsBack, DrainTimesOut, LeaseEnds, TrainerReports,
         TrainerFails, Lists, ListsInVain, Overwrites, Registers, RegistersNot,
         Completes, Promotes, Rejects, EvaluationRaises, Probes
<1> QED
  BY <1>1, <1>2 DEF TypeInv, Aims

LEMMA LifeTypes ==
  ASSUME TypeInv, LifeNext PROVE TypeInv'
<1>0. CacheTypes /\ LifeAims
  BY DEF TypeInv, Aims
<1>1. /\ LifeAims' /\ registry' \in Documents /\ shut' \in BOOLEAN
      /\ behind' \subseteq Mishaps /\ condemned' \subseteq Adapters
      /\ life' \in LifeRecords
      /\ engine' \subseteq Adapters /\ cached' \subseteq Adapters
      /\ UNCHANGED <<pins, stage, using>>
  BY <1>0, LifeAimsNext, LifeRest
<1>2. CASE Asks
  BY <1>0, <1>1, <1>2, AsksShape DEF TypeInv, CacheTypes, Aims, Threads
<1>3. CASE ~Asks
  BY <1>0, <1>1, <1>3, LifeAlone DEF TypeInv, CacheTypes, Aims
<1> QED
  BY <1>2, <1>3

LEMMA TypeNext ==
  ASSUME TypeInv, [Next]_vars PROVE TypeInv'
<1>1. CASE RouteNext
  BY <1>1, RouteTypes
<1>2. CASE RequestNext
  BY <1>2, RequestTypes
<1>3. CASE LifeNext
  BY <1>3, LifeTypes
<1>4. ASSUME NEW t \in Threads, Moves(t) PROVE TypeInv'
  BY <1>4, MovesTypes
<1>5. CASE UNCHANGED vars
  BY <1>5 DEF vars, controllerVars, requestVars, lifeVars, TypeInv, CacheTypes, Aims,
              LifeAims
<1> QED
  BY <1>1, <1>2, <1>3, <1>4, <1>5 DEF Next, LoaderNext, Moves

LEMMA TypeInit == Init => TypeInv
<1> SUFFICES ASSUME Init PROVE TypeInv
  OBVIOUS
<1>1. CacheTypes
  BY RestRecords DEF Init, CacheTypes, Stages
<1>2. \A t \in Threads : loader[t].step = "idle"
  BY DEF Init, Idle
<1>3. life.step = "away" /\ "lifecycle" \in Threads
  BY DEF Init, Away, Threads
<1> QED
  BY <1>1, <1>2, <1>3 DEF TypeInv, Aims, LifeAims

(***************************************************************************)
(* Every state has the shapes the code writes.                             *)
(***************************************************************************)
THEOREM CacheTypeCorrect == Spec => []TypeOK
<1>2. TypeInv => TypeOK
  BY TypesAre DEF TypeInv
<1>3. TypeInv /\ [Next]_vars => TypeInv'
  BY TypeNext
<1> QED
  BY <1>2, <1>3, TypeInit, PTL DEF Spec

-----------------------------------------------------------------------------
(***************************************************************************)
(* Only approved adapters are served.  No route and no request names one   *)
(* that is not approved and never was: a verdict falls on a candidate that *)
(* was absent before, and a recovery that fails an approved adapter, one   *)
(* that was just promoted, condemns it.                                    *)
(***************************************************************************)
Served(a) == registry.status[a] = "approved" \/ a \in condemned

NamesInv ==
  /\ \A id \in RouteIds : pins[id] \in Adapters => Served(pins[id])
  /\ \A r \in Requests : using[r].adapter \in Adapters => Served(using[r].adapter)

\* The aliases, and the one a rollback may take back, name known adapters.
Named(b) == b \in Adapters => registry.status[b] # "absent"

InFlight ==
  /\ life.why = "training" /\ life.candidate \in Adapters =>
       registry.status[life.candidate] = "candidate"
  /\ \A a \in life.todo : registry.status[a] = "absent"
  /\ Named(registry.current) /\ Named(registry.rollback) /\ Named(life.other)

ServedInv == NamesInv /\ InFlight

Kept == \A a \in Adapters : Served(a) => Served(a)'

\* Nobody names anything else than what is served.
LEMMA NamesStep ==
  ASSUME NamesInv, Kept,
         \A id \in RouteIds : pins'[id] \in Adapters =>
           pins'[id] = pins[id] \/ registry'.status[pins'[id]] = "approved",
         \A r \in Requests : using'[r].adapter \in Adapters =>
           \/ using'[r].adapter = using[r].adapter
           \/ \E id \in RouteIds : using'[r].adapter = pins[id]
  PROVE  NamesInv'
BY DEF NamesInv, Kept, Served

LEMMA SameRegistry ==
  ASSUME UNCHANGED <<registry, condemned>>, InFlight, NEW s, NEW w, NEW c, NEW o, NEW T,
         LifeIs(s, w, c, o, T),
         c = None \/ (c = life.candidate /\ life.why = "training"),
         o = None \/ o = life.other,
         \A a \in T : registry.status[a] = "absent"
  PROVE  Kept /\ InFlight'
BY NoneIsNotAnAdapter DEF InFlight, LifeIs, Kept, Served, Named

LEMMA RecoversServed ==
  ASSUME CacheTypes, InFlight, NEW why \in {"running", "recovery"}, Recovers(why)
  PROVE  Kept /\ InFlight'
<1>1. /\ why \in Reasons /\ None \notin Adapters
      /\ life'.why = why /\ life'.todo = {} /\ life'.other = None
  BY RecoversShape, StepNames, NoneIsNotAnAdapter DEF LifeIs
<1>2. /\ registry'.current = registry.current
      /\ registry'.rollback = registry.rollback
      /\ condemned \subseteq condemned'
      /\ \A a \in Adapters :
           \/ registry'.status[a] = registry.status[a]
           \/ /\ registry'.status[a] = "failed"
              /\ registry.status[a] = "approved" => a \in condemned'
  BY <1>1, RecoversShape
<1> QED
  BY <1>1, <1>2 DEF InFlight, Kept, Served, Named

LEMMA RestoresServed ==
  ASSUME CacheTypes, InFlight, RestoresAliases, life.why = "rollback"
  PROVE  Kept /\ InFlight'
<1>1. /\ registry'.status = registry.status
      /\ registry'.current = life.other /\ registry'.rollback = registry.current
      /\ condemned' = condemned
      /\ life'.why # "training"
      /\ life'.todo \in {{}, life.todo} /\ life'.other \in {None, life.other}
  BY RestoresShape DEF LifeIs, LifeAt
<1> QED
  BY <1>1, NoneIsNotAnAdapter DEF InFlight, Kept, Served, Named

\* The document after each of its mutations.
LEMMA StatusAfter ==
  ASSUME CacheTypes, NEW a \in Adapters
  PROVE  /\ LET reg == AddAdapter(registry, a)
            IN  /\ reg.status[a] = "candidate"
                /\ \A b \in Adapters \ {a} : reg.status[b] = registry.status[b]
                /\ reg.current = registry.current /\ reg.rollback = registry.rollback
         /\ LET reg == Transition(registry, a, "rejected")
            IN  /\ reg.status[a] = "rejected"
                /\ \A b \in Adapters \ {a} : reg.status[b] = registry.status[b]
                /\ reg.current = registry.current /\ reg.rollback = registry.rollback
         /\ LET reg == Promote(registry, a)
            IN  /\ reg.status[a] = "approved"
                /\ \A b \in Adapters \ {a, registry.current} :
                     reg.status[b] = registry.status[b]
                /\ registry.current \in Adapters =>
                     reg.status[registry.current] = "approved"
                /\ reg.current = a /\ reg.rollback = registry.current
BY DEF CacheTypes, Documents, AddAdapter, Transition, Promote

LEMMA Registered ==
  ASSUME CacheTypes, InFlight, NEW a \in Adapters, registry.status[a] = "absent",
         registry' = AddAdapter(registry, a), condemned' = condemned,
         NEW s, NEW T, LifeIs(s, "training", a, life.other, T),
         T \subseteq life.todo \ {a}
  PROVE  Kept /\ InFlight'
<1>1. /\ registry'.status[a] = "candidate"
      /\ \A b \in Adapters \ {a} : registry'.status[b] = registry.status[b]
      /\ registry'.current = registry.current /\ registry'.rollback = registry.rollback
  BY StatusAfter
<1>2. /\ life'.why = "training" /\ life'.candidate = a /\ life'.other = life.other
      /\ life'.todo = T /\ life.todo \subseteq Adapters
  BY LifeFields DEF LifeIs
<1>3. Kept
  BY <1>1 DEF Kept, Served
<1>4. \A b \in T : registry'.status[b] = "absent"
  BY <1>1, <1>2 DEF InFlight
<1> QED
  BY <1>1, <1>2, <1>3, <1>4 DEF InFlight, Named

LEMMA ServedContinue ==
  ASSUME CacheTypes, InFlight, NEW ok \in BOOLEAN, LifeContinues(ok)
  PROVE  Kept /\ InFlight'
<1>1. CASE Recovers("recovery")
  BY <1>1, RecoversServed
<1>2. CASE life.why = "rollback" /\ RestoresAliases
  BY <1>2, RestoresServed
<1>3. CASE /\ UNCHANGED <<registry, shut, condemned>>
           /\ \E s \in {"candidate", "judging", "probing"} : LifeAt(s)
  BY <1>3 DEF InFlight, Kept, Served, Named, LifeIs, LifeAt
<1>4. CASE /\ UNCHANGED <<registry, condemned>>
           /\ LifeIs("away", "none", None, None, {})
  BY <1>4, SameRegistry
<1> QED
  BY <1>1, <1>2, <1>3, <1>4, LifeShape

LEMMA ServedLife ==
  ASSUME TypeInv, InFlight, LifeNext
  PROVE  Kept /\ InFlight'
<1>0. CacheTypes /\ LifeAims /\ None \notin Adapters
  BY NoneIsNotAnAdapter DEF TypeInv, Aims
<1>1. ASSUME UNCHANGED <<registry, condemned>>, LifeIs("away", "none", None, None, {})
      PROVE  Kept /\ InFlight'
  BY <1>1, SameRegistry
<1>2. ASSUME NEW s, UNCHANGED <<registry, condemned>>, LifeAt(s)
      PROVE  Kept /\ InFlight'
  BY <1>2 DEF InFlight, Kept, Served, Named, LifeIs, LifeAt
<1>3. ASSUME NEW why \in {"lease", "training", "rollback"}, Shuts(why)
      PROVE  Kept /\ InFlight'
  <2>1. /\ UNCHANGED <<registry, condemned>>
        /\ LifeIs("draining", why, None, None, {})
    BY <1>0, <1>3, ShutsShape
  <2> QED
    BY <2>1, SameRegistry
<1>4. CASE Stops
  BY <1>0, <1>1, <1>2, <1>4, StopsShape, RecoversServed
<1>5. CASE RollsBack
  <2>1. CASE registry' = registry
    BY <1>0, <1>1, <1>5, <2>1, RollsBackShape DEF InFlight, Kept, Served, Named, LifeIs
  <2>2. CASE registry' # registry
    BY <1>0, <1>5, <2>2, RollsBackShape DEF InFlight, Kept, Served, Named, LifeIs
  <2> QED
    BY <2>1, <2>2
<1>6. CASE DrainTimesOut
  BY <1>0, <1>1, <1>6, DrainTimesOutShape, RecoversServed
<1>7. CASE LeaseEnds \/ Completes
  BY <1>0, <1>1, <1>7, LeaseEndsShape, CompletesShape
<1>8. CASE TrainerReports
  <2>1. life.why = "training" /\ life.todo = {} /\ condemned' = condemned
    BY <1>0, <1>8, TrainerReportsShape DEF LifeAims
  <2>2. ASSUME NEW a \in Adapters \ Known(registry),
               registry' = AddAdapter(registry, a),
               LifeIs("listing", "training", a, life.other, life.todo)
        PROVE  Kept /\ InFlight'
    BY <1>0, <2>1, <2>2, Registered DEF Known
  <2>3. ASSUME NEW A \in SUBSET (Adapters \ Known(registry)), registry' = registry,
               LifeIs("listing", "training", life.candidate, life.other, A)
        PROVE  Kept /\ InFlight'
    BY <1>0, <2>1, <2>3 DEF InFlight, Kept, Served, Named, LifeIs, Known
  <2>4. ASSUME registry' = registry,
               LifeIs("listing", "refresh", life.candidate, life.other, life.todo)
        PROVE  Kept /\ InFlight'
    BY <1>0, <2>1, <2>4 DEF InFlight, Kept, Served, Named, LifeIs
  <2> QED
    BY <1>0, <1>8, <2>2, <2>3, <2>4, TrainerReportsShape
<1>9. CASE TrainerFails \/ RegistersNot \/ EvaluationRaises
  BY <1>0, <1>9, FailsShape, RecoversServed
<1>10. CASE Lists
  BY <1>0, <1>2, <1>10, ListsShape
<1>11. CASE ListsInVain
  BY <1>0, <1>1, <1>11, ListsInVainShape, RecoversServed
<1>12. CASE Overwrites
  <2>1. UNCHANGED <<registry, condemned>>
    BY <1>0, <1>12, OverwritesShape
  <2>2. ASSUME LifeIs("next", "training", None, life.other, life.todo)
        PROVE  Kept /\ InFlight'
    BY <1>0, <2>1, <2>2 DEF InFlight, Kept, Served, Named, LifeIs
  <2> QED
    BY <1>0, <1>1, <1>2, <1>12, <2>1, <2>2, OverwritesShape
<1>13. CASE Registers
  <2>1. PICK a \in life.todo :
          /\ registry' = AddAdapter(registry, a)
          /\ \E s : LifeIs(s, life.why, a, life.other, life.todo \ {a})
    BY <1>0, <1>13, RegistersShape
  <2>2. /\ a \in Adapters /\ life.why = "training" /\ registry.status[a] = "absent"
        /\ condemned' = condemned
    BY <1>0, <1>13, RegistersShape, LifeFields DEF LifeAims, InFlight
  <2>3. PICK s : LifeIs(s, "training", a, life.other, life.todo \ {a})
    BY <2>1, <2>2
  <2> QED
    BY <1>0, <2>1, <2>2, <2>3, Registered
<1>14. CASE Asks
  BY <1>14, AsksShape DEF InFlight, Kept, Served, Named
<1>15. CASE Promotes
  <2>1. life.candidate \in Adapters /\ life.why = "training"
    BY <1>0, <1>15, PromotesShape DEF LifeAims
  <2>2. /\ registry'.status[life.candidate] = "approved"
        /\ \A b \in Adapters \ {life.candidate, registry.current} :
             registry'.status[b] = registry.status[b]
        /\ registry.current \in Adapters => registry'.status[registry.current] = "approved"
        /\ registry'.current = life.candidate /\ registry'.rollback = registry.current
        /\ condemned' = condemned
        /\ life'.why = "promoted" /\ life'.other = life.other /\ life'.todo = life.todo
    BY <1>0, <1>15, <2>1, PromotesShape, StatusAfter DEF LifeIs
  <2>3. Kept
    BY <2>2 DEF Kept, Served
  <2>4. life.todo \subseteq Adapters \ {life.candidate, registry.current}
    BY <1>0, <2>1, LifeFields DEF InFlight, Named
  <2>5. \A b \in Adapters : registry.status[b] # "absent" => registry'.status[b] # "absent"
    BY <2>2
  <2>6. Named(registry.current)' /\ Named(registry.rollback)' /\ Named(life.other)'
    BY <2>2, <2>5 DEF InFlight, Named
  <2> QED
    BY <2>2, <2>3, <2>4, <2>6 DEF InFlight
<1>16. CASE Rejects
  <2>1. /\ life.candidate \in Adapters /\ life.why = "training"
        /\ registry.status[life.candidate] = "candidate"
    BY <1>0, <1>16, RejectsShape DEF LifeAims, InFlight
  <2>2. /\ registry'.status[life.candidate] = "rejected"
        /\ \A b \in Adapters \ {life.candidate} : registry'.status[b] = registry.status[b]
        /\ registry'.current = registry.current /\ registry'.rollback = registry.rollback
        /\ condemned' = condemned
        /\ life'.candidate = None /\ life'.other = life.other /\ life'.todo = life.todo
    BY <1>0, <1>16, <2>1, RejectsShape, StatusAfter DEF LifeIs
  <2>3. Kept
    BY <2>1, <2>2 DEF Kept, Served
  <2>4. \A b \in life.todo : registry'.status[b] = "absent"
    BY <1>0, <2>1, <2>2, LifeFields DEF InFlight
  <2> QED
    BY <1>0, <2>2, <2>3, <2>4 DEF InFlight, Named
<1>17. CASE Probes
  <2>1. life.why = "rollback"
    BY <1>0, <1>17, ProbesShape DEF LifeAims
  <2> QED
    BY <1>0, <1>1, <1>17, <2>1, ProbesShape, RestoresServed
<1> QED
  BY <1>3, <1>4, <1>5, <1>6, <1>7, <1>8, <1>9, <1>10, <1>11, <1>12, <1>13, <1>14,
     <1>15, <1>16, <1>17 DEF LifeNext

LEMMA ServedNext ==
  ASSUME TypeInv, ServedInv, [Next]_vars
  PROVE  ServedInv'
<1> USE DEF controllerVars, requestVars, lifeVars
<1>0. /\ CacheTypes /\ NamesInv /\ InFlight
      /\ None \notin Adapters /\ "gone" \notin Adapters
  BY NoneIsNotAnAdapter, CacheConstantsOK DEF TypeInv, ServedInv
<1>1. ASSUME UNCHANGED <<registry, life, condemned>>
      PROVE  Kept /\ InFlight'
  BY <1>0, <1>1 DEF InFlight, Kept, Served, Named
<1>2. CASE RouteNext
  <2>1. /\ UNCHANGED <<registry, using, life, condemned>>
        /\ \A id \in RouteIds :
             \/ pins'[id] = pins[id] \/ pins'[id] = "gone" \/ pins'[id] = None
             \/ pins'[id] \in Adapters /\ registry.status[pins'[id]] = "approved"
    BY <1>0, <1>2 DEF RouteNext, CreateRoute, Expires, CacheTypes, Routable
  <2> QED
    BY <1>0, <1>1, <2>1, NamesStep DEF ServedInv
<1>3. CASE RequestNext
  <2>1. /\ UNCHANGED <<registry, pins, life, condemned>>
        /\ \A r \in Requests :
             \/ using'[r] = using[r] \/ using'[r] = NoRoute
             \/ \E id \in RouteIds : using'[r] = [route |-> id, adapter |-> pins[id]]
    BY <1>0, <1>3 DEF RequestNext, Resolves, Enters, Dispatches, Leaves, CacheTypes
  <2>2. NoRoute.adapter = None
    BY DEF NoRoute
  <2>3. \A r \in Requests : using'[r].adapter \in Adapters =>
          \/ using'[r].adapter = using[r].adapter
          \/ \E id \in RouteIds : using'[r].adapter = pins[id]
    <3>1. ASSUME NEW r \in Requests, NEW id \in RouteIds,
                 using'[r] = [route |-> id, adapter |-> pins[id]]
          PROVE  using'[r].adapter = pins[id]
      BY <3>1
    <3> QED
      BY <1>0, <2>1, <2>2, <3>1
  <2> QED
    BY <1>0, <1>1, <2>1, <2>3, NamesStep DEF ServedInv
<1>4. CASE LifeNext
  BY <1>0, <1>4, ServedLife, LifeRest, NamesStep DEF ServedInv
<1>5. ASSUME NEW t \in Threads, Moves(t) PROVE ServedInv'
  <2>1. Kept /\ InFlight'
    BY <1>0, <1>1, <1>5, MovesLife, ServedContinue
  <2>2. \A r \in Requests : using'[r].adapter \in Adapters =>
          using'[r].adapter = using[r].adapter
    <3>1. ASSUME NEW s, GoesOn(t, s) PROVE using' = using
      BY <3>1 DEF GoesOn
    <3>2. ASSUME NEW ok \in BOOLEAN, Ends(t, ok)
          PROVE  \A r \in Requests : using'[r] \in {using[r], NoRoute}
      BY <1>0, <3>2, LoopShape, LifeShape DEF Ends
    <3>3. NoRoute.adapter = None
      BY DEF NoRoute
    <3> QED
      BY <1>0, <1>5, <3>1, <3>2, <3>3, MovesShape
  <2> QED
    BY <1>0, <1>5, <2>1, <2>2, MovesShape, NamesStep DEF ServedInv
<1>6. CASE UNCHANGED vars
  BY <1>0, <1>1, <1>6, NamesStep DEF vars, ServedInv
<1> QED
  BY <1>2, <1>3, <1>4, <1>5, <1>6 DEF Next, LoaderNext, Moves

(***************************************************************************)
(* No request reaches an adapter that is not approved, though ones that    *)
(* are not stay loaded and cached; but for one that was approved, had its  *)
(* routes, and was failed because the cache could not be rebuilt.          *)
(***************************************************************************)
THEOREM ApprovedTheorem == Spec => OnlyApprovedServed
<1>1. Init => ServedInv
  <2> SUFFICES ASSUME Init PROVE ServedInv
    OBVIOUS
  <2>1. /\ \A id \in RouteIds : pins[id] = "gone"
        /\ \A r \in Requests : using[r].adapter = None
        /\ life.candidate = None /\ life.other = None /\ life.todo = {}
    BY DEF Init, NoRoute, Away
  <2>2. Named(registry.current) /\ Named(registry.rollback)
    BY NoneIsNotAnAdapter DEF Init, ValidDocument, Known, Named
  <2> QED
    BY <2>1, <2>2, CacheConstantsOK, NoneIsNotAnAdapter
       DEF ServedInv, NamesInv, InFlight, Named
<1>2. TypeInv /\ ServedInv /\ [Next]_vars => ServedInv'
  BY ServedNext
<1>3. TypeInv /\ [Next]_vars => TypeInv'
  BY TypeNext
<1>4. TypeInv /\ ServedInv =>
        [\A r \in Requests :
           Sends(r) => \/ registry.status[using[r].adapter] = "approved"
                       \/ using[r].adapter \in condemned]_vars
  <2> SUFFICES ASSUME TypeInv, ServedInv, NEW r \in Requests, Sends(r)
               PROVE  Served(using[r].adapter)
    BY DEF Served
  <2>1. using[r].adapter \in Adapters
    BY DEF Sends, TypeInv, CacheTypes, UseRecords
  <2> QED
    BY <2>1 DEF ServedInv, NamesInv
<1> QED
  BY <1>1, <1>2, <1>3, <1>4, TypeInit, PTL DEF Spec, OnlyApprovedServed

-----------------------------------------------------------------------------
(***************************************************************************)
(* One loader at a time.  A request that loads keeps the drain waiting, a  *)
(* lifecycle operation that is past its drain keeps requests at the gate,  *)
(* and so only one of the two threads is in ensure_loaded; but for the     *)
(* recovery of a run whose drain timed out, which is noted in `behind`.    *)
(***************************************************************************)
Quiet ==
  /\ life.step \notin {"away", "draining"}
  /\ life.why = "running" => "undrained" \notin behind

OrderInv ==
  /\ life.step # "away" => shut
  /\ Quiet => Inside = {}
  /\ \A r \in Requests : stage[r] = "loading" =>
       loader["loop"].step # "idle" /\ using[r].adapter = loader["loop"].want
  /\ loader["loop"].step # "idle" => \E r \in Requests : stage[r] = "loading"

\* What it is for.
LEMMA QuietAlone ==
  ASSUME OrderInv, Quiet
  PROVE  /\ loader["loop"].step = "idle"
         /\ \A r \in Requests : stage[r] \notin {"loading", "ready", "sent"}
BY DEF OrderInv, Inside

LEMMA LifecycleQuiet ==
  ASSUME TypeInv, OrderInv, loader["lifecycle"].step # "idle",
         "undrained" \notin behind
  PROVE  Quiet
BY DEF TypeInv, Aims, OrderInv, Quiet

\* An operation that is past its drain is alone, but when it asks itself.
LEMMA QuietIdle ==
  ASSUME TypeInv, OrderInv, Quiet,
         life.step \in {"stopped", "listing", "listed", "next", "judging"}
  PROVE  \A t \in Threads : loader[t].step = "idle"
BY QuietAlone DEF TypeInv, Aims, Threads

\* With no drain that timed out, only one thread is in ensure_loaded.
LEMMA Alone ==
  ASSUME TypeInv, OrderInv, "undrained" \notin behind,
         NEW t \in Threads, loader[t].step # "idle"
  PROVE  \A u \in Threads \ {t} : loader[u].step = "idle"
<1>1. loader["lifecycle"].step # "idle" => loader["loop"].step = "idle"
  BY LifecycleQuiet, QuietAlone
<1> QED
  BY <1>1 DEF Threads

\* Steps after which nobody new is inside.
LEMMA OrderStep ==
  ASSUME OrderInv,
         life'.step # "away" => shut',
         Quiet' => Quiet \/ Inside' = {},
         Inside' \subseteq Inside,
         \A r \in Requests : stage'[r] = "loading" =>
           stage[r] = "loading" /\ using'[r] = using[r],
         loader'["loop"].step # "idle" =>
           /\ loader["loop"].step # "idle"
           /\ \A r \in Requests : stage[r] = "loading" => stage'[r] = "loading",
         (\E r \in Requests : stage'[r] = "loading") =>
           loader'["loop"].step # "idle" /\ loader'["loop"].want = loader["loop"].want
  PROVE  OrderInv'
<1>1. Quiet' => Inside' = {}
  BY DEF OrderInv
<1> QED
  BY <1>1 DEF OrderInv

\* How the operation goes on: shut until it ends, and quiet once it was drained.
Advances ==
  /\ life'.step # "away" => shut'
  /\ Quiet' => Quiet \/ Inside = {}

LEMMA RecoversAdvances ==
  ASSUME CacheTypes, OrderInv, life.step # "away",
         NEW why \in {"running", "recovery"}, Recovers(why),
         \/ why = "recovery" /\ life.step # "draining" /\ life.why # "running"
         \/ why = "running" /\ Inside = {}
         \/ why = "running" /\ "undrained" \in behind'
  PROVE  Advances
<1>1. why \in Reasons /\ life'.why = why /\ shut' = shut /\ shut
  BY RecoversShape, StepNames DEF LifeIs, OrderInv
<1> QED
  BY <1>1 DEF Advances, Quiet

LEMMA OrderContinue ==
  ASSUME CacheTypes, LifeAims, OrderInv, NEW ok \in BOOLEAN, LifeContinues(ok),
         life.step \in {"current", "candidate", "prior"}
  PROVE  Advances
<1>0. shut
  BY DEF OrderInv
<1>1. CASE life.why = "training" /\ Recovers("recovery")
  BY <1>1, RecoversAdvances
<1>2. CASE /\ UNCHANGED <<registry, shut, condemned>>
           /\ life.why \in {"training", "rollback"}
           /\ \E s \in {"candidate", "judging", "probing"} : LifeAt(s)
  BY <1>0, <1>2 DEF Advances, Quiet, LifeIs, LifeAt
<1>3. CASE life.why = "rollback" /\ RestoresAliases
  BY <1>0, <1>3, RestoresShape DEF Advances, Quiet, LifeIs, LifeAt
<1>4. CASE LifeIs("away", "none", None, None, {})
  BY <1>4 DEF Advances, Quiet, LifeIs
<1> QED
  BY <1>1, <1>2, <1>3, <1>4, LifeShape

LEMMA OrderMoves ==
  ASSUME TypeInv, OrderInv, NEW t \in Threads, Moves(t)
  PROVE  OrderInv'
<1>0. /\ CacheTypes /\ LifeAims /\ loader[t].step # "idle"
      /\ "undrained" \in behind' <=> "undrained" \in behind
      /\ "loop" \in Threads
  BY MovesShape DEF TypeInv, Aims, Threads
<1>1. ASSUME NEW s \in LoaderSteps \ {"idle", "looking"}, GoesOn(t, s)
      PROVE  OrderInv'
  <2>1. UNCHANGED <<stage, using, shut, life>>
    BY <1>1 DEF GoesOn
  <2>2. Inside' = Inside /\ Quiet' = Quiet
    BY <1>0, <2>1 DEF Inside, Quiet
  <2>3. /\ loader'["loop"].step # "idle" <=> loader["loop"].step # "idle"
        /\ loader'["loop"].want = loader["loop"].want
    BY <1>0, <1>1 DEF GoesOn
  <2> QED
    BY <2>1, <2>2, <2>3, OrderStep DEF OrderInv
<1>2. ASSUME NEW ok \in BOOLEAN, Ends(t, ok), t = "loop"
      PROVE  OrderInv'
  <2>1. LoopContinues(ok) /\ loader'["loop"].step = "idle"
    BY <1>2 DEF Ends
  <2>2. /\ shut' = shut /\ life' = life
        /\ \A r \in Requests : stage'[r] # "loading"
        /\ Inside' \subseteq Inside
    BY <1>0, <2>1, LoopShape DEF Inside
  <2>3. Quiet' = Quiet
    BY <1>0, <2>2 DEF Quiet
  <2> QED
    BY <2>1, <2>2, <2>3, OrderStep DEF OrderInv
<1>3. ASSUME NEW ok \in BOOLEAN, Ends(t, ok), t # "loop"
      PROVE  OrderInv'
  <2>1. LifeContinues(ok) /\ t = "lifecycle" /\ loader'["loop"] = loader["loop"]
    BY <1>0, <1>3 DEF Ends
  <2>2. UNCHANGED <<stage, using>> /\ Inside' = Inside
    BY <1>0, <2>1, LifeShape DEF Inside
  <2>3. Advances
    BY <1>0, <2>1, OrderContinue DEF TypeInv, Aims
  <2> QED
    BY <2>1, <2>2, <2>3, OrderStep DEF OrderInv, Advances
<1> QED
  BY <1>0, <1>1, <1>2, <1>3, MovesShape

LEMMA OrderAdvances ==
  ASSUME TypeInv, OrderInv, LifeNext
  PROVE  Advances
<1>0. CacheTypes /\ LifeAims
  BY DEF TypeInv, Aims
<1>1. life.step # "away" => shut
  BY DEF OrderInv
<1>2. LifeIs("away", "none", None, None, {}) => Advances
  BY DEF Advances, Quiet, LifeIs
<1>3. ASSUME NEW s, LifeAt(s), shut' = shut, behind' = behind,
             life.step \notin {"away", "draining"}
      PROVE  Advances
  BY <1>1, <1>3 DEF Advances, Quiet, LifeIs, LifeAt
<1>4. ASSUME NEW why \in {"lease", "training", "rollback"}, Shuts(why)
      PROVE  Advances
  BY <1>0, <1>4, ShutsShape DEF Advances, Quiet, LifeIs
<1>5. CASE Stops
  <2>1. CASE LifeAt("stopped") /\ UNCHANGED <<registry, shut, condemned>>
    BY <1>0, <1>1, <1>5, <2>1, StopsShape DEF Advances, LifeIs, LifeAt
  <2> QED
    BY <1>0, <1>2, <1>5, <2>1, StopsShape, RecoversAdvances
<1>6. CASE RollsBack
  BY <1>0, <1>1, <1>6, RollsBackShape DEF Advances, LifeIs
<1>7. CASE DrainTimesOut
  <2>1. CASE Recovers("running") /\ behind' = behind \cup {"undrained"}
    BY <1>0, <1>7, <2>1, DrainTimesOutShape, RecoversAdvances
  <2> QED
    BY <1>0, <1>2, <1>7, <2>1, DrainTimesOutShape
<1>8. CASE LeaseEnds \/ Completes
  BY <1>0, <1>2, <1>8, LeaseEndsShape, CompletesShape
<1>9. CASE TrainerReports
  <2>1. /\ life.step = "stopped" /\ life.why = "training" /\ shut' = shut
        /\ life'.why \in {"training", "refresh"}
    BY <1>0, <1>9, TrainerReportsShape DEF LifeIs
  <2> QED
    BY <1>1, <2>1 DEF Advances, Quiet
<1>10. CASE TrainerFails \/ RegistersNot \/ EvaluationRaises
  BY <1>0, <1>10, FailsShape, RecoversAdvances DEF LifeAims
<1>11. CASE Lists
  BY <1>0, <1>3, <1>11, ListsShape
<1>12. CASE ListsInVain
  BY <1>0, <1>2, <1>12, ListsInVainShape, RecoversAdvances
<1>13. CASE Overwrites
  <2>1. /\ life.step = "listed"
        /\ behind' = IF life.why = "running" THEN behind ELSE {}
    BY <1>0, <1>13, OverwritesShape
  <2>2. ASSUME NEW s, LifeAt(s), shut' = shut PROVE Advances
    BY <1>1, <2>1, <2>2 DEF Advances, Quiet, LifeIs, LifeAt
  <2>3. ASSUME life.why \in {"training", "promoted"}, shut' = shut PROVE Advances
    BY <1>1, <2>1, <2>3 DEF Advances, Quiet
  <2> QED
    BY <1>0, <1>2, <1>13, <2>2, <2>3, OverwritesShape
<1>14. CASE Registers
  <2>1. life.step = "next" /\ life.why = "training" /\ shut' = shut
    BY <1>0, <1>14, RegistersShape DEF LifeAims
  <2> QED
    BY <1>1, <2>1 DEF Advances, Quiet
<1>15. CASE Asks
  BY <1>1, <1>15, AsksShape DEF Advances, Quiet
<1>16. CASE Promotes \/ Rejects
  <2>1. life.step = "judging" /\ life.why = "training" /\ shut' = shut
    BY <1>0, <1>16, PromotesShape, RejectsShape DEF LifeAims
  <2> QED
    BY <1>1, <2>1 DEF Advances, Quiet
<1>17. CASE Probes
  <2>1. life.step = "probing" /\ life.why = "rollback" /\ shut
    BY <1>0, <1>1, <1>17, ProbesShape DEF LifeAims
  <2>2. CASE RestoresAliases
    BY <1>0, <2>1, <2>2, RestoresShape DEF Advances, Quiet, LifeIs, LifeAt
  <2> QED
    BY <1>0, <1>2, <1>17, <2>2, ProbesShape
<1> QED
  BY <1>4, <1>5, <1>6, <1>7, <1>8, <1>9, <1>10, <1>11, <1>12, <1>13, <1>14,
     <1>15, <1>16, <1>17 DEF LifeNext

LEMMA OrderLife ==
  ASSUME TypeInv, OrderInv, LifeNext
  PROVE  OrderInv'
<1>1. UNCHANGED <<stage, using>> /\ loader'["loop"] = loader["loop"]
  BY LifeRest, LifeAlone, AsksShape
<1>2. Inside' = Inside
  BY <1>1 DEF Inside
<1> QED
  BY <1>1, <1>2, OrderAdvances, OrderStep DEF OrderInv, Advances

LEMMA OrderNext ==
  ASSUME TypeInv, OrderInv, [Next]_vars
  PROVE  OrderInv'
<1> USE DEF controllerVars, requestVars, lifeVars
<1>0. CacheTypes
  BY DEF TypeInv
<1>1. CASE RouteNext \/ UNCHANGED vars
  <2>1. UNCHANGED <<stage, using, loader, shut, life, behind>>
    BY <1>1 DEF RouteNext, CreateRoute, Expires, vars
  <2> QED
    BY <2>1 DEF OrderInv, Quiet, Inside
<1>2. ASSUME NEW r \in Requests,
             \/ \E id \in RouteIds : Resolves(r, id)
             \/ Dispatches(r)
             \/ Leaves(r)
      PROVE  OrderInv'
  <2>1. /\ UNCHANGED <<loader, shut, life, behind>>
        /\ loader["loop"].step = "idle"
        /\ \A x \in Requests \ {r} : stage'[x] = stage[x] /\ using'[x] = using[x]
        /\ stage'[r] \in {"waiting", "out"} \/ (stage[r] = "ready" /\ stage'[r] = "sent")
    BY <1>0, <1>2 DEF Resolves, Dispatches, Leaves, LoopFree, CacheTypes
  <2>2. Inside' \subseteq Inside /\ Quiet' = Quiet
    BY <2>1 DEF Inside, Quiet
  <2> QED
    BY <2>1, <2>2, OrderStep DEF OrderInv
<1>3. ASSUME NEW r \in Requests, Enters(r)
      PROVE  OrderInv'
  <2>1. /\ UNCHANGED <<shut, life, behind>>
        /\ loader["loop"].step = "idle"
        /\ \A x \in Requests \ {r} : stage'[x] = stage[x] /\ using'[x] = using[x]
        /\ \A x \in Requests : stage[x] # "loading"
    BY <1>0, <1>3 DEF Enters, LoopFree, CacheTypes, OrderInv
  <2>2. CASE shut
    <3>1. stage'[r] = "out" /\ loader' = loader
      BY <1>0, <1>3, <2>2 DEF Enters, CacheTypes
    <3>2. Inside' \subseteq Inside /\ Quiet' = Quiet
      BY <2>1, <3>1 DEF Inside, Quiet
    <3> QED
      BY <2>1, <3>1, <3>2, OrderStep DEF OrderInv
  <2>3. CASE ~shut
    <3>1. life.step = "away" /\ ~Quiet /\ ~Quiet'
      BY <2>1, <2>3 DEF OrderInv, Quiet
    <3>2. CASE loader' = loader
      <4>1. stage'[r] = "ready"
        BY <1>0, <1>3, <2>1, <2>3, <3>2, EntersLoads DEF Enters, CacheTypes, Idle, Threads
      <4>2. \A x \in Requests : stage'[x] # "loading"
        BY <2>1, <4>1
      <4> QED
        BY <2>1, <3>1, <3>2, <4>2 DEF OrderInv
    <3>3. CASE loader' # loader
      <4>1. /\ stage'[r] = "loading" /\ using' = using
            /\ loader'["loop"].step = "looking" /\ loader'["loop"].want = using[r].adapter
        BY <1>0, <1>3, <3>3, EntersLoads DEF CacheTypes
      <4> QED
        BY <2>1, <3>1, <4>1 DEF OrderInv
    <3> QED
      BY <3>2, <3>3
  <2> QED
    BY <2>2, <2>3
<1>4. CASE LifeNext
  BY <1>4, OrderLife
<1>5. ASSUME NEW t \in Threads, Moves(t) PROVE OrderInv'
  BY <1>5, OrderMoves
<1> QED
  BY <1>1, <1>2, <1>3, <1>4, <1>5 DEF Next, RequestNext, LoaderNext, Moves

LEMMA OrderInit == Init => OrderInv
<1> SUFFICES ASSUME Init PROVE OrderInv
  OBVIOUS
<1>1. /\ life.step = "away"
      /\ \A r \in Requests : stage[r] = "out"
      /\ loader["loop"].step = "idle"
  BY DEF Init, Away, Idle, Threads
<1> QED
  BY <1>1 DEF OrderInv, Quiet

-----------------------------------------------------------------------------
(***************************************************************************)
(* A request's route stays its own: nobody takes the id while the request  *)
(* holds it.  So an adapter that no route pins when its unloading is begun *)
(* is pinned for no request when vLLM drops it: while the loop unloads it  *)
(* lets nobody in, while the lifecycle does the gate is shut, and new      *)
(* routes are nobody's yet.                                                *)
(***************************************************************************)
OwnRoute(r) ==
  /\ using[r].route \in RouteIds
  /\ pins[using[r].route] \in {using[r].adapter, "gone"}

Uses(r, a) ==
  /\ r \in Inside /\ using[r].adapter = a
  /\ pins[using[r].route] = a

UseInv ==
  /\ \A r \in Requests : stage[r] # "out" => OwnRoute(r)
  /\ \A t \in Threads :
       /\ loader[t].step \in {"unloading", "dropping"} => loader[t].victim \in Adapters
       /\ loader[t].step = "dropping" =>
            \A r \in Requests : ~Uses(r, loader[t].victim)

\* No request enters, no thread begins to drop, and a route that a request
\* holds changes only by expiring.
LEMMA UseStep ==
  ASSUME UseInv,
         \A r \in Requests : stage'[r] # "out" =>
           /\ stage[r] # "out" /\ using'[r] = using[r]
           /\ pins'[using[r].route] \in {pins[using[r].route], "gone"},
         Inside' \subseteq Inside,
         \A t \in Threads : loader'[t].step \in {"unloading", "dropping"} =>
           loader'[t].step = loader[t].step /\ loader'[t].victim = loader[t].victim
  PROVE  UseInv'
<1>1. ASSUME NEW r \in Requests, stage'[r] # "out" PROVE OwnRoute(r)'
  BY <1>1 DEF UseInv, OwnRoute
<1>2. ASSUME NEW r \in Requests, NEW a \in Adapters, Uses(r, a)'
      PROVE  Uses(r, a)
  <2>1. r \in Inside' /\ r \in Inside /\ stage'[r] # "out"
    BY <1>2 DEF Uses, Inside
  <2> QED
    BY <1>2, <2>1, CacheConstantsOK DEF Uses
<1> QED
  BY <1>1, <1>2 DEF UseInv

LEMMA UseRoutes ==
  ASSUME CacheTypes, UseInv, RouteNext
  PROVE  UseInv'
<1> USE DEF controllerVars, requestVars
<1>1. UNCHANGED <<loader, stage, using>>
  BY DEF RouteNext, CreateRoute, Expires
<1>2. ASSUME NEW r \in Requests, stage[r] # "out"
      PROVE  pins'[using[r].route] \in {pins[using[r].route], "gone"}
  <2>1. using[r].route \in RouteIds
    BY <1>2 DEF UseInv, OwnRoute
  <2>2. ASSUME NEW id \in RouteIds, NEW a \in Adapters \cup {None}, CreateRoute(id, a)
        PROVE  pins'[using[r].route] = pins[using[r].route]
    BY <2>1, <2>2 DEF CreateRoute, CacheTypes
  <2>3. ASSUME NEW id \in RouteIds, Expires(id)
        PROVE  pins'[using[r].route] \in {pins[using[r].route], "gone"}
    BY <2>1, <2>3 DEF Expires, CacheTypes
  <2> QED
    BY <2>2, <2>3 DEF RouteNext
<1>3. Inside' = Inside
  BY <1>1 DEF Inside
<1> QED
  BY <1>1, <1>2, <1>3, UseStep

\* Who comes in passes the gate, and the loop is free.
LEMMA UseEnters ==
  ASSUME TypeInv, OrderInv, UseInv, NEW r \in Requests, Enters(r), ~shut
  PROVE  UseInv'
<1>0. CacheTypes
  BY DEF TypeInv
<1>1. \A t \in Threads : loader[t].step = "idle"
  BY DEF TypeInv, Aims, OrderInv, Enters, LoopFree, Threads
<1>2. \A t \in Threads : loader'[t].step \notin {"unloading", "dropping"}
  BY <1>0, <1>1, EntersLoads DEF Threads
<1>3. UNCHANGED <<pins, using>> /\ \A x \in Requests : stage'[x] # "out" => stage[x] # "out"
  BY <1>0 DEF Enters, CacheTypes
<1> QED
  BY <1>2, <1>3 DEF UseInv, OwnRoute

LEMMA UseRequests ==
  ASSUME TypeInv, OrderInv, UseInv, RequestNext
  PROVE  UseInv'
<1> USE DEF controllerVars, lifeVars
<1>0. CacheTypes /\ pins' = pins
  BY DEF TypeInv, RequestNext, Resolves, Enters, Dispatches, Leaves
<1>1. ASSUME NEW r \in Requests, Enters(r), ~shut PROVE UseInv'
  BY <1>1, UseEnters
<1>2. ASSUME NEW r \in Requests,
             (Enters(r) /\ shut) \/ Dispatches(r) \/ Leaves(r)
      PROVE  UseInv'
  <2>1. /\ loader' = loader
        /\ \A x \in Requests : stage'[x] # "out" => stage[x] # "out" /\ using'[x] = using[x]
    BY <1>0, <1>2 DEF Enters, Dispatches, Leaves, CacheTypes
  <2>2. Inside' \subseteq Inside
    BY <1>0, <1>2 DEF Enters, Dispatches, Leaves, CacheTypes, Inside
  <2> QED
    BY <1>0, <2>1, <2>2, UseStep
<1>3. ASSUME NEW r \in Requests, NEW id \in RouteIds, Resolves(r, id)
      PROVE  UseInv'
  <2>1. /\ loader' = loader
        /\ using'[r] = [route |-> id, adapter |-> pins[id]]
        /\ stage'[r] = "waiting"
        /\ \A x \in Requests \ {r} : using'[x] = using[x] /\ stage'[x] = stage[x]
    BY <1>0, <1>3 DEF Resolves, CacheTypes
  <2>2. using'[r].route = id /\ using'[r].adapter = pins[id]
    BY <2>1
  <2>3. \A x \in Requests : stage'[x] # "out" => OwnRoute(x)'
    BY <1>0, <2>1, <2>2 DEF UseInv, OwnRoute
  <2>4. ASSUME NEW x \in Requests, NEW a, Uses(x, a)' PROVE Uses(x, a)
    <3>1. x # r
      BY <2>1, <2>4 DEF Uses, Inside
    <3> QED
      BY <1>0, <2>1, <2>4, <3>1 DEF Uses, Inside
  <2> QED
    BY <2>1, <2>3, <2>4 DEF UseInv
<1> QED
  BY <1>1, <1>2, <1>3 DEF RequestNext

LEMMA UseLife ==
  ASSUME TypeInv, UseInv, LifeNext
  PROVE  UseInv'
<1>1. UNCHANGED <<pins, stage, using>>
  BY LifeRest
<1>2. \A t \in Threads : loader'[t] = loader[t] \/ loader'[t].step = "looking"
  BY LifeAlone, AsksShape DEF Threads
<1>3. Inside' = Inside
  BY <1>1 DEF Inside
<1> QED
  BY <1>1, <1>2, <1>3, UseStep

LEMMA UseMoves ==
  ASSUME CacheTypes, UseInv, NEW t \in Threads, Moves(t)
  PROVE  UseInv'
<1>0. pins' = pins /\ \A u \in Threads \ {t} : loader'[u] = loader[u]
  BY MovesShape
<1>1. /\ \A r \in Requests : stage'[r] # "out" => stage[r] # "out" /\ using'[r] = using[r]
      /\ Inside' \subseteq Inside
  <2>1. ASSUME NEW s, GoesOn(t, s)
        PROVE  UNCHANGED <<stage, using>> /\ Inside' = Inside
    BY <2>1 DEF GoesOn, Inside
  <2>2. ASSUME NEW ok \in BOOLEAN, LoopContinues(ok)
        PROVE  /\ \A r \in Requests : stage'[r] # "out" =>
                    stage[r] # "out" /\ using'[r] = using[r]
               /\ Inside' \subseteq Inside
    <3>1. \A r \in Requests : stage'[r] # "out" => stage[r] # "out" /\ using'[r] = using[r]
      BY <2>2, LoopShape DEF CacheTypes
    <3>2. Inside' \subseteq Inside
      BY <2>2, LoopShape DEF CacheTypes, Inside
    <3> QED
      BY <3>1, <3>2
  <2>3. ASSUME NEW ok \in BOOLEAN, LifeContinues(ok)
        PROVE  UNCHANGED <<stage, using>> /\ Inside' = Inside
    BY <2>3, LifeShape DEF Inside
  <2> QED
    BY <2>1, <2>2, <2>3, MovesShape DEF Ends
<1>2. CASE loader'[t].step \notin {"unloading", "dropping"}
  BY <1>0, <1>1, <1>2, UseStep
<1>3. CASE loader'[t].step = "unloading"
  <2>1. Evicts(t) /\ loader'[t].victim \in cached
    BY <1>3, LooksShape, EvictsShape, UnloadsShape, DropsShape, PopsShape, LoadsShape,
       NotesShape DEF Moves, GoesOn, Ends
  <2>2. ASSUME NEW r \in Requests, stage'[r] # "out" PROVE OwnRoute(r)'
    BY <1>0, <1>1, <2>2 DEF UseInv, OwnRoute
  <2>3. ASSUME NEW r \in Requests, NEW a, Uses(r, a)' PROVE Uses(r, a)
    BY <1>0, <1>1, <2>3 DEF Uses, Inside
  <2> QED
    BY <1>0, <1>3, <2>1, <2>2, <2>3 DEF UseInv, CacheTypes
<1>4. CASE loader'[t].step = "dropping"
  <2>1. /\ loader[t].step = "unloading" /\ loader[t].victim \notin Pinned
        /\ loader'[t].victim = loader[t].victim
    BY <1>4, LooksShape, EvictsShape, UnloadsShape, DropsShape, PopsShape, LoadsShape,
       NotesShape DEF Moves, GoesOn, Ends
  <2>2. ASSUME NEW r \in Requests, stage'[r] # "out" PROVE OwnRoute(r)'
    BY <1>0, <1>1, <2>2 DEF UseInv, OwnRoute
  <2>3. ASSUME NEW r \in Requests, NEW a, Uses(r, a)' PROVE Uses(r, a)
    BY <1>0, <1>1, <2>3 DEF Uses, Inside
  <2>4. loader[t].victim \in Adapters
    BY <2>1 DEF UseInv
  <2>5. ASSUME NEW r \in Requests PROVE ~Uses(r, loader[t].victim)
    BY <2>1, <2>4 DEF UseInv, Uses, Inside, OwnRoute, Pinned
  <2> QED
    BY <1>0, <1>4, <2>1, <2>2, <2>3, <2>4, <2>5 DEF UseInv
<1> QED
  BY <1>2, <1>3, <1>4

LEMMA UseNext ==
  ASSUME TypeInv, OrderInv, UseInv, [Next]_vars
  PROVE  UseInv'
<1>1. CASE UNCHANGED vars
  BY <1>1 DEF vars, controllerVars, requestVars, UseInv, OwnRoute, Uses, Inside
<1>2. CASE RouteNext \/ RequestNext \/ LifeNext
  BY <1>2, UseRoutes, UseRequests, UseLife DEF TypeInv
<1>3. ASSUME NEW t \in Threads, Moves(t) PROVE UseInv'
  BY <1>3, UseMoves DEF TypeInv
<1> QED
  BY <1>1, <1>2, <1>3 DEF Next, LoaderNext, Moves

\* vLLM loses an adapter by being stopped, which waits for everyone inside, or
\* because a thread drops it.
LEMMA EngineLoses ==
  ASSUME TypeInv, [Next]_vars, NEW a \in engine \ engine'
  PROVE  \/ Inside = {}
         \/ \E t \in Threads : loader[t].step = "dropping" /\ loader[t].victim = a
<1> USE DEF controllerVars, lifeVars
<1>0. CacheTypes
  BY DEF TypeInv
<1>1. CASE RouteNext \/ RequestNext \/ UNCHANGED vars
  BY <1>1 DEF RouteNext, RequestNext, CreateRoute, Expires, Resolves, Enters,
              Dispatches, Leaves, vars
<1>2. CASE LifeNext
  <2>1. CASE Stops
    BY <2>1 DEF Stops
  <2>2. CASE ~Stops
    BY <1>2, <2>2 DEF LifeNext, Shuts, RollsBack, DrainTimesOut, LeaseEnds,
       TrainerReports, TrainerFails, Lists, ListsInVain, Overwrites, Registers,
       RegistersNot, Completes, Asks, Promotes, Rejects, EvaluationRaises, Probes
  <2> QED
    BY <2>1, <2>2
<1>3. ASSUME NEW t \in Threads, Moves(t)
      PROVE  loader[t].step = "dropping" /\ loader[t].victim = a
  BY <1>0, <1>3, LooksShape, EvictsShape, UnloadsShape, DropsShape, PopsShape,
     LoadsShape, NotesShape DEF Moves
<1> QED
  BY <1>1, <1>2, <1>3 DEF Next, LoaderNext, Moves

LEMMA UseInit == Init => UseInv
BY DEF Init, UseInv, Idle, Threads

(***************************************************************************)
(* vLLM does not lose the adapter of a request that is on its way and      *)
(* whose route lives.                                                      *)
(***************************************************************************)
THEOREM InUseTheorem == Spec => InUseStays
<1>2. TypeInv /\ [Next]_vars => TypeInv'
  BY TypeNext
<1>3. TypeInv /\ OrderInv /\ [Next]_vars => OrderInv'
  BY OrderNext
<1>4. TypeInv /\ OrderInv /\ UseInv /\ [Next]_vars => UseInv'
  BY UseNext
<1>5. TypeInv /\ UseInv /\ [Next]_vars =>
        [\A r \in Requests :
           stage[r] \in {"ready", "sent"} /\ using[r].adapter \in engine \ engine'
           => Ended(r)]_vars
  <2> SUFFICES ASSUME TypeInv, UseInv, [Next]_vars, NEW r \in Requests,
                      stage[r] \in {"ready", "sent"},
                      using[r].adapter \in engine \ engine'
               PROVE  Ended(r)
    OBVIOUS
  <2>1. r \in Inside
    BY DEF Inside
  <2>2. PICK t \in Threads :
          loader[t].step = "dropping" /\ loader[t].victim = using[r].adapter
    BY <2>1, EngineLoses
  <2> QED
    BY <2>1, <2>2 DEF UseInv, Uses, Ended
<1> QED
  BY <1>2, <1>3, <1>4, <1>5, TypeInit, OrderInit, UseInit, PTL DEF Spec, InUseStays

-----------------------------------------------------------------------------
(***************************************************************************)
(* The cache is bounded.  While only one thread loads, and nothing was     *)
(* loaded that it was not told of, the room it found is there when it      *)
(* notes its adapter, and vLLM has what the cache has, at most; so the     *)
(* list that overwrites the cache is no longer than it was.  An adapter    *)
(* whose load went unheard had its room, and the next list counts it.      *)
(***************************************************************************)
Clean == behind \cap {"undrained", "loaded"} = {}

Noting == {loader[t].want : t \in {u \in Threads : loader[u].step = "noting"}}

Roomy(t) ==
  /\ loader[t].step \in {"loading", "noting"} => Cardinality(cached) < MaxCpuLoras
  /\ loader[t].step \in {"unloading", "dropping", "popping"} =>
       loader[t].victim \in cached
  /\ loader[t].step = "popping" => loader[t].victim \notin engine
  /\ loader[t].step \in {"evicting", "unloading", "dropping", "popping", "loading"} =>
       loader[t].want \notin cached

KnownInv ==
  /\ engine \subseteq Known(registry)
  /\ \A t \in Threads : loader[t].step \notin {"idle", "looking"} =>
       loader[t].want \in Known(registry)

\* What a list will show.
Listable ==
  /\ life.step = "stopped" => engine = {}
  /\ life.why # "running" /\ life.step \in {"listing", "listed"} =>
       Cardinality(engine) <= MaxCpuLoras
  /\ life.why = "training" /\ life.step \in {"next", "current", "candidate", "judging"} =>
       Clean
  /\ life.step = "listed" /\ Quiet => life.upstream = engine

Room ==
  /\ Cardinality(cached) <= MaxCpuLoras
  /\ \A t \in Threads : Roomy(t)
  /\ engine \subseteq cached \cup Noting

SizeInv ==
  /\ KnownInv
  /\ Clean => Room
  /\ Listable

\* Registered adapters stay registered.
LEMMA KnownRecovers ==
  ASSUME CacheTypes, NEW why \in Reasons, Recovers(why)
  PROVE  Known(registry) \subseteq Known(registry')
BY RecoversShape DEF Known

LEMMA KnownContinues ==
  ASSUME CacheTypes, NEW ok \in BOOLEAN, LifeContinues(ok)
  PROVE  Known(registry) \subseteq Known(registry')
BY LifeShape, RestoresShape, KnownRecovers, StepNames DEF Known

LEMMA KnownLife ==
  ASSUME TypeInv, LifeNext
  PROVE  Known(registry) \subseteq Known(registry')
<1>0. CacheTypes /\ LifeAims
  BY DEF TypeInv, Aims
<1>1. CASE \/ \E why \in {"lease", "training", "rollback"} : Shuts(why)
           \/ LeaseEnds \/ Lists \/ Overwrites \/ Completes \/ Asks
  BY <1>1 DEF Shuts, LeaseEnds, Lists, Overwrites, Completes, Asks
<1>2. CASE Stops \/ DrainTimesOut \/ ListsInVain \/ TrainerFails \/ RegistersNot
           \/ EvaluationRaises
  BY <1>0, <1>2, StopsShape, DrainTimesOutShape, ListsInVainShape, FailsShape,
     KnownRecovers, StepNames
<1>3. CASE RollsBack \/ Probes
  BY <1>0, <1>3, RollsBackShape, ProbesShape, RestoresShape DEF Known
<1>4. CASE TrainerReports \/ Registers
  <2>1. ASSUME NEW a \in Adapters, registry' = AddAdapter(registry, a)
        PROVE  Known(registry) \subseteq Known(registry')
    BY <1>0, <2>1, StatusAfter DEF Known
  <2> QED
    BY <1>0, <1>4, <2>1, TrainerReportsShape, RegistersShape, LifeFields
<1>5. CASE Promotes \/ Rejects
  <2>1. life.candidate \in Adapters
    BY <1>0, <1>5, PromotesShape, RejectsShape DEF LifeAims
  <2> QED
    BY <1>0, <1>5, <2>1, PromotesShape, RejectsShape, StatusAfter DEF Known
<1> QED
  BY <1>1, <1>2, <1>3, <1>4, <1>5 DEF LifeNext

LEMMA CachedFinite ==
  ASSUME CacheTypes
  PROVE  /\ IsFiniteSet(cached) /\ IsFiniteSet(engine)
         /\ Cardinality(cached) \in Nat /\ Cardinality(engine) \in Nat
         /\ \A S \in SUBSET cached : Cardinality(S) <= Cardinality(cached)
         /\ \A a \in cached : Cardinality(cached \ {a}) = Cardinality(cached) - 1
         /\ \A a : Cardinality(cached \cup {a}) <= Cardinality(cached) + 1
<1>1. IsFiniteSet(cached) /\ IsFiniteSet(engine)
  BY CacheConstantsOK, FS_Subset DEF CacheTypes
<1>2. Cardinality(cached) \in Nat /\ Cardinality(engine) \in Nat
  BY <1>1, FS_CardinalityType
<1>3. \A S \in SUBSET cached : Cardinality(S) <= Cardinality(cached)
  BY <1>1, FS_Subset
<1>4. \A a \in cached : Cardinality(cached \ {a}) = Cardinality(cached) - 1
  BY <1>1, FS_RemoveElement
<1>5. \A a : Cardinality(cached \cup {a}) <= Cardinality(cached) + 1
  <2> TAKE a
  <2>1. Cardinality(cached \cup {a}) =
          IF a \in cached THEN Cardinality(cached) ELSE Cardinality(cached) + 1
    BY <1>1, FS_AddElement
  <2> QED
    BY <1>2, <2>1
<1> QED
  BY <1>1, <1>2, <1>3, <1>4, <1>5

LEMMA KnownMoves ==
  ASSUME TypeInv, KnownInv, NEW t \in Threads, Moves(t)
  PROVE  KnownInv'
<1>0. /\ CacheTypes /\ Known(registry) \subseteq Known(registry')
      /\ loader[t].want \in Adapters /\ loader[t].step # "idle"
      /\ \A u \in Threads \ {t} : loader'[u] = loader[u]
  BY MovesLife, KnownContinues, MovesShape DEF TypeInv, Aims
<1>1. CASE Looks(t)
  <2>1. /\ engine' = engine
        /\ \/ loader'[t].step = "idle"
           \/ Loadable(registry, loader[t].want) /\ loader'[t].want = loader[t].want
    BY <1>0, <1>1, LooksShape DEF GoesOn, Ends
  <2> QED
    BY <1>0, <2>1 DEF KnownInv, Loadable, Known
<1>2. CASE ~Looks(t)
  <2>1. loader[t].step \notin {"idle", "looking"}
    BY <1>2 DEF Moves, Evicts, Unloads, Drops, Pops, Loads, Notes
  <2>2. loader[t].want \in Known(registry)
    BY <2>1 DEF KnownInv
  <2>3. engine' \subseteq engine \cup {loader[t].want}
    BY <1>2 DEF Moves, Evicts, Unloads, Drops, Pops, Loads, Notes
  <2>4. loader'[t].step # "idle" => loader'[t].want = loader[t].want
    BY <1>0, MovesLoader
  <2> QED
    BY <1>0, <2>1, <2>2, <2>3, <2>4 DEF KnownInv
<1> QED
  BY <1>1, <1>2

\* Room, for the one thread that is at work.
LEMMA RoomMoves ==
  ASSUME TypeInv, OrderInv, SizeInv, Clean, NEW t \in Threads, Moves(t)
  PROVE  /\ Clean' => Room'
         /\ loader[t].step = "loading" => Cardinality(cached) < MaxCpuLoras
         /\ loader'[t].step = "idle" /\ loader[t].step # "noting" =>
              Cardinality(engine') <= MaxCpuLoras
<1>0. CacheTypes /\ loader[t].step # "idle" /\ MaxCpuLoras \in Nat
  BY MovesShape, CacheConstantsOK DEF TypeInv
<1>1. \A u \in Threads \ {t} : loader'[u] = loader[u] /\ loader[u].step = "idle"
  BY <1>0, Alone, MovesShape DEF Clean
<1>2. \A u \in Threads \ {t} : Roomy(u)'
  BY <1>1 DEF Roomy
<1>3. Noting = IF loader[t].step = "noting" THEN {loader[t].want} ELSE {}
  BY <1>1 DEF Noting
<1>4. Noting' = IF loader'[t].step = "noting" THEN {loader'[t].want} ELSE {}
  BY <1>1 DEF Noting
<1>5. /\ Cardinality(cached) \in Nat /\ Cardinality(cached) <= MaxCpuLoras
      /\ Cardinality(engine) \in Nat
      /\ Roomy(t) /\ engine \subseteq cached \cup Noting
  BY <1>0, CachedFinite DEF SizeInv, Room
<1>6. loader[t].step # "noting" => Cardinality(engine) <= MaxCpuLoras
  <2> SUFFICES ASSUME loader[t].step # "noting" PROVE Cardinality(engine) <= MaxCpuLoras
    OBVIOUS
  <2>1. engine \subseteq cached
    BY <1>3, <1>5
  <2>2. Cardinality(engine) <= Cardinality(cached)
    BY <1>0, <2>1, CachedFinite
  <2> QED
    BY <1>0, <1>5, <2>2
<1>7. ASSUME cached' = cached, engine' = engine,
             loader[t].step # "noting", loader'[t].step # "noting", Roomy(t)'
      PROVE  Room' /\ Cardinality(engine') <= MaxCpuLoras
  BY <1>2, <1>3, <1>4, <1>5, <1>6, <1>7 DEF Room
<1>8. loader'[t].step # "noting" /\ Room' /\ loader[t].step # "noting" =>
        Cardinality(engine') <= MaxCpuLoras
  <2> SUFFICES ASSUME loader'[t].step # "noting", Room'
               PROVE  Cardinality(engine') <= MaxCpuLoras
    OBVIOUS
  <2>1. CacheTypes'
    BY TypeNext DEF Next, LoaderNext, Moves, TypeInv
  <2>2. engine' \subseteq cached' /\ Cardinality(cached') <= MaxCpuLoras
    BY <1>4 DEF Room
  <2>3. /\ IsFiniteSet(cached') /\ Cardinality(cached') \in Nat
        /\ IsFiniteSet(engine') /\ Cardinality(engine') \in Nat
    BY <2>1, CacheConstantsOK, FS_Subset, FS_CardinalityType DEF CacheTypes
  <2>4. Cardinality(engine') <= Cardinality(cached')
    BY <2>2, <2>3, FS_Subset
  <2> QED
    BY <1>0, <2>2, <2>3, <2>4
<1>9. CASE Looks(t)
  <2>1. /\ cached' = cached /\ engine' = engine /\ loader[t].step = "looking"
        /\ \/ loader'[t].step = "idle"
           \/ /\ loader'[t].step = "evicting" /\ loader'[t].want = loader[t].want
              /\ loader[t].want \notin cached
    BY <1>0, <1>9, LooksShape DEF GoesOn, Ends
  <2>2. Roomy(t)'
    BY <2>1 DEF Roomy
  <2> QED
    BY <1>7, <2>1, <2>2
<1>10. CASE Evicts(t)
  <2>1. /\ cached' = cached /\ engine' = engine /\ loader[t].step = "evicting"
        /\ \/ loader'[t].step = "idle"
           \/ /\ loader'[t].step = "loading" /\ loader'[t].want = loader[t].want
              /\ HasRoom \/ loader[t].want \in cached
           \/ /\ loader'[t].step = "unloading" /\ loader'[t].want = loader[t].want
              /\ loader'[t].victim \in cached
    BY <1>0, <1>10, EvictsShape DEF GoesOn, Ends
  <2>2. loader[t].want \notin cached
    BY <1>5, <2>1 DEF Roomy
  <2>3. Roomy(t)'
    BY <2>1, <2>2 DEF Roomy, HasRoom
  <2> QED
    BY <1>7, <2>1, <2>3
<1>11. CASE Unloads(t)
  <2>1. /\ cached' = cached /\ engine' = engine /\ loader[t].step = "unloading"
        /\ \/ loader'[t].step = "idle"
           \/ /\ loader'[t].step = "dropping" /\ loader'[t].want = loader[t].want
              /\ loader'[t].victim = loader[t].victim
    BY <1>0, <1>11, UnloadsShape DEF GoesOn, Ends
  <2>2. Roomy(t)'
    BY <1>5, <2>1 DEF Roomy
  <2> QED
    BY <1>7, <2>1, <2>2
<1>12. CASE Drops(t)
  <2>0. cached' = cached /\ loader[t].step = "dropping"
    BY <1>0, <1>12, DropsShape
  <2>1. /\ engine' \subseteq engine
        /\ \/ loader'[t].step = "idle"
           \/ /\ loader'[t].step = "popping" /\ loader'[t].want = loader[t].want
              /\ loader'[t].victim = loader[t].victim
              /\ engine' = engine \ {loader[t].victim}
    <3>1. ASSUME GoesOn(t, "popping")
          PROVE  loader'[t].step = "popping" /\ loader'[t].want = loader[t].want
      BY <3>1 DEF GoesOn
    <3>2. ASSUME Ends(t, FALSE)
          PROVE  loader'[t].step = "idle"
      BY <3>2 DEF Ends
    <3> QED
      BY <1>0, <1>12, <3>1, <3>2, DropsShape
  <2>2. Roomy(t)'
    BY <1>5, <2>0, <2>1 DEF Roomy
  <2>3. Room'
    BY <1>2, <1>3, <1>4, <1>5, <2>0, <2>1, <2>2 DEF Room
  <2> QED
    BY <1>8, <2>0, <2>3
<1>13. CASE Pops(t)
  <2>1. /\ cached' = cached \ {loader[t].victim} /\ engine' = engine
        /\ loader[t].step = "popping" /\ loader'[t].step = "loading"
        /\ loader'[t].want = loader[t].want
    BY <1>0, <1>13, PopsShape DEF GoesOn
  <2>2. loader[t].victim \in cached /\ loader[t].victim \notin engine
        /\ loader[t].want \notin cached
    BY <1>5, <2>1 DEF Roomy
  <2>3. Cardinality(cached') = Cardinality(cached) - 1
    BY <1>0, <2>1, <2>2, CachedFinite
  <2>4. Cardinality(cached') < MaxCpuLoras /\ Cardinality(cached') <= MaxCpuLoras
    BY <1>0, <1>5, <2>3
  <2>5. Roomy(t)'
    BY <2>1, <2>2, <2>4 DEF Roomy
  <2>6. engine' \subseteq cached' \cup Noting'
    BY <1>3, <1>5, <2>1, <2>2
  <2> QED
    BY <1>2, <2>1, <2>4, <2>5, <2>6 DEF Room
<1>14. CASE Loads(t)
  <2>1. /\ cached' = cached /\ loader[t].step = "loading"
        /\ Cardinality(cached) < MaxCpuLoras
    BY <1>0, <1>5, <1>14, LoadsShape DEF Roomy
  <2>2. CASE loader'[t].step = "idle" /\ engine' = engine
    <3>1. Roomy(t)'
      BY <2>2 DEF Roomy
    <3> QED
      BY <1>7, <2>1, <2>2, <3>1
  <2>3. CASE loader'[t].step = "noting" /\ loader'[t].want = loader[t].want
               /\ engine' = engine \cup {loader[t].want}
    <3>1. Roomy(t)'
      BY <2>1, <2>3 DEF Roomy
    <3>2. engine' \subseteq cached' \cup Noting'
      BY <1>3, <1>4, <1>5, <2>1, <2>3
    <3> QED
      BY <1>2, <1>5, <2>1, <2>3, <3>1, <3>2 DEF Room
  <2>4. CASE loader'[t].step = "idle" /\ engine' = engine \cup {loader[t].want}
               /\ "loaded" \in behind'
    <3>1. engine \subseteq cached
      BY <1>3, <1>5, <2>1
    <3>2. Cardinality(engine) <= Cardinality(cached)
      BY <1>0, <3>1, CachedFinite
    <3>3. Cardinality(engine') <= Cardinality(engine) + 1
          /\ Cardinality(engine') \in Nat
      <4>1. IsFiniteSet(engine)
        BY <1>0, CachedFinite
      <4>2. Cardinality(engine') = IF loader[t].want \in engine THEN Cardinality(engine)
                                   ELSE Cardinality(engine) + 1
        BY <2>4, <4>1, FS_AddElement
      <4> QED
        BY <1>5, <4>2
    <3>4. Cardinality(engine') <= MaxCpuLoras
      BY <1>0, <1>5, <2>1, <3>2, <3>3
    <3> QED
      BY <2>1, <2>4, <3>4 DEF Clean
  <2>5. ASSUME GoesOn(t, "noting")
        PROVE  loader'[t].step = "noting" /\ loader'[t].want = loader[t].want
    BY <2>5 DEF GoesOn
  <2>6. ASSUME Ends(t, FALSE)
        PROVE  loader'[t].step = "idle"
    BY <2>6 DEF Ends
  <2> QED
    BY <1>0, <1>14, <2>2, <2>3, <2>4, <2>5, <2>6, LoadsShape
<1>15. CASE Notes(t)
  <2>1. /\ cached' = cached \cup {loader[t].want} /\ engine' = engine
        /\ loader[t].step = "noting" /\ loader'[t].step = "idle"
    BY <1>0, <1>15, NotesShape DEF Ends
  <2>2. Cardinality(cached') <= Cardinality(cached) + 1 /\ Cardinality(cached) < MaxCpuLoras
    BY <1>0, <1>5, <2>1, CachedFinite DEF Roomy
  <2>3. Cardinality(cached') \in Nat
    <3>1. IsFiniteSet(cached')
      BY <1>0, <2>1, CachedFinite, FS_AddElement
    <3> QED
      BY <3>1, FS_CardinalityType
  <2>4. Cardinality(cached') <= MaxCpuLoras
    BY <1>0, <1>5, <2>2, <2>3
  <2>5. Roomy(t)'
    BY <2>1 DEF Roomy
  <2>6. engine' \subseteq cached' \cup Noting'
    BY <1>3, <1>5, <2>1
  <2> QED
    BY <1>2, <2>1, <2>4, <2>5, <2>6 DEF Room
<1> QED
  BY <1>9, <1>10, <1>11, <1>12, <1>13, <1>14, <1>15 DEF Moves


\* What the operations leave alone: vLLM's adapters only go, and go all at once.
LEMMA LifeEngine ==
  ASSUME TypeInv, LifeNext
  PROVE  /\ engine' \in {engine, {}}
         /\ ~Stops => engine' = engine
         /\ ~Overwrites => cached' = cached /\ behind \subseteq behind'
<1>1. CASE Stops
  BY <1>1, StopsShape DEF TypeInv
<1>2. CASE ~Stops
  BY <1>2 DEF LifeNext, Shuts, RollsBack, DrainTimesOut, LeaseEnds, TrainerReports,
     TrainerFails, Lists, ListsInVain, Overwrites, Registers, RegistersNot, Completes,
     Asks, Promotes, Rejects, EvaluationRaises, Probes, controllerVars, lifeVars
<1>3. CASE Overwrites
  BY <1>3 DEF Overwrites
<1>4. CASE ~Overwrites /\ Stops
  BY <1>4, StopsShape DEF TypeInv
<1> QED
  BY <1>1, <1>2, <1>3, <1>4

\* A thread that was idle begins by looking.
LEMMA LoadersBegin ==
  ASSUME TypeInv, RequestNext \/ LifeNext
  PROVE  \A t \in Threads :
           \/ loader'[t] = loader[t]
           \/ loader[t].step = "idle" /\ loader'[t].step = "looking"
<1>1. ASSUME NEW r \in Requests, Enters(r), loader' # loader
      PROVE  \A t \in Threads :
               \/ loader'[t] = loader[t]
               \/ loader[t].step = "idle" /\ loader'[t].step = "looking"
  BY <1>1, EntersLoads DEF TypeInv, Threads
<1>2. ASSUME NEW r \in Requests,
             \/ \E id \in RouteIds : Resolves(r, id)
             \/ Dispatches(r)
             \/ Leaves(r)
      PROVE  loader' = loader
  BY <1>2 DEF Resolves, Dispatches, Leaves, controllerVars
<1>3. CASE Asks
  BY <1>3, AsksShape DEF Threads
<1>4. CASE LifeNext /\ ~Asks
  BY <1>4, LifeAlone
<1> QED
  BY <1>1, <1>2, <1>3, <1>4 DEF RequestNext

LEMMA RequestRest ==
  ASSUME RequestNext
  PROVE  UNCHANGED <<registry, pins, engine, cached, shut, life, behind, condemned>>
BY DEF RequestNext, Resolves, Enters, Dispatches, Leaves, controllerVars, lifeVars

LEMMA RouteRest ==
  ASSUME RouteNext
  PROVE  UNCHANGED <<registry, engine, cached, loader, stage, using, shut, life,
                     behind, condemned>>
BY DEF RouteNext, CreateRoute, Expires, controllerVars, requestVars, lifeVars

LEMMA KnownNext ==
  ASSUME TypeInv, KnownInv, [Next]_vars
  PROVE  KnownInv'
<1>1. CASE RouteNext
  BY <1>1, RouteRest DEF KnownInv
<1>2. CASE RequestNext
  BY <1>2, RequestRest, LoadersBegin DEF KnownInv
<1>3. CASE LifeNext
  BY <1>3, KnownLife, LifeEngine, LoadersBegin DEF KnownInv
<1>4. ASSUME NEW t \in Threads, Moves(t) PROVE KnownInv'
  BY <1>4, KnownMoves
<1>5. CASE UNCHANGED vars
  BY <1>5 DEF vars, controllerVars, KnownInv
<1> QED
  BY <1>1, <1>2, <1>3, <1>4, <1>5 DEF Next, LoaderNext, Moves

\* Room, while nobody moves.
LEMMA RoomRests ==
  ASSUME Room, cached' = cached, engine' \subseteq engine,
         \A t \in Threads : \/ loader'[t] = loader[t]
                            \/ loader[t].step = "idle" /\ loader'[t].step = "looking"
  PROVE  Room'
<1>1. \A t \in Threads : Roomy(t)'
  BY DEF Room, Roomy
<1>2. Noting \subseteq Noting'
  BY DEF Noting
<1> QED
  BY <1>1, <1>2 DEF Room

\* With nobody loading, and room, what vLLM has fits.
LEMMA EngineFits ==
  ASSUME CacheTypes, Room, \A t \in Threads : loader[t].step = "idle"
  PROVE  engine \subseteq cached /\ Cardinality(engine) <= MaxCpuLoras
<1>1. engine \subseteq cached
  BY DEF Room, Noting
<1> QED
  BY <1>1, CachedFinite, CacheConstantsOK DEF Room

LEMMA ListableMoves ==
  ASSUME TypeInv, OrderInv, SizeInv, NEW t \in Threads, Moves(t)
  PROVE  Listable'
<1>0. /\ CacheTypes /\ LifeAims /\ loader[t].step # "idle"
      /\ behind \subseteq behind' /\ behind' \subseteq behind \cup {"dropped", "loaded"}
      /\ Listable
  BY MovesShape DEF TypeInv, Aims, SizeInv
<1>1. life.why # "running" => life.step \notin {"stopped", "listing", "listed", "next", "judging"}
  BY <1>0, QuietIdle DEF Quiet
<1>2. life.step # "stopped" /\ (life.step = "listed" => ~Quiet)
  BY <1>0, <1>1, QuietIdle DEF LifeAims
<1>3. life.why = "training" /\ life.step \in {"current", "candidate"} =>
        t = "lifecycle" /\ Clean
  BY <1>0, QuietAlone DEF Quiet, Threads, Listable
<1>4. ASSUME t = "lifecycle", life.why = "training", Clean
      PROVE  \/ "loaded" \notin behind' /\ life' = life
             \/ "loaded" \notin behind' /\ life.step = "current" /\ LifeAt("candidate")
             \/ "loaded" \notin behind' /\ LifeAt("judging")
             \/ Recovers("recovery") /\ Cardinality(engine') <= MaxCpuLoras
  <2>1. ASSUME NEW s, GoesOn(t, s) PROVE life' = life
    BY <2>1 DEF GoesOn
  <2>2. ASSUME Ends(t, TRUE)
        PROVE  (life.step = "current" /\ LifeAt("candidate")) \/ LifeAt("judging")
    <3>1. LifeContinues(TRUE)
      BY <1>4, <2>2 DEF Ends
    <3>2. LifeGoes(IF life.step = "current" THEN "candidate" ELSE "judging")
      BY <1>4, <3>1 DEF LifeContinues
    <3> QED
      BY <1>0, <3>2, LifeGoesShape, StepNames
  <2>3. ASSUME Ends(t, FALSE), loader[t].step # "noting"
        PROVE  Recovers("recovery") /\ Cardinality(engine') <= MaxCpuLoras
    <3>1. LifeContinues(FALSE) /\ loader'[t].step = "idle"
      BY <1>4, <2>3 DEF Ends
    <3>2. Recovers("recovery")
      BY <1>4, <3>1 DEF LifeContinues
    <3> QED
      BY <1>4, <2>3, <3>1, <3>2, RoomMoves
  <2>4. "loaded" \notin behind
    BY <1>4 DEF Clean
  <2>5. CASE Loads(t)
    BY <1>0, <2>1, <2>3, <2>4, <2>5, LoadsShape
  <2>6. CASE Notes(t)
    BY <1>0, <2>2, <2>4, <2>6, NotesShape
  <2>7. CASE Looks(t) \/ Evicts(t) \/ Unloads(t)
    BY <1>0, <2>1, <2>2, <2>3, <2>4, <2>7, LooksShape, EvictsShape, UnloadsShape
  <2>8. CASE Drops(t) \/ Pops(t)
    BY <1>0, <2>1, <2>3, <2>4, <2>8, DropsShape, PopsShape
  <2> QED
    BY <2>5, <2>6, <2>7, <2>8 DEF Moves
<1>5. CASE life.why = "training" /\ life.step \in {"current", "candidate"}
  <2>1. Clean /\ t = "lifecycle"
    BY <1>3, <1>5
  <2>2. ASSUME "loaded" \notin behind' PROVE Clean'
    BY <1>0, <2>1, <2>2 DEF Clean
  <2>3. CASE Recovers("recovery") /\ Cardinality(engine') <= MaxCpuLoras
    BY <1>0, <2>3, RecoversShape, StepNames DEF Listable, LifeIs
  <2>4. CASE "loaded" \notin behind' /\ life' = life
    BY <1>5, <2>2, <2>4 DEF Listable
  <2>5. CASE "loaded" \notin behind' /\ (LifeAt("candidate") \/ LifeAt("judging"))
    BY <2>2, <2>5 DEF Listable, LifeAt, LifeIs
  <2> QED
    BY <1>4, <1>5, <2>1, <2>3, <2>4, <2>5
<1>6. CASE ~(life.why = "training" /\ life.step \in {"current", "candidate"})
  <2>1. CASE life' = life
    <3>1. Quiet' => Quiet
      BY <1>0, <2>1 DEF Quiet
    <3> QED
      BY <1>0, <1>1, <1>2, <1>6, <2>1, <3>1 DEF Listable
  <2>2. CASE life' # life
    <3>1. PICK ok \in BOOLEAN : LifeContinues(ok)
      BY <1>0, <2>2, MovesLife
    <3>2. life.step \in {"current", "candidate", "prior"}
      BY <1>0, <2>2, MovesLife DEF TypeInv, Aims
    <3>3. life.why # "training"
      BY <1>0, <1>6, <3>2 DEF LifeAims
    <3>4. \/ life.why = "rollback" /\ LifeAt("probing")
          \/ life.why = "rollback" /\ RestoresAliases
          \/ LifeIs("away", "none", None, None, {})
      BY <1>0, <3>1, <3>3, LifeShape
    <3>5. life'.step \in {"probing", "away", "prior"}
      BY <1>0, <3>4, RestoresShape DEF LifeAt, LifeIs
    <3> QED
      BY <3>5 DEF Listable
  <2> QED
    BY <2>1, <2>2
<1> QED
  BY <1>5, <1>6

\* The list, taken while nobody loads, is what vLLM has; and it fits.
LEMMA RoomOverwrites ==
  ASSUME TypeInv, OrderInv, SizeInv, Overwrites, Clean'
  PROVE  Room'
<1>0. /\ CacheTypes /\ life.step = "listed"
      /\ UNCHANGED <<registry, engine, loader>>
      /\ cached' = life.upstream \cap Known(registry)
      /\ behind' = IF life.why = "running" THEN behind ELSE {}
  BY OverwritesShape DEF TypeInv
<1>1. Quiet
  BY <1>0 DEF Quiet, Clean
<1>2. \A t \in Threads : loader[t].step = "idle"
  BY <1>0, <1>1, QuietIdle
<1>3. cached' = engine
  BY <1>0, <1>1 DEF SizeInv, KnownInv, Listable
<1>4. Cardinality(engine) <= MaxCpuLoras
  <2>1. CASE life.why = "running"
    BY <1>0, <1>2, <2>1, EngineFits DEF Clean, SizeInv
  <2>2. CASE life.why # "running"
    BY <1>0, <2>2 DEF SizeInv, Listable
  <2> QED
    BY <2>1, <2>2
<1>5. \A t \in Threads : Roomy(t)'
  BY <1>0, <1>2 DEF Roomy
<1> QED
  BY <1>0, <1>3, <1>4, <1>5 DEF Room

LEMMA RoomLife ==
  ASSUME TypeInv, OrderInv, SizeInv, LifeNext, Clean'
  PROVE  Room'
<1>1. CASE Overwrites
  BY <1>1, RoomOverwrites
<1>2. CASE ~Overwrites
  <2>1. Clean
    BY <1>2, LifeEngine DEF Clean
  <2>2. Room /\ cached' = cached /\ engine' \subseteq engine
    BY <1>2, <2>1, LifeEngine DEF SizeInv
  <2> QED
    BY <2>2, LoadersBegin, RoomRests
<1> QED
  BY <1>1, <1>2

LEMMA ListableLife ==
  ASSUME TypeInv, OrderInv, SizeInv, LifeNext
  PROVE  Listable'
<1>0. CacheTypes /\ LifeAims /\ Listable /\ (Clean => Room)
  BY DEF TypeInv, Aims, SizeInv
<1>1. LifeIs("away", "none", None, None, {}) => Listable'
  BY DEF Listable, LifeIs
<1>2. Recovers("running") => Listable'
  BY <1>0, RecoversShape, StepNames DEF Listable, LifeIs
<1>3. ASSUME Recovers("recovery"), engine' = engine, Cardinality(engine) <= MaxCpuLoras
      PROVE  Listable'
  BY <1>0, <1>3, RecoversShape, StepNames DEF Listable, LifeIs
<1>4. ASSUME life.step = "stopped" PROVE Cardinality(engine) <= MaxCpuLoras
  <2>1. engine = {}
    BY <1>0, <1>4 DEF Listable
  <2> QED
    BY <2>1, FS_EmptySet, CacheConstantsOK
<1>5. ASSUME life.step \in {"next", "judging"}
      PROVE  Clean /\ Cardinality(engine) <= MaxCpuLoras
  <2>1. life.why = "training" /\ Clean /\ Quiet
    BY <1>0, <1>5 DEF LifeAims, Listable, Quiet
  <2>2. \A t \in Threads : loader[t].step = "idle"
    BY <1>5, <2>1, QuietIdle
  <2> QED
    BY <1>0, <2>1, <2>2, EngineFits
<1>6. ASSUME NEW why \in {"lease", "training", "rollback"}, Shuts(why)
      PROVE  Listable'
  BY <1>0, <1>6, ShutsShape DEF Listable, LifeIs
<1>7. CASE Stops
  <2>1. CASE LifeAt("stopped") /\ engine' = {}
    BY <2>1 DEF Listable, LifeAt, LifeIs
  <2> QED
    BY <1>0, <1>1, <1>2, <1>7, <2>1, StopsShape
<1>8. CASE RollsBack \/ DrainTimesOut \/ LeaseEnds \/ Completes
  <2>1. CASE LifeIs("current", "rollback", life.candidate, registry.current, life.todo)
    BY <2>1 DEF Listable, LifeIs
  <2> QED
    BY <1>0, <1>1, <1>2, <1>8, <2>1, RollsBackShape, DrainTimesOutShape, LeaseEndsShape,
       CompletesShape
<1>9. CASE TrainerReports
  <2>1. /\ life.step = "stopped" /\ engine' = engine /\ life'.step = "listing"
    BY <1>0, <1>9, TrainerReportsShape DEF LifeIs
  <2> QED
    BY <1>4, <2>1 DEF Listable
<1>10. CASE TrainerFails \/ RegistersNot \/ EvaluationRaises
  BY <1>0, <1>3, <1>4, <1>5, <1>10, FailsShape
<1>11. CASE Lists
  <2>1. /\ life.step = "listing" /\ UNCHANGED <<engine, behind>>
        /\ life'.step = "listed" /\ life'.why = life.why /\ life'.upstream = engine
    BY <1>0, <1>11, ListsShape DEF LifeAt, LifeIs
  <2> QED
    BY <1>0, <2>1 DEF Listable
<1>12. CASE ListsInVain
  <2>1. /\ life.step = "listing" /\ engine' = engine
        /\ life.why # "running" => Cardinality(engine) <= MaxCpuLoras
    BY <1>0, <1>12, ListsInVainShape DEF Listable
  <2> QED
    BY <1>0, <1>1, <1>3, <1>12, <2>1, ListsInVainShape
<1>13. CASE Overwrites
  <2>1. behind' = IF life.why = "running" THEN behind ELSE {}
    BY <1>0, <1>13, OverwritesShape
  <2>2. life.why # "running" => Clean'
    BY <2>1 DEF Clean
  <2>3. ASSUME NEW s \in {"candidate", "current"}, LifeAt(s) PROVE Listable'
    BY <2>2, <2>3 DEF Listable, LifeAt, LifeIs
  <2>4. ASSUME life.why \in {"training", "promoted"},
               LifeIs("next", "training", None, life.other, life.todo)
        PROVE  Listable'
    BY <2>2, <2>4 DEF Listable, LifeIs
  <2> QED
    BY <1>0, <1>1, <1>13, <2>3, <2>4, OverwritesShape
<1>14. CASE Registers
  <2>1. life.step = "next" /\ behind' = behind /\ life'.step \in {"candidate", "current"}
    BY <1>0, <1>14, RegistersShape DEF LifeIs
  <2>2. Clean'
    BY <1>5, <2>1 DEF Clean
  <2> QED
    BY <2>1, <2>2 DEF Listable
<1>15. CASE Asks
  BY <1>0, <1>15, AsksShape DEF Listable, Clean, Quiet
<1>16. CASE Promotes
  <2>1. life.step = "judging" /\ life'.step = "listing" /\ engine' = engine
    BY <1>0, <1>16, PromotesShape DEF LifeIs
  <2> QED
    BY <1>5, <2>1 DEF Listable
<1>17. CASE Rejects
  <2>1. life.step = "judging" /\ life'.step = "next" /\ behind' = behind
    BY <1>0, <1>17, RejectsShape DEF LifeIs
  <2>2. Clean'
    BY <1>5, <2>1 DEF Clean
  <2> QED
    BY <2>1, <2>2 DEF Listable
<1>18. CASE Probes
  <2>1. CASE RestoresAliases
    <3>1. life'.step \in {"away", "prior"}
      BY <1>0, <2>1, RestoresShape DEF LifeAt, LifeIs
    <3> QED
      BY <3>1 DEF Listable
  <2> QED
    BY <1>0, <1>1, <1>18, <2>1, ProbesShape
<1> QED
  BY <1>6, <1>7, <1>8, <1>9, <1>10, <1>11, <1>12, <1>13, <1>14, <1>15, <1>16, <1>17,
     <1>18 DEF LifeNext

LEMMA SizeNext ==
  ASSUME TypeInv, OrderInv, SizeInv, [Next]_vars
  PROVE  SizeInv'
<1> SUFFICES (Clean' => Room') /\ Listable'
  BY KnownNext DEF SizeInv
<1>1. ASSUME UNCHANGED <<engine, cached, life, behind>>,
             \A t \in Threads :
               \/ loader'[t] = loader[t]
               \/ loader[t].step = "idle" /\ loader'[t].step = "looking"
      PROVE  (Clean' => Room') /\ Listable'
  <2>1. Clean' = Clean /\ Listable' = Listable
    BY <1>1 DEF Clean, Listable, Quiet
  <2>2. Room => Room'
    BY <1>1, RoomRests
  <2> QED
    BY <2>1, <2>2 DEF SizeInv
<1>2. CASE RouteNext
  BY <1>1, <1>2, RouteRest
<1>3. CASE RequestNext
  BY <1>1, <1>3, RequestRest, LoadersBegin
<1>4. CASE LifeNext
  BY <1>4, RoomLife, ListableLife
<1>5. ASSUME NEW t \in Threads, Moves(t) PROVE (Clean' => Room') /\ Listable'
  <2>1. Clean' => Clean
    BY <1>5, MovesShape DEF TypeInv, Clean
  <2> QED
    BY <1>5, <2>1, RoomMoves, ListableMoves
<1>6. CASE UNCHANGED vars
  BY <1>1, <1>6 DEF vars, controllerVars, lifeVars
<1> QED
  BY <1>2, <1>3, <1>4, <1>5, <1>6 DEF Next, LoaderNext, Moves

LEMMA SizeInit == Init => SizeInv
<1> SUFFICES ASSUME Init PROVE SizeInv
  OBVIOUS
<1>1. /\ engine = {} /\ cached = {} /\ life.step = "away"
      /\ \A t \in Threads : loader[t].step = "idle"
  BY DEF Init, Away, Idle
<1>2. Cardinality(cached) <= MaxCpuLoras
  BY <1>1, FS_EmptySet, CacheConstantsOK
<1> QED
  BY <1>1, <1>2 DEF SizeInv, KnownInv, Room, Roomy, Listable

(***************************************************************************)
(* The cache never grows past its limit.                                   *)
(***************************************************************************)
THEOREM BoundedTheorem == Spec => []CacheBounded
<1>1. SizeInv => CacheBounded
  BY DEF SizeInv, Room, Clean, CacheBounded
<1>2. TypeInv /\ [Next]_vars => TypeInv'
  BY TypeNext
<1>3. TypeInv /\ OrderInv /\ [Next]_vars => OrderInv'
  BY OrderNext
<1>4. TypeInv /\ OrderInv /\ SizeInv /\ [Next]_vars => SizeInv'
  BY SizeNext
<1> QED
  BY <1>1, <1>2, <1>3, <1>4, TypeInit, OrderInit, SizeInit, PTL DEF Spec

-----------------------------------------------------------------------------
(***************************************************************************)
(* The cache holds only what vLLM has, while the controller is told of all *)
(* that happens to vLLM, but for the victim of an eviction that is not     *)
(* taken from the cache yet; while one waits for its body, what it needs   *)
(* is not evicted unless its route ends.                                   *)
(***************************************************************************)
Told == behind \ {"loaded"} = {}

Dropped == {loader[t].victim : t \in {u \in Threads : loader[u].step = "popping"}}

Ready(r) == stage[r] = "ready" /\ using[r].adapter \in Adapters

HeldInv ==
  Told =>
    /\ cached \subseteq engine \cup Dropped
    /\ \A t \in Threads : loader[t].step = "noting" => loader[t].want \in engine
    /\ \A r \in Requests : Ready(r) => using[r].adapter \in engine \/ Ended(r)

\* A route that a request holds only expires.
LEMMA RoutesKeep ==
  ASSUME CacheTypes, UseInv, RouteNext, NEW r \in Requests, stage[r] # "out"
  PROVE  pins'[using[r].route] \in {pins[using[r].route], "gone"}
<1>1. using[r].route \in RouteIds
  BY DEF UseInv, OwnRoute
<1>2. ASSUME NEW id \in RouteIds, NEW a \in Adapters \cup {None}, CreateRoute(id, a)
      PROVE  pins'[using[r].route] = pins[using[r].route]
  BY <1>1, <1>2 DEF CreateRoute, CacheTypes
<1>3. ASSUME NEW id \in RouteIds, Expires(id)
      PROVE  pins'[using[r].route] \in {pins[using[r].route], "gone"}
  BY <1>1, <1>3 DEF Expires, CacheTypes
<1> QED
  BY <1>2, <1>3 DEF RouteNext

LEMMA HeldRoutes ==
  ASSUME TypeInv, UseInv, HeldInv, RouteNext
  PROVE  HeldInv'
<1>1. UNCHANGED <<engine, cached, loader, stage, using, behind>>
  BY RouteRest
<1>2. ASSUME NEW r \in Requests, Ready(r), Ended(r) PROVE Ended(r)'
  <2>1. pins'[using[r].route] \in {pins[using[r].route], "gone"}
    BY <1>2, RoutesKeep DEF TypeInv, Ready
  <2> QED
    BY <1>1, <1>2, <2>1, CacheConstantsOK DEF Ready, Ended
<1> QED
  BY <1>1, <1>2 DEF HeldInv, Told, Dropped, Ready

LEMMA HeldRequests ==
  ASSUME TypeInv, HeldInv, RequestNext
  PROVE  HeldInv'
<1>1. /\ UNCHANGED <<pins, engine, cached, behind>>
      /\ \A t \in Threads : \/ loader'[t] = loader[t]
                            \/ loader[t].step = "idle" /\ loader'[t].step = "looking"
  BY RequestRest, LoadersBegin
<1>2. ASSUME NEW r \in Requests, Ready(r)'
      PROVE  Ready(r) /\ using'[r] = using[r]
  <2>1. ASSUME NEW x \in Requests, NEW id \in RouteIds, Resolves(x, id)
        PROVE  Ready(r) /\ using'[r] = using[r]
    BY <1>2, <2>1 DEF Resolves, Ready, TypeInv, CacheTypes
  <2>2. ASSUME NEW x \in Requests, Enters(x)
        PROVE  Ready(r) /\ using'[r] = using[r]
    BY <1>2, <2>2, NoneIsNotAnAdapter DEF Enters, Ready, TypeInv, CacheTypes
  <2>3. ASSUME NEW x \in Requests, Dispatches(x) \/ Leaves(x)
        PROVE  Ready(r) /\ using'[r] = using[r]
    BY <1>2, <2>3 DEF Dispatches, Leaves, Ready, TypeInv, CacheTypes
  <2> QED
    BY <2>1, <2>2, <2>3 DEF RequestNext
<1>3. Dropped' = Dropped
  BY <1>1 DEF Dropped
<1> QED
  BY <1>1, <1>2, <1>3 DEF HeldInv, Told, Ended

LEMMA HeldLife ==
  ASSUME TypeInv, OrderInv, SizeInv, HeldInv, LifeNext
  PROVE  HeldInv'
<1>1. /\ UNCHANGED <<pins, stage, using>>
      /\ \A t \in Threads : \/ loader'[t] = loader[t]
                            \/ loader[t].step = "idle" /\ loader'[t].step = "looking"
  BY LifeRest, LoadersBegin
<1>2. Dropped' = Dropped
  BY <1>1 DEF Dropped
<1>3. CASE Overwrites
  <2> SUFFICES ASSUME Told' PROVE HeldInv'
    BY DEF HeldInv
  <2>1. /\ life.step = "listed" /\ UNCHANGED <<engine, loader>>
        /\ cached' = life.upstream \cap Known(registry)
        /\ behind' = IF life.why = "running" THEN behind ELSE {}
    BY <1>3, OverwritesShape DEF TypeInv
  <2>2. Quiet
    BY <2>1 DEF Quiet, Told
  <2>3. \A t \in Threads : loader[t].step = "idle"
    BY <2>1, <2>2, QuietIdle
  <2>4. cached' = engine
    BY <2>1, <2>2 DEF SizeInv, KnownInv, Listable
  <2>5. \A r \in Requests : ~Ready(r)'
    BY <1>1, <2>2, QuietAlone DEF Ready
  <2> QED
    BY <2>1, <2>3, <2>4, <2>5 DEF HeldInv
<1>4. CASE Stops
  <2>1. /\ cached' = cached /\ loader' = loader
        /\ life.why \in {"lease", "training"}
        /\ \/ behind' = behind \cup {life.why}
           \/ UNCHANGED <<engine, behind>>
    BY <1>4, StopsShape DEF TypeInv, Aims, LifeAims
  <2>2. CASE behind' = behind \cup {life.why}
    BY <2>1, <2>2 DEF HeldInv, Told
  <2>3. CASE UNCHANGED <<engine, behind>>
    BY <1>1, <1>2, <2>1, <2>3 DEF HeldInv, Told, Ready, Ended
  <2> QED
    BY <2>1, <2>2, <2>3
<1>5. CASE ~Overwrites /\ ~Stops
  <2>1. engine' = engine /\ cached' = cached /\ behind \subseteq behind'
    BY <1>5, LifeEngine
  <2> QED
    BY <1>1, <1>2, <2>1 DEF HeldInv, Told, Ready, Ended
<1> QED
  BY <1>3, <1>4, <1>5

\* Those that wait for their bodies while a thread moves: who is new has what
\* the thread was asked for.
LEMMA ReadyMoves ==
  ASSUME TypeInv, OrderInv, NEW t \in Threads, Moves(t), NEW r \in Requests, Ready(r)'
  PROVE  /\ using'[r] = using[r]
         /\ (\E s : GoesOn(t, s)) => Ready(r)
         /\ Ends(t, FALSE) => Ready(r)
         /\ Ends(t, TRUE) => Ready(r) \/ using[r].adapter = loader[t].want
<1>0. CacheTypes
  BY DEF TypeInv
<1>1. ASSUME NEW s, GoesOn(t, s) PROVE using'[r] = using[r] /\ Ready(r)
  BY <1>1 DEF GoesOn, Ready
<1>2. ASSUME NEW ok \in BOOLEAN, Ends(t, ok), t # "loop"
      PROVE  using'[r] = using[r] /\ Ready(r)
  BY <1>0, <1>2, LifeShape DEF Ends, Ready
<1>3. stage[r] = "loading" => using[r].adapter = loader["loop"].want
  BY DEF OrderInv
<1>4. ASSUME NEW ok \in BOOLEAN, Ends(t, ok), t = "loop"
      PROVE  /\ using'[r] = using[r]
             /\ Ready(r) \/ (ok /\ using[r].adapter = loader[t].want)
  <2>1. LoopContinues(ok)
    BY <1>4 DEF Ends
  <2>2. /\ using'[r] = using[r]
        /\ stage[r] = "ready" \/ (ok /\ stage[r] = "loading")
    BY <1>0, <2>1, LoopShape DEF Ready
  <2> QED
    BY <1>3, <1>4, <2>2 DEF Ready
<1>5. /\ Ends(t, FALSE) => using'[r] = using[r] /\ Ready(r)
      /\ Ends(t, TRUE) => /\ using'[r] = using[r]
                          /\ Ready(r) \/ using[r].adapter = loader[t].want
  BY <1>2, <1>4
<1>6. using'[r] = using[r]
  <2>1. ASSUME NEW ok \in BOOLEAN, Ends(t, ok) PROVE using'[r] = using[r]
    BY <1>2, <1>4, <2>1
  <2> QED
    BY <1>0, <1>1, <2>1, MovesShape
<1> QED
  BY <1>1, <1>5, <1>6

LEMMA HeldMoves ==
  ASSUME TypeInv, OrderInv, UseInv, HeldInv, NEW t \in Threads, Moves(t)
  PROVE  HeldInv'
<1> SUFFICES ASSUME Told' PROVE HeldInv'
  BY DEF HeldInv
<1>0. /\ CacheTypes /\ pins' = pins /\ loader[t].step # "idle"
      /\ Told /\ "dropped" \notin behind' /\ "undrained" \notin behind
  BY MovesShape DEF TypeInv, Told
<1>1. \A u \in Threads \ {t} : loader'[u] = loader[u] /\ loader[u].step = "idle"
  BY <1>0, Alone, MovesShape
<1>2. /\ Dropped = IF loader[t].step = "popping" THEN {loader[t].victim} ELSE {}
      /\ Dropped' = IF loader'[t].step = "popping" THEN {loader'[t].victim} ELSE {}
  BY <1>1 DEF Dropped
<1>3. /\ cached \subseteq engine \cup Dropped
      /\ loader[t].step = "noting" => loader[t].want \in engine
      /\ \A r \in Requests : Ready(r) => using[r].adapter \in engine \/ Ended(r)
  BY <1>0 DEF HeldInv
<1>4. ASSUME cached' \subseteq engine' \cup Dropped',
             loader'[t].step = "noting" => loader'[t].want \in engine',
             \A r \in Requests : Ready(r) /\ using[r].adapter \in engine =>
               using[r].adapter \in engine' \/ Ended(r),
             \/ \E s : GoesOn(t, s)
             \/ Ends(t, FALSE)
             \/ Ends(t, TRUE) /\ loader[t].want \in engine'
      PROVE  HeldInv'
  <2>1. \A u \in Threads : loader'[u].step = "noting" => loader'[u].want \in engine'
    BY <1>1, <1>4
  <2>2. ASSUME NEW r \in Requests, Ready(r)'
        PROVE  (using[r].adapter \in engine \/ Ended(r))'
    BY <1>0, <1>3, <1>4, <2>2, ReadyMoves DEF Ended
  <2> QED
    BY <1>4, <2>1, <2>2 DEF HeldInv
<1>5. \A s : GoesOn(t, s) => loader'[t].step = s /\ loader'[t].want = loader[t].want
  BY DEF GoesOn
<1>6. \A ok : Ends(t, ok) => loader'[t].step = "idle"
  BY DEF Ends
<1>7. CASE Looks(t)
  <2>1. /\ cached' = cached /\ engine' = engine /\ loader[t].step = "looking"
        /\ loader'[t].step \in {"idle", "evicting"}
        /\ \/ \E s : GoesOn(t, s)
           \/ Ends(t, FALSE)
           \/ Ends(t, TRUE) /\ loader[t].want \in cached
    BY <1>0, <1>5, <1>6, <1>7, LooksShape
  <2> QED
    BY <1>2, <1>3, <1>4, <2>1
<1>8. CASE Evicts(t) \/ Unloads(t)
  <2>1. /\ cached' = cached /\ engine' = engine
        /\ loader[t].step \in {"evicting", "unloading"}
        /\ loader'[t].step \in {"idle", "loading", "unloading", "dropping"}
        /\ \/ \E s : GoesOn(t, s)
           \/ Ends(t, FALSE)
    BY <1>0, <1>5, <1>6, <1>8, EvictsShape, UnloadsShape
  <2> QED
    BY <1>2, <1>3, <1>4, <2>1
<1>9. CASE Drops(t)
  <2>1. /\ cached' = cached /\ loader[t].step = "dropping"
        /\ \/ /\ engine' = engine \ {loader[t].victim} /\ GoesOn(t, "popping")
              /\ loader'[t].victim = loader[t].victim
           \/ engine' = engine /\ Ends(t, FALSE)
    BY <1>0, <1>9, DropsShape
  <2>2. CASE engine' = engine /\ Ends(t, FALSE)
    BY <1>2, <1>3, <1>4, <1>6, <2>1, <2>2
  <2>3. CASE /\ engine' = engine \ {loader[t].victim} /\ GoesOn(t, "popping")
             /\ loader'[t].victim = loader[t].victim
    <3>1. loader'[t].step = "popping"
      BY <1>5, <2>3
    <3>2. cached' \subseteq engine' \cup Dropped'
      BY <1>2, <1>3, <2>1, <2>3, <3>1
    <3>3. ASSUME NEW r \in Requests, Ready(r), using[r].adapter = loader[t].victim
          PROVE  Ended(r)
      BY <2>1, <3>3 DEF UseInv, Uses, Inside, Ready, Ended
    <3> QED
      BY <1>4, <2>3, <3>1, <3>2, <3>3
  <2> QED
    BY <2>1, <2>2, <2>3
<1>10. CASE Pops(t)
  <2>1. /\ cached' = cached \ {loader[t].victim} /\ engine' = engine
        /\ loader[t].step = "popping" /\ loader'[t].step = "loading"
        /\ \E s : GoesOn(t, s)
    BY <1>0, <1>5, <1>10, PopsShape
  <2>2. cached' \subseteq engine'
    BY <1>2, <1>3, <2>1
  <2> QED
    BY <1>4, <2>1, <2>2
<1>11. CASE Loads(t)
  <2>1. /\ cached' = cached /\ loader[t].step = "loading"
        /\ \/ /\ engine' = engine \cup {loader[t].want} /\ loader'[t].step = "noting"
              /\ loader'[t].want = loader[t].want /\ \E s : GoesOn(t, s)
           \/ /\ engine' \in {engine, engine \cup {loader[t].want}}
              /\ loader'[t].step = "idle" /\ Ends(t, FALSE)
    BY <1>0, <1>5, <1>6, <1>11, LoadsShape
  <2>2. /\ engine \subseteq engine'
        /\ loader'[t].step = "noting" => loader'[t].want \in engine'
    BY <2>1
  <2> QED
    BY <1>2, <1>3, <1>4, <2>1, <2>2
<1>12. CASE Notes(t)
  <2>1. /\ cached' = cached \cup {loader[t].want} /\ engine' = engine
        /\ loader[t].step = "noting" /\ Ends(t, TRUE) /\ loader'[t].step = "idle"
    BY <1>0, <1>6, <1>12, NotesShape
  <2> QED
    BY <1>2, <1>3, <1>4, <2>1
<1> QED
  BY <1>7, <1>8, <1>9, <1>10, <1>11, <1>12 DEF Moves

LEMMA HeldNext ==
  ASSUME TypeInv, OrderInv, UseInv, SizeInv, HeldInv, [Next]_vars
  PROVE  HeldInv'
<1>1. CASE RouteNext \/ RequestNext \/ LifeNext
  BY <1>1, HeldRoutes, HeldRequests, HeldLife
<1>2. ASSUME NEW t \in Threads, Moves(t) PROVE HeldInv'
  BY <1>2, HeldMoves
<1>3. CASE UNCHANGED vars
  BY <1>3 DEF vars, controllerVars, requestVars, lifeVars, HeldInv, Told, Dropped,
              Ready, Ended
<1> QED
  BY <1>1, <1>2, <1>3 DEF Next, LoaderNext, Moves

LEMMA HeldInit == Init => HeldInv
BY DEF Init, HeldInv, Idle, Ready

\* Only a request that has its adapter and its body is sent.
LEMMA SendsReady ==
  ASSUME TypeInv, [Next]_vars, NEW r \in Requests, Sends(r)
  PROVE  Ready(r)
<1>0. CacheTypes /\ stage[r] # "sent" /\ stage'[r] = "sent" /\ using[r].adapter # None
  BY DEF TypeInv, Sends
<1>1. CASE RouteNext \/ LifeNext \/ UNCHANGED vars
  BY <1>0, <1>1, RouteRest, LifeRest DEF vars, requestVars
<1>2. ASSUME NEW x \in Requests, NEW id \in RouteIds, Resolves(x, id) PROVE FALSE
  BY <1>0, <1>2 DEF Resolves, CacheTypes
<1>3. ASSUME NEW x \in Requests, Enters(x) \/ Leaves(x) PROVE FALSE
  BY <1>0, <1>3 DEF Enters, Leaves, CacheTypes
<1>4. ASSUME NEW x \in Requests, Dispatches(x) PROVE stage[r] = "ready"
  BY <1>0, <1>4 DEF Dispatches, CacheTypes
<1>5. ASSUME NEW t \in Threads, Moves(t) PROVE FALSE
  <2>1. ASSUME NEW s, GoesOn(t, s) PROVE stage' = stage
    BY <2>1 DEF GoesOn
  <2>2. ASSUME NEW ok \in BOOLEAN, Ends(t, ok) PROVE stage'[r] = "sent" => stage[r] = "sent"
    BY <1>0, <2>2, LoopShape, LifeShape DEF Ends
  <2> QED
    BY <1>0, <1>5, <2>1, <2>2, MovesShape
<1>6. using[r].adapter \in Adapters
  BY <1>0 DEF CacheTypes, UseRecords
<1> QED
  BY <1>0, <1>1, <1>2, <1>3, <1>4, <1>5, <1>6 DEF Next, RequestNext, LoaderNext, Moves,
     Ready

(***************************************************************************)
(* A request goes to vLLM with an adapter that vLLM has, unless its route  *)
(* has ended or the controller was not told of something.                  *)
(***************************************************************************)
THEOREM SentTheorem == Spec => SentToLoaded
<1>1. TypeInv /\ [Next]_vars => TypeInv'
  BY TypeNext
<1>2. TypeInv /\ OrderInv /\ [Next]_vars => OrderInv'
  BY OrderNext
<1>3. TypeInv /\ OrderInv /\ UseInv /\ [Next]_vars => UseInv'
  BY UseNext
<1>4. TypeInv /\ OrderInv /\ SizeInv /\ [Next]_vars => SizeInv'
  BY SizeNext
<1>5. TypeInv /\ OrderInv /\ UseInv /\ SizeInv /\ HeldInv /\ [Next]_vars => HeldInv'
  BY HeldNext
<1>6. TypeInv /\ HeldInv /\ [Next]_vars =>
        [\A r \in Requests :
           Sends(r) => \/ behind \ {"loaded"} # {}
                       \/ Ended(r)
                       \/ using[r].adapter \in engine]_vars
  BY SendsReady DEF HeldInv, Told
<1> QED
  BY <1>1, <1>2, <1>3, <1>4, <1>5, <1>6, TypeInit, OrderInit, UseInit, SizeInit,
     HeldInit, PTL DEF Spec, SentToLoaded
=============================================================================
