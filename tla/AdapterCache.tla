----------------------------- MODULE AdapterCache -----------------------------
(***************************************************************************)
(* Which adapters vLLM holds, and which the policy believes it holds:      *)
(* AdapterController (clare2/pipeline/app/controller.py), the routes that  *)
(* pin adapters (routing.py), the requests that need them (proxy.py) and   *)
(* the lifecycle operations that load adapters or restart vLLM.            *)
(*                                                                         *)
(* Two threads use the controller: the proxy's asyncio loop, which blocks  *)
(* in ensure_loaded, and the one lifecycle operation that holds the run    *)
(* lock.  Routes are created and expire beside both.  A call of vLLM may   *)
(* fail, or take effect while its answer is lost, and Docker and the       *)
(* requests for vLLM's list of models may fail: what each caller then does *)
(* is here.  That this process dies is not.                                *)
(*                                                                         *)
(* `_loaded` is a set here: its order only decides which of the unpinned   *)
(* adapters is evicted first, and no property tells them apart, so any may *)
(* be.  A route that expired and one that was deleted read the same.       *)
(***************************************************************************)
EXTENDS Naturals, FiniteSets, AdapterRegistry

CONSTANTS
  RouteIds,
  Requests,
  MaxCpuLoras    \* CLARE2_MAX_CPU_LORAS

ASSUME CacheConstantsOK ==
  /\ IsFiniteSet(Adapters)
  /\ "gone" \notin Adapters
  /\ MaxCpuLoras \in Nat \ {0}

VARIABLES
  registry,   \* the registry document
  pins,       \* Router._routes: the adapter of each route id, "gone" if none
  engine,     \* the adapters vLLM has loaded
  cached,     \* AdapterController._loaded
  loader,     \* where each thread stands in ensure_loaded
  stage,      \* where each request stands
  using,      \* the route and adapter of each request, resolved before its wait
  shut,       \* MaintenanceState.enabled
  life,       \* the lifecycle operation under way
  behind,     \* history: what happened behind the cache's back, a set
  condemned   \* history: adapters that failed after they were approved

controllerVars == <<engine, cached, loader>>
requestVars == <<stage, using>>
lifeVars == <<shut, life, behind, condemned>>
vars == <<registry, pins, controllerVars, requestVars, lifeVars>>

\* What changes when a thread's call of the controller returns.
callerVars == <<registry, requestVars, shut, life, condemned>>

Threads == {"loop", "lifecycle"}
Idle == [step |-> "idle", want |-> None, victim |-> None]
Away == [step |-> "away", why |-> "none", candidate |-> None, other |-> None,
         upstream |-> {}, todo |-> {}]

NoRoute == [route |-> None, adapter |-> None]

LoaderSteps == {"idle", "looking", "evicting", "unloading", "dropping",
                "popping", "loading", "noting"}
LifeSteps == {"away", "draining", "stopped", "listing", "listed", "next",
              "current", "candidate", "judging", "probing", "prior"}
Reasons == {"none", "lease", "training", "rollback", "refresh", "promoted",
            "recovery", "running"}
Mishaps == {"lease", "training", "undrained", "dropped", "loaded"}

\* A bug the runs must detect: the comparison with expires_at is the wrong way
\* round, and only dead routes pin.
PinnedDead == {}

\* Router.active_adapter_ids.
Pinned == {a \in Adapters : \E id \in RouteIds : pins[id] = a}

Inside == {r \in Requests : stage[r] \in {"loading", "ready", "sent"}}

LoaderGoes(t, s) == loader' = [loader EXCEPT ![t].step = s]

-----------------------------------------------------------------------------
(***************************************************************************)
(* Routes.                                                                 *)
(***************************************************************************)
\* A bug the runs must detect: _select takes a candidate under evaluation.
RoutableUnjudged == {a \in Adapters : Loadable(registry, a)}

\* Router._select: an approved adapter whose scope and capabilities match, the
\* newest of them; which adapters match is the caller's choice.
Routable == {a \in Adapters : registry.status[a] = "approved"}

\* Ids are never used again: one that a request still holds is not taken.
CreateRoute(id, a) ==
  /\ pins[id] = "gone"
  /\ \A r \in Requests : using[r].route # id
  /\ a \in Routable \cup {None}
  /\ pins' = [pins EXCEPT ![id] = a]
  /\ UNCHANGED <<registry, controllerVars, requestVars, lifeVars>>

Expires(id) ==
  /\ pins[id] # "gone"
  /\ pins' = [pins EXCEPT ![id] = "gone"]
  /\ UNCHANGED <<registry, controllerVars, requestVars, lifeVars>>

-----------------------------------------------------------------------------
(***************************************************************************)
(* Requests.  Nothing of the proxy runs while its loop is in ensure_loaded.*)
(***************************************************************************)
LoopFree == loader["loop"].step = "idle"

\* The gate is open, the route is found, and the request waits for admission.
Resolves(r, id) ==
  /\ LoopFree
  /\ stage[r] = "out"
  /\ ~shut
  /\ pins[id] # "gone"
  /\ stage' = [stage EXCEPT ![r] = "waiting"]
  /\ using' = [using EXCEPT ![r] = [route |-> id, adapter |-> pins[id]]]
  /\ UNCHANGED <<registry, pins, controllerVars, lifeVars>>

\* Admitted: behind the gate it needs its adapter, or gives up at the gate.
Enters(r) ==
  /\ LoopFree
  /\ stage[r] = "waiting"
  /\ \/ /\ shut
        /\ stage' = [stage EXCEPT ![r] = "out"]
        /\ using' = [using EXCEPT ![r] = NoRoute]
        /\ UNCHANGED loader
     \/ /\ ~shut
        /\ using[r].adapter = None
        /\ stage' = [stage EXCEPT ![r] = "ready"]
        /\ UNCHANGED <<using, loader>>
     \/ /\ ~shut
        /\ using[r].adapter # None
        /\ stage' = [stage EXCEPT ![r] = "loading"]
        /\ loader' = [loader EXCEPT !["loop"] =
             [Idle EXCEPT !.step = "looking", !.want = using[r].adapter]]
        /\ UNCHANGED using
  /\ UNCHANGED <<registry, pins, engine, cached, lifeVars>>

\* Its body has been read, and it goes to vLLM; the loop served others meanwhile.
Dispatches(r) ==
  /\ LoopFree
  /\ stage[r] = "ready"
  /\ stage' = [stage EXCEPT ![r] = "sent"]
  /\ UNCHANGED <<registry, pins, controllerVars, using, lifeVars>>

\* Answered, streamed to its end or cut off; or it has no valid body, or waits
\* no longer.
Leaves(r) ==
  /\ LoopFree
  /\ stage[r] \in {"waiting", "ready", "sent"}
  /\ stage' = [stage EXCEPT ![r] = "out"]
  /\ using' = [using EXCEPT ![r] = NoRoute]
  /\ UNCHANGED <<registry, pins, controllerVars, lifeVars>>

-----------------------------------------------------------------------------
(***************************************************************************)
(* The lifecycle operation.  Its step says what it does next, `why` what   *)
(* it is about.                                                            *)
(***************************************************************************)
LifeGoes(s) == life' = [life EXCEPT !.step = s]

\* The operation ends: maintenance.exit.
Returns ==
  /\ life' = Away
  /\ shut' = FALSE

\* A bug the runs must detect: the recovery never lists what vLLM has.
RecoversUnlisted(why) ==
  /\ registry' = IF life.candidate = None THEN registry
                 ELSE Transition(registry, life.candidate, "failed")
  /\ condemned' = condemned
  /\ life' = [Away EXCEPT !.step = "recovering", !.why = why]
  /\ UNCHANGED shut

\* _recover: the candidate in flight is failed, approved or not; then vLLM is
\* looked at again.  If it was not stopped before, why is "running".
Recovers(why) ==
  /\ registry' = IF life.candidate = None THEN registry
                 ELSE Transition(registry, life.candidate, "failed")
  /\ condemned' = condemned \cup {a \in {life.candidate} \ {None} :
                                    registry.status[a] = "approved"}
  /\ life' = [Away EXCEPT !.step = "listing", !.why = why]
  /\ UNCHANGED shut

\* maintenance.enter, for a lease, a night's training or a rollback.
Shuts(why) ==
  /\ life.step = "away"
  /\ shut' = TRUE
  /\ life' = [Away EXCEPT !.step = "draining", !.why = why]
  /\ UNCHANGED <<registry, pins, controllerVars, requestVars, behind, condemned>>

\* wait_for_drain succeeded: vLLM is stopped, ...
StopsVllm ==
  /\ engine' = {}
  /\ behind' = behind \cup {life.why}

Stops ==
  /\ life.step = "draining"
  /\ life.why # "rollback"
  /\ Inside = {}
  /\ \/ /\ StopsVllm
        /\ LifeGoes("stopped")
        /\ UNCHANGED <<registry, shut, condemned>>
     \* (Docker did not say so, and perhaps it was not)
     \/ /\ StopsVllm \/ UNCHANGED <<engine, behind>>
        /\ IF life.why = "training" THEN Recovers("running")
           ELSE Returns /\ UNCHANGED <<registry, condemned>>
  /\ UNCHANGED <<pins, cached, loader, requestVars>>

\* ... or the rollback is written; with no alias to roll back to that raises,
\* and the gate stays shut.
RollsBack ==
  /\ life.step = "draining"
  /\ life.why = "rollback"
  /\ Inside = {}
  /\ \/ /\ MayRollback(registry)
        /\ registry' = Rollback(registry)
        /\ life' = [life EXCEPT !.step = "current", !.other = registry.current]
     \/ /\ ~MayRollback(registry)
        /\ life' = Away
        /\ UNCHANGED registry
  /\ UNCHANGED <<pins, controllerVars, requestVars, shut, behind, condemned>>

\* wait_for_drain gave up: a lease or a rollback is refused, a training run
\* is recovered beside the requests it found.
DrainTimesOut ==
  /\ life.step = "draining"
  /\ Inside # {}
  /\ IF life.why = "training"
     THEN Recovers("running") /\ behind' = behind \cup {"undrained"}
     ELSE Returns /\ UNCHANGED <<registry, behind, condemned>>
  /\ UNCHANGED <<pins, controllerVars, requestVars>>

\* release_image_edit_lease: vLLM starts with no adapter, nobody tells the
\* controller, and the gate opens.  (While it does not start, it is tried again.)
LeaseEnds ==
  /\ life.step = "stopped"
  /\ life.why = "lease"
  /\ Returns
  /\ UNCHANGED <<registry, pins, controllerVars, requestVars, behind, condemned>>

\* The trainer reported a candidate, which is registered before vLLM restarts,
\* or several, which are registered after it, or none, having skipped all ...
TrainerReports ==
  /\ life.step = "stopped"
  /\ life.why = "training"
  /\ \/ \E a \in Adapters \ Known(registry) :
          /\ registry' = AddAdapter(registry, a)
          /\ life' = [life EXCEPT !.step = "listing", !.candidate = a]
     \/ \E A \in SUBSET (Adapters \ Known(registry)) \ {{}} :
          /\ life' = [life EXCEPT !.step = "listing", !.todo = A]
          /\ UNCHANGED registry
     \/ /\ life' = [life EXCEPT !.step = "listing", !.why = "refresh"]
        /\ UNCHANGED registry
  /\ UNCHANGED <<pins, controllerVars, requestVars, shut, behind, condemned>>

\* ... or it failed, or did not start, or its manifest cannot be registered.
TrainerFails ==
  /\ life.step = "stopped"
  /\ life.why = "training"
  /\ Recovers("recovery")
  /\ UNCHANGED <<pins, controllerVars, requestVars, behind>>

-----------------------------------------------------------------------------
(***************************************************************************)
(* vLLM is started, if it is not running, and AdapterController.reconcile  *)
(* rebuilds the cache: what vLLM lists is read first, and written over the *)
(* cache under its guard afterwards.                                       *)
(***************************************************************************)
Lists ==
  /\ life.step = "listing"
  /\ life' = [life EXCEPT !.step = "listed", !.upstream = engine]
  /\ UNCHANGED <<registry, pins, controllerVars, requestVars, shut, behind, condemned>>

\* vLLM does not start or does not answer; _recover is not recovered from, but
\* opens the gate.
ListsInVain ==
  /\ life.step = "listing"
  /\ IF life.why \in {"recovery", "running"}
     THEN Returns /\ UNCHANGED <<registry, condemned>>
     ELSE Recovers("recovery")
  /\ UNCHANGED <<pins, controllerVars, requestVars, behind>>

\* A bug the runs must detect: the cache is merged with the list.
RebuiltMerged == cached \cup (life.upstream \cap Known(registry))

Rebuilt == life.upstream \cap Known(registry)

Chooses == [life EXCEPT !.step = "next", !.why = "training", !.candidate = None,
                        !.upstream = {}]

\* An evaluation, and a recovery, load the adapter in service first.
LoadsCurrent(this, otherwise) ==
  IF registry.current # None
  THEN life' = [this EXCEPT !.step = "current"] /\ UNCHANGED shut
  ELSE otherwise

Evaluates(this) ==
  LoadsCurrent(this, life' = [this EXCEPT !.step = "candidate"] /\ UNCHANGED shut)

Overwrites ==
  /\ life.step = "listed"
  /\ cached' = Rebuilt
  /\ behind' = IF life.why = "running" THEN behind ELSE {}
  /\ LET this == [life EXCEPT !.upstream = {}]
     IN CASE life.why = "refresh" -> Returns
          [] life.why = "training" /\ life.candidate # None -> Evaluates(this)
          [] \/ life.why = "training" /\ life.candidate = None
             \/ life.why = "promoted" -> life' = Chooses /\ UNCHANGED shut
          [] OTHER -> LoadsCurrent(this, Returns)
  /\ UNCHANGED <<registry, pins, engine, loader, requestVars, condemned>>

\* complete_training_batch: the next candidate, if its manifest can be registered.
Registers ==
  /\ life.step = "next"
  /\ \E a \in life.todo :
       /\ registry' = AddAdapter(registry, a)
       /\ Evaluates([life EXCEPT !.candidate = a, !.todo = @ \ {a}])
  /\ UNCHANGED <<pins, controllerVars, requestVars, behind, condemned>>

RegistersNot ==
  /\ life.step = "next"
  /\ life.todo # {}
  /\ Recovers("recovery")
  /\ UNCHANGED <<pins, controllerVars, requestVars, behind>>

Completes ==
  /\ life.step = "next"
  /\ life.todo = {}
  /\ Returns
  /\ UNCHANGED <<registry, pins, controllerVars, requestVars, behind, condemned>>

-----------------------------------------------------------------------------
(***************************************************************************)
(* AdapterController.ensure_loaded, by either thread.                      *)
(***************************************************************************)
\* The lifecycle's calls of it.
Asks ==
  /\ life.step \in {"current", "candidate", "prior"}
  /\ loader["lifecycle"].step = "idle"
  /\ loader' = [loader EXCEPT !["lifecycle"] =
       [Idle EXCEPT !.step = "looking",
                    !.want = CASE life.step = "current" -> registry.current
                               [] life.step = "candidate" -> life.candidate
                               [] OTHER -> life.other]]
  /\ UNCHANGED <<registry, pins, engine, cached, requestVars, lifeVars>>

\* The call returns or raises into the request ...
LoopContinues(ok) ==
  /\ stage' = [r \in Requests |-> IF stage[r] # "loading" THEN stage[r]
                                  ELSE IF ok THEN "ready" ELSE "out"]
  /\ using' = [r \in Requests |-> IF stage[r] = "loading" /\ ~ok THEN NoRoute
                                  ELSE using[r]]
  /\ UNCHANGED <<registry, shut, life, condemned>>

\* rollback raises: the aliases are what they were, and the adapter in service
\* is loaded again.
RestoresAliases ==
  /\ registry' = [registry EXCEPT !.current = life.other,
                                 !.rollback = registry.current]
  /\ IF life.other = None THEN Returns
     ELSE LifeGoes("prior") /\ UNCHANGED shut
  /\ UNCHANGED condemned

\* ... or into the lifecycle operation.
LifeContinues(ok) ==
  /\ UNCHANGED requestVars
  /\ CASE life.why = "training" ->
            IF ok
            THEN /\ LifeGoes(IF life.step = "current" THEN "candidate"
                             ELSE "judging")
                 /\ UNCHANGED <<registry, shut, condemned>>
            ELSE Recovers("recovery")
       [] life.why = "rollback" /\ life.step = "current" ->
            IF ok
            THEN LifeGoes("probing") /\ UNCHANGED <<registry, shut, condemned>>
            ELSE RestoresAliases
       [] OTHER -> Returns /\ UNCHANGED <<registry, condemned>>

Finishes(t, ok) ==
  /\ loader' = [loader EXCEPT ![t] = Idle]
  /\ IF t = "loop" THEN LoopContinues(ok) ELSE LifeContinues(ok)

\* The adapter's own lock is held from here on.
LockFree(t) == \A u \in Threads \ {t} :
  loader[u].step \in {"idle", "looking"} \/ loader[u].want # loader[t].want

\* A hit in the cache returns at once; the registry is asked on a miss only.
Looks(t) ==
  /\ loader[t].step = "looking"
  /\ LockFree(t)
  /\ \/ /\ loader[t].want \in cached
        /\ Finishes(t, TRUE)
     \/ /\ loader[t].want \notin cached
        /\ ~Loadable(registry, loader[t].want)
        /\ Finishes(t, FALSE)
     \/ /\ loader[t].want \notin cached
        /\ Loadable(registry, loader[t].want)
        /\ LoaderGoes(t, "evicting")
        /\ UNCHANGED callerVars
  /\ UNCHANGED <<pins, engine, cached, behind>>

\* A bug the runs must detect: room is tested one adapter too late.
HasRoomLate == Cardinality(cached) <= MaxCpuLoras

HasRoom == Cardinality(cached) < MaxCpuLoras

\* _evict_if_needed, under the guard.
Evicts(t) ==
  /\ loader[t].step = "evicting"
  /\ \/ /\ HasRoom \/ loader[t].want \in cached
        /\ LoaderGoes(t, "loading")
        /\ UNCHANGED callerVars
     \/ /\ ~HasRoom
        /\ loader[t].want \notin cached
        /\ \E v \in cached \ Pinned :
             loader' = [loader EXCEPT ![t].step = "unloading", ![t].victim = v]
        /\ UNCHANGED callerVars
     \/ /\ ~HasRoom
        /\ loader[t].want \notin cached
        /\ cached \subseteq Pinned
        /\ Finishes(t, FALSE)
  /\ UNCHANGED <<pins, engine, cached, behind>>

\* unload, in three steps: the pins once more ...
Unloads(t) ==
  /\ loader[t].step = "unloading"
  /\ IF loader[t].victim \in Pinned
     THEN Finishes(t, FALSE)
     ELSE LoaderGoes(t, "dropping") /\ UNCHANGED callerVars
  /\ UNCHANGED <<pins, engine, cached, behind>>

\* ... vLLM, which refuses to unload what it has not, or fails to, or does
\* without its answer being heard ...
Drops(t) ==
  /\ loader[t].step = "dropping"
  /\ \/ /\ loader[t].victim \in engine
        /\ engine' = engine \ {loader[t].victim}
        /\ \/ /\ LoaderGoes(t, "popping")
              /\ UNCHANGED <<callerVars, behind>>
           \/ /\ Finishes(t, FALSE)
              /\ behind' = behind \cup {"dropped"}
     \/ /\ Finishes(t, FALSE)
        /\ UNCHANGED <<engine, behind>>
  /\ UNCHANGED <<pins, cached>>

\* ... and the cache.
Pops(t) ==
  /\ loader[t].step = "popping"
  /\ cached' = cached \ {loader[t].victim}
  /\ loader' = [loader EXCEPT ![t].step = "loading", ![t].victim = None]
  /\ UNCHANGED <<registry, pins, engine, requestVars, lifeVars>>

\* vLLM refuses to load what it has already (load_inplace is false), or fails
\* to, or does without its answer being heard.
Loads(t) ==
  /\ loader[t].step = "loading"
  /\ \/ /\ loader[t].want \notin engine
        /\ engine' = engine \cup {loader[t].want}
        /\ \/ /\ LoaderGoes(t, "noting")
              /\ UNCHANGED <<callerVars, behind>>
           \/ /\ Finishes(t, FALSE)
              /\ behind' = behind \cup {"loaded"}
     \/ /\ Finishes(t, FALSE)
        /\ UNCHANGED <<engine, behind>>
  /\ UNCHANGED <<pins, cached>>

Notes(t) ==
  /\ loader[t].step = "noting"
  /\ cached' = cached \cup {loader[t].want}
  /\ Finishes(t, TRUE)
  /\ UNCHANGED <<pins, engine, behind>>

-----------------------------------------------------------------------------
(***************************************************************************)
(* The verdict on a candidate that is loaded, and a rollback's probe.      *)
(***************************************************************************)
\* The cache is rebuilt once more, while the candidate still is in flight.
Promotes ==
  /\ life.step = "judging"
  /\ registry' = Promote(registry, life.candidate)
  /\ life' = [life EXCEPT !.step = "listing", !.why = "promoted"]
  /\ UNCHANGED <<pins, controllerVars, requestVars, shut, behind, condemned>>

\* It stays loaded until vLLM restarts or it is evicted.
Rejects ==
  /\ life.step = "judging"
  /\ registry' = Transition(registry, life.candidate, "rejected")
  /\ life' = Chooses
  /\ UNCHANGED <<pins, controllerVars, requestVars, shut, behind, condemned>>

EvaluationRaises ==
  /\ life.step = "judging"
  /\ Recovers("recovery")
  /\ UNCHANGED <<pins, controllerVars, requestVars, behind>>

Probes ==
  /\ life.step = "probing"
  /\ \/ Returns /\ UNCHANGED <<registry, condemned>>
     \/ RestoresAliases
  /\ UNCHANGED <<pins, controllerVars, requestVars, behind>>

-----------------------------------------------------------------------------
Init ==
  /\ registry \in Documents
  /\ ValidDocument(registry)
  /\ \A a \in Adapters : registry.status[a] \in {"absent", "approved"}
  /\ registry.rollback # None => registry.current # None
  /\ registry.current = None \/ registry.current # registry.rollback
  /\ pins = [id \in RouteIds |-> "gone"]
  /\ engine = {}
  /\ cached = {}
  /\ loader = [t \in Threads |-> Idle]
  /\ stage = [r \in Requests |-> "out"]
  /\ using = [r \in Requests |-> NoRoute]
  /\ shut = FALSE
  /\ life = Away
  /\ behind = {}
  /\ condemned = {}

RouteNext == \E id \in RouteIds :
  \/ \E a \in Adapters \cup {None} : CreateRoute(id, a)
  \/ Expires(id)

RequestNext == \E r \in Requests :
  \/ \E id \in RouteIds : Resolves(r, id)
  \/ Enters(r)
  \/ Dispatches(r)
  \/ Leaves(r)

LifeNext ==
  \/ \E why \in {"lease", "training", "rollback"} : Shuts(why)
  \/ Stops
  \/ RollsBack
  \/ DrainTimesOut
  \/ LeaseEnds
  \/ TrainerReports
  \/ TrainerFails
  \/ Lists
  \/ ListsInVain
  \/ Overwrites
  \/ Registers
  \/ RegistersNot
  \/ Completes
  \/ Asks
  \/ Promotes
  \/ Rejects
  \/ EvaluationRaises
  \/ Probes

LoaderNext == \E t \in Threads :
  \/ Looks(t)
  \/ Evicts(t)
  \/ Unloads(t)
  \/ Drops(t)
  \/ Pops(t)
  \/ Loads(t)
  \/ Notes(t)

Next == RouteNext \/ RequestNext \/ LifeNext \/ LoaderNext

Spec == Init /\ [][Next]_vars

-----------------------------------------------------------------------------
TypeOK ==
  /\ registry \in Documents
  /\ pins \in [RouteIds -> Adapters \cup {None, "gone"}]
  /\ engine \subseteq Adapters
  /\ cached \subseteq Adapters
  /\ loader \in [Threads -> [step : LoaderSteps,
                             want : Adapters \cup {None},
                             victim : Adapters \cup {None}]]
  /\ stage \in [Requests -> {"out", "waiting", "loading", "ready", "sent"}]
  /\ using \in [Requests -> [route : RouteIds \cup {None},
                             adapter : Adapters \cup {None}]]
  /\ shut \in BOOLEAN
  /\ behind \subseteq Mishaps
  /\ condemned \subseteq Adapters
  /\ life \in [step : LifeSteps, why : Reasons,
               candidate : Adapters \cup {None},
               other : Adapters \cup {None},
               upstream : SUBSET Adapters,
               todo : SUBSET Adapters]

(***************************************************************************)
(* The cache never grows past the limit vLLM was started with, whoever     *)
(* loads beside whom: capacity is tested under the guard, the load comes   *)
(* after it, and only the gate keeps the lifecycle out of the gap.  Where  *)
(* a drain timed out, or vLLM loaded what the controller was not told of,  *)
(* it may, until vLLM is restarted and listed.                             *)
(***************************************************************************)
CacheBounded ==
  behind \cap {"undrained", "loaded"} = {} => Cardinality(cached) <= MaxCpuLoras

Sends(r) == stage[r] # "sent" /\ stage'[r] = "sent" /\ using[r].adapter # None

Ended(r) == pins[using[r].route] # using[r].adapter

(***************************************************************************)
(* A request goes to vLLM with an adapter that vLLM has, whatever was      *)
(* loaded, evicted, rejected or restarted while it waited for admission    *)
(* and for its body, unless its route has ended since.  Excepted is the    *)
(* time from what the cache was not told of (a restart of vLLM, for a      *)
(* lease or by a recovery that failed, an eviction whose answer was lost,  *)
(* a drain that timed out) to the next reconcile.                          *)
(***************************************************************************)
SentToLoaded ==
  [][\A r \in Requests :
       Sends(r) => \/ behind \ {"loaded"} # {}
                   \/ Ended(r)
                   \/ using[r].adapter \in engine]_vars

(***************************************************************************)
(* An adapter that was rejected, failed or is not judged yet stays loaded  *)
(* and cached, where a hit asks nobody; yet no request reaches it, because *)
(* no route names it.  The exception: one that was promoted, and failed by *)
(* the recovery because the cache could not be rebuilt right after, may    *)
(* have a route already, and is served.                                    *)
(***************************************************************************)
OnlyApprovedServed ==
  [][\A r \in Requests :
       Sends(r) => \/ registry.status[using[r].adapter] = "approved"
                   \/ using[r].adapter \in condemned]_vars

(***************************************************************************)
(* vLLM does not lose an adapter, to an eviction or a restart, while a     *)
(* request that uses it is on its way and its route lives, even where a    *)
(* recovery loads beside undrained requests.  ("cannot unload an adapter   *)
(* pinned by an active route")                                             *)
(***************************************************************************)
InUseStays ==
  [][\A r \in Requests :
       stage[r] \in {"ready", "sent"} /\ using[r].adapter \in engine \ engine'
       => Ended(r)]_vars
=============================================================================
