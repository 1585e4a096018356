----------------------------- MODULE WorkerLoad -----------------------------
(***************************************************************************)
(* The start of the image worker (qwen-image-edit/api.py): startup,        *)
(* _load_pipeline, _LoadStatus and the cache of the quantized transformer. *)
(* Each section of the model is loaded after a look at the free memory of  *)
(* the host, in a container that Docker starts again whenever the process  *)
(* exits.  The status file and the cache outlive the process.              *)
(*                                                                         *)
(* What a look at the memory finds is any amount: a section uses what it   *)
(* uses, PyTorch keeps blocks of what it has freed, and other tenants take *)
(* memory and return it between any two looks.                             *)
(***************************************************************************)
EXTENDS Naturals

CONSTANTS
  Sections,      \* how many sections are loaded, one after the other
  MaxDeaths      \* bound on the process's deaths

ASSUME LoadConstantsOK ==
  /\ Sections \in Nat \ {0}
  /\ MaxDeaths \in Nat

VARIABLES
  process,     \* "down"; "booting"; "loading", "saving" (the quantized
               \* transformer); "assigning"; "serving"
  section,     \* the section that is looked at, or loaded, next
  gated,       \* whether the look at the memory allowed it
  statusFile,  \* the state in STATUS_PATH
  models,      \* which of _pipeline and _generate_pipeline are not None
  cache,       \* QUANTIZED_TRANSFORMER_PATH: "none", "partial", "whole"
  deaths

loadVars == <<process, section, gated, statusFile, models, cache, deaths>>

Pipelines == {"_pipeline", "_generate_pipeline"}

\* The memory of the process is gone, and with it everything but the files.
Exits ==
  /\ process' = "down"
  /\ section' = 1
  /\ gated' = FALSE
  /\ models' = {}

-----------------------------------------------------------------------------
\* startup: the metrics' port, the profile, then the constructor of _LoadStatus.
Boots ==
  /\ process = "down"
  /\ process' = "booting"
  /\ UNCHANGED <<section, gated, statusFile, models, cache, deaths>>

\* A bug the runs must detect: the file is first written at the first section.
StatusAtStartLate == statusFile

StatusAtStart == "starting"

StartsLoading ==
  /\ process = "booting"
  /\ process' = "loading"
  /\ statusFile' = StatusAtStart
  /\ UNCHANGED <<section, gated, models, cache, deaths>>

\* _LoadStatus.gate finds memory for the section and the margin, ...
GateOpens ==
  /\ process = "loading"
  /\ section <= Sections
  /\ ~gated
  /\ gated' = TRUE
  /\ statusFile' = "loading"
  /\ UNCHANGED <<process, section, models, cache, deaths>>

\* A bug the runs must detect: LoadAborted ends the process like any exception.
GateAbortsRaised ==
  /\ process = "loading"
  /\ section <= Sections
  /\ ~gated
  /\ statusFile' = "aborted"
  /\ Exits
  /\ UNCHANGED <<cache, deaths>>

\* ... or too little of it, which ends the load: the process serves without a
\* model.
GateAborts ==
  /\ process = "loading"
  /\ section <= Sections
  /\ ~gated
  /\ statusFile' = "aborted"
  /\ process' = "serving"
  /\ section' = 1
  /\ UNCHANGED <<gated, models, cache, deaths>>

\* A section is in memory: record_done.
Takes ==
  /\ gated' = FALSE
  /\ statusFile' = "loaded"
  /\ section' = section + 1

\* _load_transformer_cached: the transformer comes from the cache, ...
LoadsFromCache ==
  /\ process = "loading"
  /\ gated
  /\ section = 1
  /\ cache = "whole"
  /\ Takes
  /\ UNCHANGED <<process, models, cache, deaths>>

\* ... or cannot, because the cache has its config.json and not its weights: the
\* exception ends the process; ...
CacheBroken ==
  /\ process = "loading"
  /\ gated
  /\ section = 1
  /\ cache = "partial"
  /\ Exits
  /\ UNCHANGED <<statusFile, cache, deaths>>

\* ... or is quantized anew, and save_pretrained writes config.json first, ...
Quantizes ==
  /\ process = "loading"
  /\ gated
  /\ section = 1
  /\ cache = "none"
  /\ cache' = "partial"
  /\ process' = "saving"
  /\ UNCHANGED <<section, gated, statusFile, models, deaths>>

\* ... and the weights after it.
Saves ==
  /\ process = "saving"
  /\ cache' = "whole"
  /\ process' = "loading"
  /\ Takes
  /\ UNCHANGED <<models, deaths>>

LoadsSection ==
  /\ process = "loading"
  /\ gated
  /\ section > 1
  /\ Takes
  /\ UNCHANGED <<process, models, cache, deaths>>

\* _load_pipeline writes "ready" and returns, ...
WritesReady ==
  /\ process = "loading"
  /\ section > Sections
  /\ statusFile' = "ready"
  /\ process' = "assigning"
  /\ UNCHANGED <<section, gated, models, cache, deaths>>

\* ... its answer is assigned, ...
AssignsPipeline ==
  /\ process = "assigning"
  /\ models = {}
  /\ models' = {"_pipeline"}
  /\ UNCHANGED <<process, section, gated, statusFile, cache, deaths>>

\* ... and the pipeline that generates is made of it.
MakesGenerator ==
  /\ process = "assigning"
  /\ models = {"_pipeline"}
  /\ models' = Pipelines
  /\ process' = "serving"
  /\ UNCHANGED <<section, gated, statusFile, cache, deaths>>

\* The process is killed, or raises, in the middle of anything.
WorkerDies ==
  /\ process # "down"
  /\ deaths < MaxDeaths
  /\ deaths' = deaths + 1
  /\ Exits
  /\ UNCHANGED <<statusFile, cache>>

-----------------------------------------------------------------------------
LoadInit ==
  /\ process = "down"
  /\ section = 1
  /\ gated = FALSE
  /\ statusFile = "none"
  /\ models = {}
  /\ cache = "none"
  /\ deaths = 0

LoadGoesOn ==
  \/ Boots
  \/ StartsLoading
  \/ GateOpens
  \/ GateAborts
  \/ LoadsFromCache
  \/ CacheBroken
  \/ Quantizes
  \/ Saves
  \/ LoadsSection
  \/ WritesReady
  \/ AssignsPipeline
  \/ MakesGenerator

LoadNext == LoadGoesOn \/ WorkerDies

LoadSpec == LoadInit /\ [][LoadNext]_loadVars

-----------------------------------------------------------------------------
LoadTypeOK ==
  /\ process \in {"down", "booting", "loading", "saving", "assigning", "serving"}
  /\ section \in 1 .. Sections + 1
  /\ gated \in BOOLEAN
  /\ statusFile \in {"none", "starting", "loading", "loaded", "aborted", "ready"}
  /\ models \subseteq Pipelines
  /\ cache \in {"none", "partial", "whole"}
  /\ deaths \in 0 .. MaxDeaths

(***************************************************************************)
(* The status file outlives the process that wrote it, and may say "ready" *)
(* of a process that died before its pipelines were there.  But once the   *)
(* worker serves it says "ready" exactly when both are, and "aborted" when *)
(* neither is; and it says neither of a process that is still loading.     *)
(***************************************************************************)
StatusIsTrue ==
  /\ process = "serving" =>
       /\ statusFile = "ready" <=> models = Pipelines
       /\ statusFile = "aborted" <=> models = {}
  /\ process \in {"loading", "saving"} => statusFile \notin {"ready", "aborted"}
=============================================================================
