----------------------------- MODULE BaseUpgrade -----------------------------
(***************************************************************************)
(* The base model is replaced while adapters of the old one are about:     *)
(* what the registry (registry.py) accepts, keeps and refuses when .env    *)
(* names another model.  Three processes read .env, each when its          *)
(* container is created: the policy, the trainer, and vLLM, which is left  *)
(* out.  The trainer writes adapter directories, the policy registers      *)
(* them, and its start-up decides whether the registry takes a new base.   *)
(*                                                                         *)
(* A base is a number: the fingerprint (model, revision, config and        *)
(* tokenizer hashes, architecture, quantization) agrees as a whole or does *)
(* not.  When the lifecycle judges which adapter is TrainingRun's affair;  *)
(* here it may judge any that is registered.                               *)
(***************************************************************************)
EXTENDS Naturals

CONSTANTS
  Artifacts,   \* immutable adapter ids, each with its directory
  Unset,       \* JSON null
  MaxBase      \* bound on the models .env names, one after the other

ASSUME BaseConstantsOK ==
  /\ Unset \notin Artifacts
  /\ MaxBase \in Nat \ {0}

VARIABLES
  deployed,     \* the base model that .env names
  policyBase,   \* the one the policy's container was created with
  policy,       \* the policy process: "down" or "up"
  trainerBase,  \* the one the trainer's container was created with
  making,       \* the adapter the trainer is at work on
  artifact,     \* adapter directories: how far their weights are written
  manifests,    \* those that hold candidate_manifest.json ...
  madeFor,      \* ... and the inference_base in it
  stored,       \* registry.json
  pending       \* the temporary file that is to replace it

trainerVars == <<trainerBase, making, artifact, manifests, madeFor>>
policyVars == <<policyBase, policy, stored, pending>>
baseVars == <<deployed, trainerVars, policyVars>>

Registry == INSTANCE AdapterRegistry WITH Adapters <- Artifacts, None <- Unset

Bases == 1 .. MaxBase

EmptyRegistry ==
  [status |-> [a \in Artifacts |-> "absent"], current |-> Unset, rollback |-> Unset]

\* No file, for stored and for pending.
NoFile == [base |-> 0, reg |-> EmptyRegistry]

\* Adapters that are served or may yet be: those awaiting a verdict or
\* approved, and the targets of the aliases, whatever became of them.
Servable(d) ==
  {a \in Artifacts : \/ d.reg.status[a] \in {"candidate", "approved"}
                     \/ a \in {d.reg.current, d.reg.rollback}}

-----------------------------------------------------------------------------
(***************************************************************************)
(* The operator edits .env; compose recreates a container sooner or later. *)
(***************************************************************************)
Upgrades ==
  /\ deployed < MaxBase
  /\ deployed' = deployed + 1
  /\ UNCHANGED <<trainerVars, policyVars>>

RecreatesTrainer ==
  /\ trainerBase' = deployed
  /\ making' = Unset
  /\ UNCHANGED <<deployed, artifact, manifests, madeFor, policyVars>>

-----------------------------------------------------------------------------
(***************************************************************************)
(* train.py: the directory, the weights, and after them the manifest.      *)
(***************************************************************************)
\* mkdir(exist_ok=False)
Makes(a) ==
  /\ making = Unset
  /\ artifact[a] = "none"
  /\ making' = a
  /\ artifact' = [artifact EXCEPT ![a] = "made"]
  /\ UNCHANGED <<deployed, trainerBase, manifests, madeFor, policyVars>>

\* save_pretrained: the header of a safetensors file comes first.
SavesWeights(a) ==
  /\ making = a
  /\ artifact' = [artifact EXCEPT ![a] = IF @ = "made" THEN "header" ELSE "whole"]
  /\ UNCHANGED <<deployed, trainerBase, making, manifests, madeFor, policyVars>>

\* A bug the runs must detect: the manifest is written before the weights are.
ListsEarly(a) ==
  /\ making = a
  /\ making' = Unset
  /\ manifests' = manifests \cup {a}
  /\ madeFor' = [madeFor EXCEPT ![a] = trainerBase]
  /\ UNCHANGED <<deployed, trainerBase, artifact, policyVars>>

\* candidate_manifest.json, written last; half of one does not parse and counts
\* as none.
Lists(a) ==
  /\ making = a
  /\ artifact[a] = "whole"
  /\ making' = Unset
  /\ manifests' = manifests \cup {a}
  /\ madeFor' = [madeFor EXCEPT ![a] = trainerBase]
  /\ UNCHANGED <<deployed, trainerBase, artifact, policyVars>>

\* failure.json is written beside what there is, or nothing is.
TrainerBreaks ==
  /\ making # Unset
  /\ making' = Unset
  /\ UNCHANGED <<deployed, trainerBase, artifact, manifests, madeFor, policyVars>>

-----------------------------------------------------------------------------
(***************************************************************************)
(* registry.py.  A mutation reads the file, which validates it, and writes *)
(* the whole of it anew: to a temporary file, which then replaces it.      *)
(***************************************************************************)
\* _basic_safetensors_validation: no further than the header of the weights.
HeaderReads(a) == artifact[a] \in {"header", "whole"}

\* validate_adapter
Sound(a) == artifact[a] # "none" /\ HeaderReads(a)

\* validate_document, without which nothing can be read.
Readable(d) ==
  /\ d.base # 0
  /\ \A a \in Registry!Known(d.reg) : Sound(a)
  /\ Registry!ValidDocument(d.reg)

\* update, up to the temporary file, under the registry's lock.
Updates(reg) ==
  /\ policy = "up"
  /\ pending = NoFile
  /\ Readable(stored)
  /\ pending' = [stored EXCEPT !.reg = reg]
  /\ UNCHANGED <<deployed, policyBase, policy, stored, trainerVars>>

\* _atomic_write ends.
Replaces ==
  /\ pending # NoFile
  /\ stored' = pending
  /\ pending' = NoFile
  /\ UNCHANGED <<deployed, policyBase, policy, trainerVars>>

\* _validate_base_compatibility
Compatible(a) == madeFor[a] = stored.base

\* _register_candidate; what has no manifest, does not validate or was made for
\* another base raises, and the lifecycle recovers.
Registers(a) ==
  /\ a \in manifests \ Registry!Known(stored.reg)
  /\ Sound(a)
  /\ Compatible(a)
  /\ Updates(Registry!AddAdapter(stored.reg, a))

Promotes(a) ==
  /\ Registry!MayPromote(stored.reg, a)
  /\ Updates(Registry!Promote(stored.reg, a))

\* _apply_evaluation, _recover (after a promotion too, when the controller's
\* refresh raised), reconcile_terminal_state.
Condemns(a, s) ==
  /\ a \in Registry!Known(stored.reg)
  /\ Updates(Registry!Transition(stored.reg, a, s))

\* lifecycle.rollback, and again what restores the aliases when its probe fails.
RollsBack ==
  /\ Registry!MayRollback(stored.reg)
  /\ Updates(Registry!Rollback(stored.reg))

\* A bug the runs must detect: an alias does not hold the base, only the
\* status of its adapter does.
CanRefreshBaseAliased(b) ==
  /\ stored.base # b
  /\ \A a \in Artifacts : stored.reg.status[a] \notin {"candidate", "approved"}

\* _can_refresh_base
CanRefreshBase(b) ==
  /\ stored.base # b
  /\ \A a \in Artifacts : stored.reg.status[a] \notin {"candidate", "approved"}
  /\ {stored.reg.current, stored.reg.rollback} = {Unset}

\* startup() initializes the registry before anybody is served; a registry that
\* cannot be read keeps the policy from starting.
PolicyStarts(b) ==
  /\ policy = "down"
  /\ stored = NoFile \/ Readable(stored)
  /\ policy' = "up"
  /\ policyBase' = b
  /\ pending' = IF stored = NoFile THEN [NoFile EXCEPT !.base = b]
                ELSE IF CanRefreshBase(b) THEN [stored EXCEPT !.base = b]
                ELSE NoFile
  /\ UNCHANGED <<deployed, stored, trainerVars>>

\* With or without its container; a temporary file is never read again.
PolicyDies ==
  /\ policy = "up"
  /\ policy' = "down"
  /\ pending' = NoFile
  /\ UNCHANGED <<deployed, policyBase, stored, trainerVars>>

-----------------------------------------------------------------------------
BaseInit ==
  /\ deployed = 1
  /\ policyBase = 1
  /\ policy = "down"
  /\ trainerBase = 1
  /\ making = Unset
  /\ artifact = [a \in Artifacts |-> "none"]
  /\ manifests = {}
  /\ madeFor = [a \in Artifacts |-> 0]
  /\ stored = NoFile
  /\ pending = NoFile

TrainerStep ==
  \/ RecreatesTrainer
  \/ TrainerBreaks
  \/ \E a \in Artifacts : Makes(a) \/ SavesWeights(a) \/ Lists(a)

Judges(a) == Promotes(a) \/ \E s \in {"rejected", "failed"} : Condemns(a, s)

PolicyStep ==
  \/ \E a \in Artifacts : Registers(a) \/ Judges(a)
  \/ RollsBack
  \/ Replaces
  \/ \E b \in {policyBase, deployed} : PolicyStarts(b)
  \/ PolicyDies

BaseNext == Upgrades \/ TrainerStep \/ PolicyStep

BaseSpec == BaseInit /\ [][BaseNext]_baseVars

-----------------------------------------------------------------------------
Files == [base : Bases \cup {0}, reg : Registry!Documents]

\* The document, its temporary copy and the directories have the shapes the
\* policy and the trainer write.
BaseTypeOK ==
  /\ {deployed, policyBase, trainerBase} \subseteq Bases
  /\ policy \in {"down", "up"}
  /\ making \in Artifacts \cup {Unset}
  /\ artifact \in [Artifacts -> {"none", "made", "header", "whole"}]
  /\ manifests \subseteq Artifacts
  /\ madeFor \in [Artifacts -> Bases \cup {0}]
  /\ {stored, pending} \subseteq Files

(***************************************************************************)
(* Whatever is served or may be, by an alias, an approval or a verdict to  *)
(* come, was made for the base the registry names: through upgrades of     *)
(* .env, containers created before and after them, rollbacks, adapters     *)
(* condemned while an alias names them, and deaths of the policy.          *)
(* (_can_refresh_base, _validate_base_compatibility; phase-08.md:71        *)
(* "base/inference fingerprints match")                                    *)
(***************************************************************************)
ServableFits == \A a \in Servable(stored) : madeFor[a] = stored.base

(***************************************************************************)
(* What the registry lists has all its weights, although it looks at their *)
(* header only: no death of the trainer leaves half an adapter where it    *)
(* can be registered, and none is written again once it is listed.         *)
(* (validate_adapter; train.py writes the manifest last)                   *)
(***************************************************************************)
RegisteredIsWhole == \A a \in Registry!Known(stored.reg) : artifact[a] = "whole"
=============================================================================
