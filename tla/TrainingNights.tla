---------------------------- MODULE TrainingNights ----------------------------
(***************************************************************************)
(* Night after night of the trainer: train.sh goes through the projects'   *)
(* corpora, train.py makes an adapter of each that has something new, one  *)
(* callback offers all of them, and the policy judges them in turn         *)
(* (clare2/train, and complete_training_batch of lifecycle.py).  What the  *)
(* next night does depends on what the registry then says of the last one. *)
(*                                                                         *)
(* Meanwhile the policy may assemble the corpora anew: each is moved away  *)
(* and written again in its place (corpus.py).  A number stands for a      *)
(* content and for its hash, 0 for a file that is not there or has fewer   *)
(* records than MIN_TRAIN_RECORDS.                                         *)
(* What is half written is a content like any other, with a smaller number *)
(* than the whole; a new assembly may bring back an old content.           *)
(*                                                                         *)
(* A night is one run; DreamTraining and TrainingRun have the runs' own    *)
(* hazards.                                                                *)
(***************************************************************************)
EXTENDS Naturals, FiniteSets

CONSTANTS
  Projects,      \* numbered in the order of their paths
  MaxVersions,   \* bound on the contents of a corpus
  MaxRewrites,   \* bound on the assemblies of a corpus
  MaxFailures    \* bound on what fails for no reason of its own

ASSUME NightConstantsOK ==
  /\ Projects \subseteq Nat
  /\ IsFiniteSet(Projects)
  /\ MaxVersions \in Nat \ {0}
  /\ MaxRewrites \in Nat
  /\ MaxFailures \in Nat

VARIABLES
  corpus,    \* the content of each project's current.jsonl
  writing,   \* projects whose corpus is being assembled
  rewrites,  \* how many assemblies have begun
  unfit,     \* contents without a record that can be trained on
  latest,    \* registry: the status of a project's newest adapter for a hash
  night,     \* the run under way
  failures,  \* what has failed so far, by chance
  learnt,    \* history: what adapters that were promoted were trained on
  misread,   \* history: what they were made for, rewritten before it was read
  judged     \* history: contents that had a verdict

corpora == <<corpus, writing, rewrites>>
nightHistory == <<failures, learnt, misread, judged>>
nightVars == <<corpora, unfit, latest, night, nightHistory>>

Versions == 1 .. MaxVersions
Contents == 0 .. MaxVersions
AdapterStatuses == {"none", "candidate", "approved", "rejected", "failed"}
NightSteps == {"off", "looking", "preparing", "loading", "fitting", "saving",
               "failing", "judging"}

Trained == [project : Projects, hash : Contents, data : Versions,
            disturbed : BOOLEAN]

\* `disturbed' is history: the corpus was touched between hash and reading.
Off == [step |-> "off", todo |-> {}, project |-> 0, hash |-> 0, data |-> 0,
        disturbed |-> FALSE, trained |-> {}]

NightGoes(s) == night' = [night EXCEPT !.step = s]

First(S) == CHOOSE p \in S : \A q \in S : p <= q

FailsByChance ==
  /\ failures < MaxFailures
  /\ failures' = failures + 1

-----------------------------------------------------------------------------
(***************************************************************************)
(* corpus.py: _assemble_project, by day or under the trainer.              *)
(***************************************************************************)
Touches(p) ==
  night' = [night EXCEPT !.disturbed = @ \/ (night.step = "loading" /\ night.project = p)]

\* The last corpus becomes a snapshot, and for a while there is none.
AssemblyMovesAway(p) ==
  /\ p \notin writing
  /\ rewrites < MaxRewrites
  /\ rewrites' = rewrites + 1
  /\ writing' = writing \cup {p}
  /\ corpus' = [corpus EXCEPT ![p] = 0]
  /\ Touches(p)
  /\ UNCHANGED <<unfit, latest, nightHistory>>

\* A part of the new corpus, or the rest of it, reaches the file.
AssemblyWrites(p) ==
  /\ p \in writing
  /\ \E c \in Versions : c > corpus[p] /\ corpus' = [corpus EXCEPT ![p] = c]
  /\ Touches(p)
  /\ UNCHANGED <<writing, rewrites, unfit, latest, nightHistory>>

\* It is written, or the policy was stopped over it.
AssemblyEnds(p) ==
  /\ p \in writing
  /\ writing' = writing \ {p}
  /\ UNCHANGED <<corpus, rewrites, unfit, latest, night, nightHistory>>

(***************************************************************************)
(* train.sh                                                                *)
(***************************************************************************)
\* Every project with a corpus takes part.
NightBegins ==
  /\ night.step = "off"
  /\ night' = [Off EXCEPT !.step = "looking",
                          !.todo = {p \in Projects : corpus[p] > 0}]
  /\ UNCHANGED <<corpora, unfit, latest, nightHistory>>

\* A bug the runs must detect: any adapter for the hash is enough.
AlreadyTrainedAny(p) == latest[p][corpus[p]] # "none"

\* already_trained_for_hash: a rejected, failed or unjudged adapter blocks no
\* retry.
AlreadyTrained(p) == latest[p][corpus[p]] = "approved"

SkipsProject ==
  /\ night.step = "looking"
  /\ night.todo # {}
  /\ corpus[First(night.todo)] > 0
  /\ AlreadyTrained(First(night.todo))
  /\ night' = [night EXCEPT !.todo = @ \ {First(@)}]
  /\ UNCHANGED <<corpora, unfit, latest, nightHistory>>

ChoosesProject ==
  /\ night.step = "looking"
  /\ night.todo # {}
  /\ corpus[First(night.todo)] > 0
  /\ ~AlreadyTrained(First(night.todo))
  /\ night' = [night EXCEPT !.step = "preparing", !.todo = @ \ {First(@)},
                            !.project = First(night.todo)]
  /\ UNCHANGED <<corpora, unfit, latest, nightHistory>>

\* The corpus went away since the projects were listed: an empty one has too few
\* records, and one that is not there ends the script, which tells nobody.
MissesCorpus ==
  /\ night.step = "looking"
  /\ night.todo # {}
  /\ corpus[First(night.todo)] = 0
  /\ \/ night' = [night EXCEPT !.todo = @ \ {First(@)}]
     \/ night' = Off
  /\ UNCHANGED <<corpora, unfit, latest, nightHistory>>

\* The one callback of the night gets through, or is lost: then the run is
\* failed by another, and nobody hears of its adapters.
ReportsBatch ==
  /\ night.step = "looking"
  /\ night.todo = {}
  /\ night.trained # {}
  /\ \/ NightGoes("judging") /\ UNCHANGED failures
     \/ night' = Off /\ FailsByChance
  /\ UNCHANGED <<corpora, unfit, latest, learnt, misread, judged>>

ReportsSkip ==
  /\ night.step = "looking"
  /\ night.todo = {}
  /\ night.trained = {}
  /\ night' = Off
  /\ UNCHANGED <<corpora, unfit, latest, nightHistory>>

\* One project's failure ends the night: the adapters of the projects before it
\* stay on disk, unknown to the registry, and those after it have no turn.
ReportsFailure ==
  /\ night.step = "failing"
  /\ night' = Off
  /\ UNCHANGED <<corpora, unfit, latest, nightHistory>>

-----------------------------------------------------------------------------
(***************************************************************************)
(* train.py                                                                *)
(***************************************************************************)
\* A bug the runs must detect: the corpus is hashed for the manifest, at the end.
HashedAtTheEnd(t) == [t EXCEPT !.hash = corpus[t.project]]

\* The manifest has the hash that was taken before the model was loaded.
Manifest(t) == t

\* The output directory, the hash, the tracker's run.  A file that is not there
\* has no hash; an empty one has.
Prepares ==
  /\ night.step = "preparing"
  /\ \/ night' = [night EXCEPT !.step = "loading", !.hash = corpus[night.project],
                               !.disturbed = FALSE]
     \/ corpus[night.project] = 0 /\ NightGoes("failing")
  /\ UNCHANGED <<corpora, unfit, latest, nightHistory>>

\* The model, and long after the hash the corpus: without one, or with no record
\* that fits (malformed, incomplete or too long), load_corpus raises.
LoadsCorpus ==
  LET read == corpus[night.project]
  IN /\ night.step = "loading"
     /\ IF read = 0 \/ <<night.project, read>> \in unfit
        THEN NightGoes("failing")
        ELSE night' = [night EXCEPT !.step = "fitting", !.data = read]
     /\ UNCHANGED <<corpora, unfit, latest, nightHistory>>

Fits ==
  /\ night.step = "fitting"
  /\ NightGoes("saving")
  /\ UNCHANGED <<corpora, unfit, latest, nightHistory>>

\* Weights, metadata and candidate manifest; train.sh notes the adapter.
SavesAdapter ==
  /\ night.step = "saving"
  /\ night' = [night EXCEPT !.step = "looking", !.project = 0, !.hash = 0,
                            !.data = 0, !.disturbed = FALSE,
                            !.trained = @ \cup
                              {Manifest([project |-> night.project,
                                         hash |-> night.hash,
                                         data |-> night.data,
                                         disturbed |-> night.disturbed])}]
  /\ UNCHANGED <<corpora, unfit, latest, nightHistory>>

\* Anything raises: no memory, an infinite loss, no tracker, no disk.
TrainingRaises ==
  /\ night.step \in {"preparing", "loading", "fitting", "saving"}
  /\ FailsByChance
  /\ NightGoes("failing")
  /\ UNCHANGED <<corpora, unfit, latest, learnt, misread, judged>>

-----------------------------------------------------------------------------
(***************************************************************************)
(* The policy: _complete_one_candidate, in the order of the callback.      *)
(***************************************************************************)
NextTrained ==
  CHOOSE t \in night.trained : \A u \in night.trained : t.project <= u.project

Settled(t) == IF night.trained = {t} THEN Off
              ELSE [night EXCEPT !.trained = @ \ {t}]

IsJudged ==
  LET t == NextTrained
  IN /\ night.step = "judging"
     /\ judged' = judged \cup {<<t.project, t.hash>>}
     /\ \/ /\ latest' = [latest EXCEPT ![t.project][t.hash] = "approved"]
           /\ learnt' = learnt \cup {<<t.project, t.data>>}
           /\ misread' = misread \cup (IF t.disturbed THEN {<<t.project, t.hash>>} ELSE {})
        \/ /\ latest' = [latest EXCEPT ![t.project][t.hash] = "rejected"]
           /\ UNCHANGED <<learnt, misread>>
     /\ night' = Settled(t)
     /\ UNCHANGED <<corpora, unfit, failures>>

\* A probe or vLLM fails, or the policy dies: the adapter is failed, stays a
\* candidate or was not registered yet; those behind it are not judged.
JudgingBreaksOff ==
  LET t == NextTrained
  IN /\ night.step = "judging"
     /\ FailsByChance
     /\ \E s \in {"candidate", "failed", latest[t.project][t.hash]} :
          latest' = [latest EXCEPT ![t.project][t.hash] = s]
     /\ night' = Off
     /\ UNCHANGED <<corpora, unfit, learnt, misread, judged>>

-----------------------------------------------------------------------------
NightInit ==
  /\ corpus \in [Projects -> Contents]
  /\ writing = {}
  /\ rewrites = 0
  /\ unfit \in SUBSET (Projects \X Versions)
  /\ latest = [p \in Projects |-> [c \in Contents |-> "none"]]
  /\ night = Off
  /\ failures = 0
  /\ learnt = {}
  /\ misread = {}
  /\ judged = {}

NightGoesOn ==
  \/ NightBegins
  \/ SkipsProject
  \/ ChoosesProject
  \/ MissesCorpus
  \/ Prepares
  \/ LoadsCorpus
  \/ Fits
  \/ SavesAdapter
  \/ ReportsBatch
  \/ ReportsSkip
  \/ ReportsFailure
  \/ IsJudged

NightNext ==
  \/ NightGoesOn
  \/ TrainingRaises
  \/ JudgingBreaksOff
  \/ \E p \in Projects : AssemblyMovesAway(p) \/ AssemblyWrites(p) \/ AssemblyEnds(p)

NightSpec == NightInit /\ [][NightNext]_nightVars

\* The scheduler begins a run every night, and a run ends.
NightFairness == WF_nightVars(NightGoesOn)

-----------------------------------------------------------------------------
NightTypeOK ==
  /\ corpus \in [Projects -> Contents]
  /\ writing \subseteq Projects
  /\ rewrites \in 0 .. MaxRewrites
  /\ unfit \subseteq Projects \X Versions
  /\ latest \in [Projects -> [Contents -> AdapterStatuses]]
  /\ night \in [step : NightSteps, todo : SUBSET Projects,
                project : Projects \cup {0}, hash : Contents, data : Contents,
                disturbed : BOOLEAN, trained : SUBSET Trained]
  /\ failures \in 0 .. MaxFailures
  /\ learnt \subseteq Projects \X Versions
  /\ misread \subseteq Projects \X Contents
  /\ judged \subseteq Projects \X Contents

(***************************************************************************)
(* A project is passed over for "no new content" only if an adapter that   *)
(* was promoted learnt the content it has now: not one that was rejected   *)
(* or never judged, and not one whose corpus was rewritten while it        *)
(* fitted, however often contents come back.  One thing deceives the       *)
(* trainer: a rewrite after the hash that was not over, or brought another *)
(* content, when load_corpus read.                                         *)
(***************************************************************************)
SkippedIsLearnt ==
  [][SkipsProject =>
       <<First(night.todo), corpus[First(night.todo)]>> \in learnt \cup misread]_nightVars

(***************************************************************************)
(* Again and again every corpus there is has had its verdict: whatever     *)
(* failed before, one that keeps its content is judged, unless a project's *)
(* corpus cannot be trained on.  Then every night fails there, and nobody  *)
(* is judged.                                                              *)
(***************************************************************************)
EveryCorpusJudged ==
  []<>(\/ \A p \in Projects : corpus[p] > 0 => <<p, corpus[p]>> \in judged
       \/ \E p \in Projects : <<p, corpus[p]>> \in unfit)
=============================================================================
