----------------------------- MODULE PartsProofs -----------------------------
(***************************************************************************)
(* Safety of the trainer's nights (TrainingNights), for any projects,      *)
(* contents and failures; of the registry that takes what they leave       *)
(* (BaseUpgrade), for any bases and adapters; and of the five parts beside *)
(* one another (MCParts), which is what the run has to do with the         *)
(* theorems about each of them.                                            *)
(***************************************************************************)
EXTENDS MCParts, ImageProofs, VideoProofs, WellFoundedInduction, TLAPS

NightRecords ==
  [step : NightSteps, todo : SUBSET Projects, project : Projects \cup {0},
   hash : Contents, data : Contents, disturbed : BOOLEAN, trained : SUBSET Trained]

LEMMA VersionsCount ==
  /\ MaxVersions \in Nat /\ MaxVersions > 0
  /\ 0 \in Contents /\ Contents \subseteq Nat
  /\ Versions \subseteq Contents
  /\ \A c \in Contents : c = 0 \/ c \in Versions
BY NightConstantsOK DEF Versions, Contents

LEMMA OffRecord == Off \in NightRecords
BY VersionsCount DEF Off, NightRecords, NightSteps

\* A set of numbers has a least one: what First and NextTrained choose.
LEMMA Least ==
  ASSUME NEW T, T \subseteq Nat, T # {}
  PROVE  \E n \in T : \A m \in T : n <= m
<1> DEFINE R == OpToRel(<, Nat)
<1>1. IsWellFoundedOn(R, Nat)
  BY NatLessThanWellFounded
<1>2. \A a, b \in Nat : a < b => <<a, b>> \in R
  BY DEF OpToRel
<1> HIDE DEF R
<1>3. PICK n \in T : \A m \in T : <<m, n>> \notin R
  BY <1>1, WFMin
<1>4. ASSUME NEW m \in T PROVE n <= m
  <2>1. ~(m < n)
    BY <1>2, <1>3
  <2> QED
    BY <2>1
<1> QED
  BY <1>4

LEMMA FirstOf ==
  ASSUME NEW S \in SUBSET Projects, S # {}
  PROVE  First(S) \in S
<1>1. \E p \in S : \A q \in S : p <= q
  BY Least, NightConstantsOK
<1> QED
  BY <1>1 DEF First

LEMMA NextOf ==
  ASSUME night.trained \in SUBSET Trained, night.trained # {}
  PROVE  NextTrained \in night.trained
<1> DEFINE N == {t.project : t \in night.trained}
<1>1. N \subseteq Nat /\ N # {}
  BY NightConstantsOK DEF Trained
<1>2. PICK n \in N : \A m \in N : n <= m
  BY <1>1, Least
<1>3. \E t \in night.trained : \A u \in night.trained : t.project <= u.project
  BY <1>2
<1> QED
  BY <1>3 DEF NextTrained

-----------------------------------------------------------------------------
(***************************************************************************)
(* What a night knows of its project: the content it hashed is the one it  *)
(* learns from, unless the corpus was touched in between.                  *)
(***************************************************************************)
NightTypes ==
  /\ corpus \in [Projects -> Contents]
  /\ writing \subseteq Projects
  /\ rewrites \in 0 .. MaxRewrites
  /\ unfit \subseteq Projects \X Versions
  /\ latest \in [Projects -> [Contents -> AdapterStatuses]]
  /\ night \in NightRecords
  /\ failures \in 0 .. MaxFailures
  /\ learnt \subseteq Projects \X Versions
  /\ misread \subseteq Projects \X Contents
  /\ judged \subseteq Projects \X Contents

KnownContent ==
  /\ night.step \in {"preparing", "loading", "fitting", "saving"} =>
       night.project \in Projects
  /\ night.step = "loading" =>
       night.disturbed \/ night.hash = corpus[night.project]
  /\ night.step \in {"fitting", "saving"} =>
       /\ night.data \in Versions
       /\ night.disturbed \/ night.hash = night.data
  /\ \A t \in night.trained : t.disturbed \/ t.hash = t.data
  /\ night.step = "judging" => night.trained # {}

NightTypeInv == NightTypes /\ KnownContent

LEMMA NightTypesAre == NightTypeOK <=> NightTypes
BY DEF NightTypeOK, NightTypes, NightRecords

\* The night is over, or moves to a step that asks for nothing.
LEMMA NightOver ==
  ASSUME NightTypeInv,
         \/ night' = Off
         \/ night' = [night EXCEPT !.step = "failing"]
         \/ /\ night.trained # {}
            /\ night' = [night EXCEPT !.step = "judging"]
  PROVE  night' \in NightRecords /\ KnownContent'
<1>0. night \in NightRecords
  BY DEF NightTypeInv, NightTypes
<1>1. CASE night' = Off
  BY <1>1, OffRecord DEF KnownContent, Off
<1>2. ASSUME NEW s \in {"failing", "judging"},
             night' = [night EXCEPT !.step = s], s = "judging" => night.trained # {}
      PROVE  night' \in NightRecords /\ KnownContent'
  <2>1. /\ night' \in NightRecords
        /\ night'.step = s /\ night'.trained = night.trained
    BY <1>0, <1>2 DEF NightRecords, NightSteps
  <2> QED
    BY <1>2, <2>1 DEF NightTypeInv, KnownContent
<1> QED
  BY <1>1, <1>2

LEMMA ContentChanges ==
  ASSUME NightTypeInv, NEW p \in Projects,
         AssemblyMovesAway(p) \/ AssemblyWrites(p) \/ AssemblyEnds(p)
  PROVE  NightTypeInv'
<1>0. corpus \in [Projects -> Contents] /\ night \in NightRecords
  BY DEF NightTypeInv, NightTypes
<1>1. /\ corpus' \in [Projects -> Contents]
      /\ writing' \subseteq Projects
      /\ rewrites' \in 0 .. MaxRewrites
  <2>1. corpus' \in [Projects -> Contents]
    BY <1>0, VersionsCount DEF AssemblyMovesAway, AssemblyWrites, AssemblyEnds
  <2>2. writing' \subseteq Projects
    BY DEF NightTypeInv, NightTypes, AssemblyMovesAway, AssemblyWrites, AssemblyEnds
  <2>3. rewrites' \in 0 .. MaxRewrites
    BY NightConstantsOK
       DEF NightTypeInv, NightTypes, AssemblyMovesAway, AssemblyWrites, AssemblyEnds
  <2> QED
    BY <2>1, <2>2, <2>3
<1>2. CASE AssemblyEnds(p)
  BY <1>1, <1>2 DEF AssemblyEnds, nightHistory, NightTypeInv, NightTypes, KnownContent
<1>3. CASE AssemblyMovesAway(p) \/ AssemblyWrites(p)
  <2>1. /\ Touches(p)
        /\ \A q \in Projects : q # p => corpus'[q] = corpus[q]
    BY <1>0, <1>3 DEF AssemblyMovesAway, AssemblyWrites
  <2>2. /\ night' \in NightRecords
        /\ \A f \in {"step", "project", "hash", "data", "trained"} : night'[f] = night[f]
        /\ night.disturbed => night'.disturbed
        /\ night.step = "loading" /\ night.project = p => night'.disturbed
    BY <1>0, <2>1 DEF Touches, NightRecords
  <2>3. /\ night'.step = night.step /\ night'.project = night.project
        /\ night'.hash = night.hash /\ night'.data = night.data
        /\ night'.trained = night.trained
    BY <2>2
  <2>4. KnownContent'
    BY <2>1, <2>2, <2>3 DEF NightTypeInv, KnownContent
  <2> QED
    BY <1>1, <1>3, <2>2, <2>4
       DEF AssemblyMovesAway, AssemblyWrites, nightHistory, NightTypeInv, NightTypes
<1> QED
  BY <1>2, <1>3

\* What the steps of a night make of it; none of them touches the corpora.
LEMMA BeginsTypes ==
  ASSUME NightTypeInv, NightBegins PROVE night' \in NightRecords /\ KnownContent'
<1> DEFINE S == {p \in Projects : corpus[p] > 0}
           r == [Off EXCEPT !.step = "looking", !.todo = S]
<1>1. night' = r /\ corpus' = corpus
  BY DEF NightBegins, corpora
<1>2. r \in NightRecords /\ r.step = "looking" /\ r.trained = {}
  BY OffRecord DEF Off, NightRecords, NightSteps
<1> HIDE DEF r
<1> QED
  BY <1>1, <1>2 DEF KnownContent

LEMMA LooksTypes ==
  ASSUME NightTypeInv, SkipsProject \/ ChoosesProject \/ MissesCorpus
  PROVE  night' \in NightRecords /\ KnownContent'
<1> DEFINE p == First(night.todo)
           rest == night.todo \ {p}
<1>0. /\ night \in NightRecords
      /\ night.step = "looking" /\ night.todo # {}
  BY DEF NightTypeInv, NightTypes, SkipsProject, ChoosesProject, MissesCorpus
<1>1. night.todo \in SUBSET Projects
  BY <1>0 DEF NightRecords
<1>2. p \in Projects
  BY <1>0, <1>1, FirstOf
<1> HIDE DEF p
<1>3. CASE night' = Off
  BY <1>3, NightOver
<1>4. CASE SkipsProject \/ (MissesCorpus /\ night' # Off)
  <2> DEFINE r == [night EXCEPT !.todo = rest]
  <2>1. night' = r
    BY <1>0, <1>4 DEF SkipsProject, MissesCorpus, NightRecords, p
  <2>2. /\ r \in NightRecords /\ r.step = "looking" /\ r.trained = night.trained
    BY <1>0 DEF NightRecords
  <2> HIDE DEF r
  <2> QED
    BY <2>1, <2>2 DEF NightTypeInv, KnownContent
<1>5. CASE ChoosesProject
  <2> DEFINE r == [night EXCEPT !.step = "preparing", !.todo = rest, !.project = p]
  <2>1. night' = r
    BY <1>0, <1>5 DEF ChoosesProject, NightRecords, p
  <2>2. /\ r \in NightRecords /\ r.step = "preparing"
        /\ r.project = p /\ r.trained = night.trained
    BY <1>0, <1>2 DEF NightRecords, NightSteps
  <2> HIDE DEF r
  <2> QED
    BY <1>2, <2>1, <2>2 DEF NightTypeInv, KnownContent
<1> QED
  BY <1>3, <1>4, <1>5

LEMMA PreparesTypes ==
  ASSUME NightTypeInv, Prepares PROVE night' \in NightRecords /\ KnownContent'
<1> DEFINE v == corpus[night.project]
           r == [night EXCEPT !.step = "loading", !.hash = v, !.disturbed = FALSE]
<1>0. /\ night \in NightRecords /\ corpus' = corpus
      /\ night' = r \/ night' = [night EXCEPT !.step = "failing"]
      /\ night.project \in Projects
  BY DEF NightTypeInv, NightTypes, KnownContent, Prepares, NightGoes, corpora
<1>1. v \in Contents
  BY <1>0 DEF NightTypeInv, NightTypes
<1>2. /\ r \in NightRecords /\ r.step = "loading" /\ r.hash = v
      /\ r.project = night.project /\ r.trained = night.trained
  BY <1>0, <1>1 DEF NightRecords, NightSteps
<1> HIDE DEF r
<1>3. CASE night' = r
  BY <1>0, <1>2, <1>3 DEF NightTypeInv, KnownContent
<1> QED
  BY <1>0, <1>3, NightOver

LEMMA LoadsTypes ==
  ASSUME NightTypeInv, LoadsCorpus PROVE night' \in NightRecords /\ KnownContent'
<1> DEFINE v == corpus[night.project]
           r == [night EXCEPT !.step = "fitting", !.data = v]
<1>0. /\ night \in NightRecords
      /\ night.project \in Projects /\ night.step = "loading"
      /\ night' = [night EXCEPT !.step = "failing"] \/ (v # 0 /\ night' = r)
  BY DEF NightTypeInv, NightTypes, KnownContent, LoadsCorpus, NightGoes
<1>1. v \in Contents
  BY <1>0 DEF NightTypeInv, NightTypes
<1>2. /\ r \in NightRecords /\ r.step = "fitting" /\ r.hash = night.hash /\ r.data = v
      /\ r.project = night.project /\ r.trained = night.trained
      /\ r.disturbed = night.disturbed
  BY <1>0, <1>1 DEF NightRecords, NightSteps
<1> HIDE DEF r
<1>3. CASE v # 0 /\ night' = r
  BY <1>0, <1>1, <1>2, <1>3, VersionsCount DEF NightTypeInv, KnownContent
<1> QED
  BY <1>0, <1>3, NightOver

LEMMA FitsTypes ==
  ASSUME NightTypeInv, Fits PROVE night' \in NightRecords /\ KnownContent'
<1> DEFINE r == [night EXCEPT !.step = "saving"]
<1>0. night \in NightRecords /\ night' = r /\ night.step = "fitting"
  BY DEF NightTypeInv, NightTypes, Fits, NightGoes
<1>1. /\ r \in NightRecords /\ r.step = "saving" /\ r.hash = night.hash
      /\ r.data = night.data /\ r.project = night.project
      /\ r.disturbed = night.disturbed /\ r.trained = night.trained
  BY <1>0 DEF NightRecords, NightSteps
<1> HIDE DEF r
<1> QED
  BY <1>0, <1>1 DEF NightTypeInv, KnownContent

LEMMA SavesTypes ==
  ASSUME NightTypeInv, SavesAdapter PROVE night' \in NightRecords /\ KnownContent'
<1> DEFINE t == [project |-> night.project, hash |-> night.hash, data |-> night.data,
                 disturbed |-> night.disturbed]
           r == [night EXCEPT !.step = "looking", !.project = 0, !.hash = 0,
                              !.data = 0, !.disturbed = FALSE,
                              !.trained = night.trained \cup {t}]
<1>0. night \in NightRecords /\ night.step = "saving"
  BY DEF NightTypeInv, NightTypes, SavesAdapter
<1>1. night' = r
  BY <1>0 DEF SavesAdapter, Manifest, NightRecords
<1>2. /\ night.project \in Projects /\ night.data \in Versions
      /\ night.disturbed \/ night.hash = night.data
  BY <1>0 DEF NightTypeInv, KnownContent
<1>3. /\ t \in Trained /\ (t.disturbed \/ t.hash = t.data)
  BY <1>0, <1>2 DEF Trained, NightRecords
<1> HIDE DEF t
<1>4. /\ r \in NightRecords /\ r.step = "looking"
      /\ r.trained = night.trained \cup {t}
  BY <1>0, <1>3, VersionsCount DEF NightRecords, NightSteps
<1> HIDE DEF r
<1> QED
  BY <1>1, <1>3, <1>4 DEF NightTypeInv, KnownContent

LEMMA JudgesTypes ==
  ASSUME NightTypeInv, IsJudged PROVE night' \in NightRecords /\ KnownContent'
<1> DEFINE t == NextTrained
           r == [night EXCEPT !.trained = night.trained \ {t}]
<1>0. /\ night \in NightRecords /\ night.step = "judging"
      /\ night' = Settled(t) /\ night.trained # {}
  BY DEF NightTypeInv, NightTypes, KnownContent, IsJudged
<1>1. night' = Off \/ (night.trained # {t} /\ night' = r)
  BY <1>0 DEF Settled, NightRecords
<1>2. t \in night.trained
  BY <1>0, NextOf DEF NightRecords
<1> HIDE DEF t
<1>3. /\ r \in NightRecords /\ r.step = "judging" /\ r.trained = night.trained \ {t}
  BY <1>0 DEF NightRecords
<1> HIDE DEF r
<1>4. CASE night.trained # {t} /\ night' = r
  BY <1>0, <1>2, <1>3, <1>4 DEF NightTypeInv, KnownContent
<1> QED
  BY <1>0, <1>1, <1>4, NightOver

\* The verdict, or what stands for it, on an adapter the trainer made.
LEMMA LatestTypes ==
  ASSUME NightTypeInv, night.step = "judging", NEW s \in AdapterStatuses,
         latest' = [latest EXCEPT ![NextTrained.project][NextTrained.hash] = s]
  PROVE  /\ latest' \in [Projects -> [Contents -> AdapterStatuses]]
         /\ NextTrained \in Trained /\ NextTrained \in night.trained
         /\ \A p \in Projects, v \in Contents :
              latest'[p][v] # latest[p][v] =>
                p = NextTrained.project /\ v = NextTrained.hash /\ latest'[p][v] = s
<1>1. night.trained \in SUBSET Trained /\ night.trained # {}
  BY DEF NightTypeInv, NightTypes, KnownContent, NightRecords
<1>2. NextTrained \in night.trained
  BY <1>1, NextOf
<1>3. NextTrained.project \in Projects /\ NextTrained.hash \in Contents
  BY <1>1, <1>2 DEF Trained
<1>4. latest \in [Projects -> [Contents -> AdapterStatuses]]
  BY DEF NightTypeInv, NightTypes
<1> QED
  BY <1>1, <1>2, <1>3, <1>4

LEMMA NightTypeNext ==
  ASSUME NightTypeInv, [NightNext]_nightVars
  PROVE  NightTypeInv'
<1> USE DEF nightHistory, corpora
<1>0. NightTypes
  BY DEF NightTypeInv
<1>1. CASE UNCHANGED nightVars
  BY <1>0, <1>1 DEF nightVars, NightTypeInv, NightTypes, KnownContent
<1>2. ASSUME NEW p \in Projects,
             AssemblyMovesAway(p) \/ AssemblyWrites(p) \/ AssemblyEnds(p)
      PROVE  NightTypeInv'
  BY <1>2, ContentChanges
<1>3. CASE \/ NightBegins \/ SkipsProject \/ ChoosesProject \/ MissesCorpus
           \/ Prepares \/ LoadsCorpus \/ Fits \/ SavesAdapter
  <2>1. night' \in NightRecords /\ KnownContent'
    BY <1>3, BeginsTypes, LooksTypes, PreparesTypes, LoadsTypes, FitsTypes, SavesTypes
  <2>2. UNCHANGED <<corpus, writing, rewrites, unfit, latest, failures, learnt,
                    misread, judged>>
    BY <1>3 DEF NightBegins, SkipsProject, ChoosesProject, MissesCorpus, Prepares,
                LoadsCorpus, Fits, SavesAdapter
  <2> QED
    BY <1>0, <2>1, <2>2 DEF NightTypeInv, NightTypes
<1>4. CASE ReportsBatch \/ ReportsSkip \/ ReportsFailure \/ TrainingRaises
  <2>1. UNCHANGED <<corpus, writing, rewrites, unfit, latest, learnt, misread, judged>>
    BY <1>4 DEF ReportsBatch, ReportsSkip, ReportsFailure, TrainingRaises
  <2>2. night' \in NightRecords /\ KnownContent'
    BY <1>4, NightOver DEF ReportsBatch, ReportsSkip, ReportsFailure,
       TrainingRaises, NightGoes
  <2>3. failures' = failures \/ FailsByChance
    BY <1>4 DEF ReportsBatch, ReportsSkip, ReportsFailure, TrainingRaises
  <2>4. failures' \in 0 .. MaxFailures
    BY <1>0, <2>3, NightConstantsOK DEF NightTypes, FailsByChance
  <2> QED
    BY <1>0, <2>1, <2>2, <2>4 DEF NightTypeInv, NightTypes
<1>5. CASE IsJudged
  <2>1. night' \in NightRecords /\ KnownContent'
    BY <1>5, JudgesTypes
  <2>2. PICK s \in {"approved", "rejected"} :
          /\ latest' = [latest EXCEPT ![NextTrained.project][NextTrained.hash] = s]
          /\ learnt' \subseteq learnt \cup {<<NextTrained.project, NextTrained.data>>}
          /\ misread' \subseteq misread \cup {<<NextTrained.project, NextTrained.hash>>}
    BY <1>5 DEF IsJudged
  <2>3. night.step = "judging" /\ UNCHANGED <<corpus, writing, rewrites, unfit, failures>>
        /\ judged' = judged \cup {<<NextTrained.project, NextTrained.hash>>}
    BY <1>5 DEF IsJudged
  <2>4. s \in AdapterStatuses
    BY DEF AdapterStatuses
  <2>5. /\ latest' \in [Projects -> [Contents -> AdapterStatuses]]
        /\ NextTrained \in Trained
    BY <2>2, <2>3, <2>4, LatestTypes
  <2>6. /\ learnt' \subseteq Projects \X Versions
        /\ misread' \subseteq Projects \X Contents
        /\ judged' \subseteq Projects \X Contents
    BY <1>0, <2>2, <2>3, <2>5 DEF NightTypes, Trained
  <2> QED
    BY <1>0, <2>1, <2>3, <2>5, <2>6 DEF NightTypeInv, NightTypes
<1>6. CASE JudgingBreaksOff
  <2>1. /\ night' = Off /\ night.step = "judging" /\ FailsByChance
        /\ UNCHANGED <<corpus, writing, rewrites, unfit, learnt, misread, judged>>
    BY <1>6 DEF JudgingBreaksOff
  <2>2. PICK s \in {"candidate", "failed", latest[NextTrained.project][NextTrained.hash]} :
          latest' = [latest EXCEPT ![NextTrained.project][NextTrained.hash] = s]
    BY <1>6 DEF JudgingBreaksOff
  <2>3. s \in AdapterStatuses
    <3>1. night.trained \in SUBSET Trained /\ night.trained # {}
      BY <1>0, <2>1 DEF NightTypeInv, NightTypes, KnownContent, NightRecords
    <3>2. NextTrained \in Trained
      BY <3>1, NextOf
    <3> QED
      BY <1>0, <2>2, <3>2 DEF NightTypes, Trained, AdapterStatuses
  <2>4. latest' \in [Projects -> [Contents -> AdapterStatuses]]
    BY <2>1, <2>2, <2>3, LatestTypes
  <2>5. failures' \in 0 .. MaxFailures
    BY <1>0, <2>1, NightConstantsOK DEF NightTypes, FailsByChance
  <2> QED
    BY <1>0, <2>1, <2>4, <2>5, NightOver DEF NightTypeInv, NightTypes
<1> QED
  BY <1>1, <1>2, <1>3, <1>4, <1>5, <1>6 DEF NightNext, NightGoesOn

LEMMA NightTypeInit == NightInit => NightTypeInv
<1> SUFFICES ASSUME NightInit PROVE NightTypeInv
  OBVIOUS
<1>1. /\ latest \in [Projects -> [Contents -> AdapterStatuses]]
      /\ night \in NightRecords
      /\ failures \in 0 .. MaxFailures /\ rewrites \in 0 .. MaxRewrites
  BY VersionsCount, NightConstantsOK, OffRecord DEF NightInit, AdapterStatuses
<1> QED
  BY <1>1 DEF NightInit, NightTypeInv, NightTypes, KnownContent, Off

(***************************************************************************)
(* Registry, corpora and night keep their shapes.                          *)
(***************************************************************************)
THEOREM NightTypeCorrect == NightSpec => []NightTypeOK
<1>1. NightTypeInv /\ [NightNext]_nightVars => NightTypeInv'
  BY NightTypeNext
<1>2. NightTypeInv => NightTypeOK
  BY NightTypesAre DEF NightTypeInv
<1> QED
  BY <1>1, <1>2, NightTypeInit, PTL DEF NightSpec

-----------------------------------------------------------------------------
(***************************************************************************)
(* An approved adapter was made for a content that was learnt, or whose    *)
(* corpus was touched between its hash and its reading: contents may come  *)
(* and go as they like while no adapter is at that step.                   *)
(***************************************************************************)
LearntInv ==
  \A p \in Projects, v \in Contents :
    latest[p][v] = "approved" => <<p, v>> \in learnt \cup misread

LEMMA LearntNext ==
  ASSUME NightTypeInv, LearntInv, [NightNext]_nightVars
  PROVE  LearntInv'
<1> USE DEF nightHistory, corpora
<1>0. NightTypes
  BY DEF NightTypeInv
<1>1. CASE UNCHANGED <<latest, learnt, misread>>
  BY <1>1 DEF LearntInv
<1>2. CASE JudgingBreaksOff \/ IsJudged
  <2> DEFINE t == NextTrained
  <2>1. PICK s \in AdapterStatuses :
          /\ latest' = [latest EXCEPT ![t.project][t.hash] = s]
          /\ s = "approved" =>
               \/ s = latest[t.project][t.hash]
               \/ /\ <<t.project, t.data>> \in learnt'
                  /\ t.disturbed => <<t.project, t.hash>> \in misread'
    <3>1. CASE IsJudged
      BY <3>1 DEF IsJudged, AdapterStatuses
    <3>2. CASE JudgingBreaksOff
      <4>1. night.trained \in SUBSET Trained /\ night.trained # {}
        BY <1>0, <3>2 DEF NightTypeInv, NightTypes, KnownContent, NightRecords,
           JudgingBreaksOff
      <4>2. t \in Trained
        BY <4>1, NextOf
      <4>3. latest[t.project][t.hash] \in AdapterStatuses
        BY <1>0, <4>2 DEF NightTypes, Trained
      <4> HIDE DEF t
      <4> QED
        BY <3>2, <4>3 DEF JudgingBreaksOff, AdapterStatuses, t
    <3> QED
      BY <1>2, <3>1, <3>2
  <2>2. night.step = "judging" /\ learnt \subseteq learnt' /\ misread \subseteq misread'
    BY <1>2 DEF JudgingBreaksOff, IsJudged
  <2>3. /\ t \in Trained /\ t \in night.trained
        /\ \A p \in Projects, v \in Contents :
             latest'[p][v] # latest[p][v] =>
               p = t.project /\ v = t.hash /\ latest'[p][v] = s
    BY <2>1, <2>2, LatestTypes
  <2>4. t.disturbed \/ t.hash = t.data
    BY <2>3 DEF NightTypeInv, KnownContent
  <2> HIDE DEF t
  <2>5. ASSUME NEW p \in Projects, NEW v \in Contents, latest'[p][v] = "approved"
        PROVE  <<p, v>> \in learnt' \cup misread'
    <3>1. CASE latest[p][v] = "approved"
      BY <2>2, <3>1 DEF LearntInv
    <3>2. CASE latest[p][v] # "approved"
      <4>1. p = t.project /\ v = t.hash /\ s = "approved"
        BY <2>3, <2>5, <3>2
      <4> QED
        BY <2>1, <2>4, <3>2, <4>1
    <3> QED
      BY <3>1, <3>2
  <2> QED
    BY <2>5 DEF LearntInv
<1> QED
  BY <1>1, <1>2 DEF NightNext, NightGoesOn, NightBegins, SkipsProject,
     ChoosesProject, MissesCorpus, Prepares, LoadsCorpus, Fits, SavesAdapter,
     ReportsBatch, ReportsSkip, ReportsFailure, TrainingRaises, nightVars,
     AssemblyMovesAway, AssemblyWrites, AssemblyEnds

LEMMA SkipsLearnt ==
  ASSUME NightTypeInv, LearntInv, SkipsProject
  PROVE  <<First(night.todo), corpus[First(night.todo)]>> \in learnt \cup misread
<1> DEFINE p == First(night.todo)
<1>1. night.todo \in SUBSET Projects /\ night.todo # {}
  BY DEF NightTypeInv, NightTypes, NightRecords, SkipsProject
<1>2. p \in Projects
  BY <1>1, FirstOf
<1>3. corpus[p] \in Contents
  BY <1>2 DEF NightTypeInv, NightTypes
<1>4. latest[p][corpus[p]] = "approved"
  BY DEF SkipsProject, AlreadyTrained
<1> HIDE DEF p
<1>5. <<p, corpus[p]>> \in learnt \cup misread
  BY <1>2, <1>3, <1>4 DEF LearntInv
<1> QED
  BY <1>5 DEF p

(***************************************************************************)
(* A project is passed over only for a content that was learnt, or that    *)
(* was rewritten just when its adapter's night came to read it.            *)
(***************************************************************************)
THEOREM SkippedNightTheorem == NightSpec => SkippedIsLearnt
<1>1. NightInit => LearntInv
  BY DEF NightInit, LearntInv
<1>2. NightTypeInv /\ [NightNext]_nightVars => NightTypeInv'
  BY NightTypeNext
<1>3. NightTypeInv /\ LearntInv /\ [NightNext]_nightVars => LearntInv'
  BY LearntNext
<1>4. NightTypeInv /\ LearntInv /\ [NightNext]_nightVars =>
        [SkipsProject =>
           <<First(night.todo), corpus[First(night.todo)]>> \in learnt \cup misread]_nightVars
  BY SkipsLearnt
<1> QED
  BY <1>1, <1>2, <1>3, <1>4, NightTypeInit, PTL DEF NightSpec, SkippedIsLearnt

-----------------------------------------------------------------------------
(***************************************************************************)
(* BaseUpgrade.  What a document lists has a manifest, and a manifest is   *)
(* written once, when the weights are: so neither the weights nor the base *)
(* of what is served change, and a document takes in, or is refreshed for, *)
(* what fits.                                                              *)
(***************************************************************************)
\* Manifests are those of whole adapters nobody works on any more.
ManifestsInv == \A a \in manifests : artifact[a] = "whole" /\ a # making

Listed(d) == Registry!Known(d.reg) \cup Servable(d)

\* What a document lists has its manifest, what it serves was made for its base.
FitsBase(d) ==
  /\ Listed(d) \subseteq manifests
  /\ \A a \in Servable(d) : madeFor[a] = d.base

BaseInv == BaseTypeOK /\ ManifestsInv /\ FitsBase(stored) /\ FitsBase(pending)

\* A document written in the place of another, which serves nothing more.
Narrows(new, d) ==
  /\ new \in Files
  /\ new.base = d.base
  /\ Listed(new) \subseteq Listed(d)
  /\ Servable(new) \subseteq Servable(d)

\* No document and no copy of one: nothing to fit.
LEMMA NoFileFits ==
  /\ NoFile \in Files
  /\ FitsBase(NoFile)
BY BaseConstantsOK
   DEF NoFile, EmptyRegistry, Files, FitsBase, Listed, Servable, Registry!Known,
     Registry!Documents, Registry!AdapterStates

LEMMA FileOf ==
  ASSUME NEW d \in Files
  PROVE  /\ d.base \in Bases \cup {0}
         /\ d.reg \in Registry!Documents
         /\ d.reg.status \in [Artifacts -> Registry!AdapterStates \cup {"absent"}]
         /\ d.reg.current \in Artifacts \cup {Unset}
         /\ d.reg.rollback \in Artifacts \cup {Unset}
BY DEF Files, Registry!Documents

\* A rewritten registry leaves the base alone.
LEMMA Rewritten ==
  ASSUME NEW d \in Files, NEW r \in Registry!Documents
  PROVE  /\ [d EXCEPT !.reg = r] \in Files
         /\ [d EXCEPT !.reg = r].base = d.base
         /\ [d EXCEPT !.reg = r].reg = r
BY DEF Files

LEMMA RewrittenNarrows ==
  ASSUME NEW d \in Files, NEW r \in Registry!Documents,
         \A b \in Artifacts :
           r.status[b] \in {"candidate", "approved"} \/ b \in {r.current, r.rollback}
           => b \in Servable(d),
         \A b \in Registry!Known(r) : b \in Listed(d)
  PROVE  Narrows([d EXCEPT !.reg = r], d)
<1> DEFINE new == [d EXCEPT !.reg = r]
<1>1. new \in Files /\ new.base = d.base /\ new.reg = r
  BY Rewritten
<1> HIDE DEF new
<1>2. Servable(new) \subseteq Servable(d)
  BY <1>1 DEF Servable
<1>3. Narrows(new, d)
  BY <1>1, <1>2 DEF Narrows, Listed
<1> QED
  BY <1>3 DEF new

\* A verdict makes nothing servable that was not.
LEMMA VerdictNarrows ==
  ASSUME NEW d \in Files, NEW a \in Registry!Known(d.reg),
         NEW s \in {"rejected", "failed"}
  PROVE  Narrows([d EXCEPT !.reg = Registry!Transition(d.reg, a, s)], d)
<1> DEFINE r == Registry!Transition(d.reg, a, s)
<1>1. r \in Registry!Documents /\ r.current = d.reg.current /\ r.rollback = d.reg.rollback
  BY FileOf DEF Registry!Transition, Registry!Documents, Registry!AdapterStates
<1>2. \A b \in Artifacts : r.status[b] = IF b = a THEN s ELSE d.reg.status[b]
  BY FileOf DEF Registry!Transition, Registry!Documents
<1> HIDE DEF r
<1>3. \A b \in Registry!Known(r) : b \in Listed(d)
  BY <1>2 DEF Registry!Known, Listed
<1>4. ASSUME NEW b \in Artifacts,
             r.status[b] \in {"candidate", "approved"} \/ b \in {r.current, r.rollback}
      PROVE  b \in Servable(d)
  BY <1>1, <1>2, <1>4 DEF Servable
<1>5. Narrows([d EXCEPT !.reg = r], d)
  BY <1>1, <1>3, <1>4, RewrittenNarrows
<1> QED
  BY <1>5 DEF r

\* Neither does a promotion: the adapter awaited its verdict, the one it
\* displaces was aliased.
LEMMA PromotionNarrows ==
  ASSUME NEW d \in Files, NEW a \in Artifacts, Registry!MayPromote(d.reg, a)
  PROVE  Narrows([d EXCEPT !.reg = Registry!Promote(d.reg, a)], d)
<1> DEFINE r == Registry!Promote(d.reg, a)
<1>1. r \in Registry!Documents /\ r.current = a /\ r.rollback = d.reg.current
  BY FileOf DEF Registry!Promote, Registry!Documents, Registry!AdapterStates
<1>2. \A b \in Artifacts : r.status[b] = IF b \in {a, d.reg.current} THEN "approved"
                                         ELSE d.reg.status[b]
  BY DEF Registry!Promote
<1>3. d.reg.status[a] = "candidate"
  BY DEF Registry!MayPromote
<1> HIDE DEF r
<1>4. ASSUME NEW b \in Artifacts,
             r.status[b] \in {"candidate", "approved"} \/ b \in {r.current, r.rollback}
      PROVE  b \in Servable(d)
  BY <1>1, <1>2, <1>3, <1>4 DEF Servable
<1>5. \A b \in Registry!Known(r) : b \in Listed(d)
  BY <1>2, <1>4 DEF Registry!Known, Listed
<1>6. Narrows([d EXCEPT !.reg = r], d)
  BY <1>1, <1>4, <1>5, RewrittenNarrows
<1> QED
  BY <1>6 DEF r

\* A rollback exchanges the aliases.
LEMMA RollbackNarrows ==
  ASSUME NEW d \in Files
  PROVE  Narrows([d EXCEPT !.reg = Registry!Rollback(d.reg)], d)
<1> DEFINE r == Registry!Rollback(d.reg)
<1>1. /\ r \in Registry!Documents
      /\ r.current = d.reg.rollback /\ r.rollback = d.reg.current
      /\ r.status = d.reg.status
  BY FileOf DEF Registry!Rollback, Registry!Documents
<1> HIDE DEF r
<1>2. ASSUME NEW b \in Artifacts,
             r.status[b] \in {"candidate", "approved"} \/ b \in {r.current, r.rollback}
      PROVE  b \in Servable(d)
  BY <1>1, <1>2 DEF Servable
<1>3. \A b \in Registry!Known(r) : b \in Listed(d)
  BY <1>1 DEF Registry!Known, Listed
<1>4. Narrows([d EXCEPT !.reg = r], d)
  BY <1>1, <1>2, <1>3, RewrittenNarrows
<1> QED
  BY <1>4 DEF r

LEMMA NarrowerFits ==
  ASSUME NEW d, FitsBase(d), NEW new, Narrows(new, d)
  PROVE  new \in Files /\ FitsBase(new)
BY DEF Narrows, FitsBase

\* A candidate is listed when its manifest is, for the base it names.
LEMMA AdditionFits ==
  ASSUME NEW d \in Files, FitsBase(d), NEW a \in manifests, a \in Artifacts,
         madeFor[a] = d.base
  PROVE  LET new == [d EXCEPT !.reg = Registry!AddAdapter(d.reg, a)]
         IN  new \in Files /\ FitsBase(new)
<1> DEFINE r == Registry!AddAdapter(d.reg, a)
<1>1. r \in Registry!Documents /\ r.current = d.reg.current /\ r.rollback = d.reg.rollback
  BY FileOf DEF Registry!AddAdapter, Registry!Documents, Registry!AdapterStates
<1>2. \A b \in Artifacts : r.status[b] = IF b = a THEN "candidate" ELSE d.reg.status[b]
  BY FileOf DEF Registry!AddAdapter, Registry!Documents
<1> HIDE DEF r
<1> DEFINE new == [d EXCEPT !.reg = r]
<1>3. new \in Files /\ new.base = d.base /\ new.reg = r
  BY <1>1, Rewritten
<1> HIDE DEF new
<1>4. Servable(new) \subseteq Servable(d) \cup {a}
  BY <1>1, <1>2, <1>3 DEF Servable
<1>5. Registry!Known(r) \subseteq Registry!Known(d.reg) \cup {a}
  BY <1>2 DEF Registry!Known
<1>6. FitsBase(new)
  BY <1>3, <1>4, <1>5 DEF FitsBase, Listed
<1> QED
  BY <1>3, <1>6 DEF new, r

\* A document is refreshed for another base when it serves nothing.
LEMMA RefreshFits ==
  ASSUME BaseInv, NEW b \in Bases, CanRefreshBase(b)
  PROVE  LET new == [stored EXCEPT !.base = b] IN new \in Files /\ FitsBase(new)
<1>1. stored \in Files
  BY DEF BaseInv, BaseTypeOK
<1> DEFINE new == [stored EXCEPT !.base = b]
<1>2. new \in Files /\ new.reg = stored.reg
  BY <1>1 DEF Files
<1>3. Servable(stored) = {}
  BY BaseConstantsOK DEF CanRefreshBase, Servable
<1>4. Servable(new) = {} /\ Listed(new) = Listed(stored)
  BY <1>2, <1>3 DEF Servable, Listed
<1> QED
  BY <1>2, <1>4 DEF BaseInv, FitsBase

LEMMA NewRegistryFits ==
  ASSUME NEW b \in Bases
  PROVE  LET new == [NoFile EXCEPT !.base = b] IN new \in Files /\ FitsBase(new)
<1> DEFINE new == [NoFile EXCEPT !.base = b]
<1>1. new \in Files /\ new.reg = EmptyRegistry
  BY NoFileFits DEF Files, NoFile
<1>2. Listed(new) = {}
  BY <1>1, BaseConstantsOK DEF Listed, Servable, EmptyRegistry, Registry!Known
<1> QED
  BY <1>1, <1>2 DEF FitsBase, Listed

-----------------------------------------------------------------------------
\* The steps that leave the directories alone.
LEMMA PolicyKeeps ==
  ASSUME BaseInv, UNCHANGED <<deployed, trainerVars>>,
         policyBase' \in Bases, policy' \in {"down", "up"},
         stored' \in Files, pending' \in Files,
         FitsBase(stored'), FitsBase(pending')
  PROVE  BaseInv'
<1>1. UNCHANGED <<deployed, trainerBase, making, artifact, manifests, madeFor>>
  BY DEF trainerVars
<1> QED
  BY <1>1 DEF BaseInv, BaseTypeOK, ManifestsInv, FitsBase, Listed, Servable, Bases, Files

\* Every mutation goes through update.
LEMMA UpdateKeeps ==
  ASSUME BaseInv, NEW r, Updates(r),
         [stored EXCEPT !.reg = r] \in Files, FitsBase([stored EXCEPT !.reg = r])
  PROVE  BaseInv'
<1>1. /\ UNCHANGED <<deployed, policyBase, policy, stored, trainerVars>>
      /\ pending' = [stored EXCEPT !.reg = r]
  BY DEF Updates
<1>2. stored' \in Files /\ FitsBase(stored') /\ policyBase' \in Bases /\ policy' \in {"down", "up"}
  BY <1>1 DEF BaseInv, BaseTypeOK
<1> QED
  BY <1>1, <1>2, PolicyKeeps

LEMMA PolicyStepKeeps ==
  ASSUME BaseInv, PolicyStep
  PROVE  BaseInv'
<1>0. /\ stored \in Files /\ pending \in Files
      /\ policyBase \in Bases /\ deployed \in Bases /\ policy \in {"down", "up"}
      /\ FitsBase(stored) /\ FitsBase(pending)
  BY DEF BaseInv, BaseTypeOK
<1>1. ASSUME NEW a \in Artifacts, Registers(a) PROVE BaseInv'
  <2>1. a \in manifests /\ madeFor[a] = stored.base
    BY <1>1 DEF Registers, Compatible
  <2> QED
    BY <1>0, <1>1, <2>1, AdditionFits, UpdateKeeps DEF Registers
<1>2. ASSUME NEW a \in Artifacts, Promotes(a) PROVE BaseInv'
  BY <1>0, <1>2, PromotionNarrows, NarrowerFits, UpdateKeeps DEF Promotes
<1>3. ASSUME NEW a \in Artifacts, NEW s \in {"rejected", "failed"}, Condemns(a, s)
      PROVE  BaseInv'
  BY <1>0, <1>3, VerdictNarrows, NarrowerFits, UpdateKeeps DEF Condemns
<1>4. CASE RollsBack
  BY <1>0, <1>4, RollbackNarrows, NarrowerFits, UpdateKeeps DEF RollsBack
<1>5. CASE Replaces
  <2>1. /\ UNCHANGED <<deployed, policyBase, policy, trainerVars>>
        /\ stored' = pending /\ pending' = NoFile
    BY <1>5 DEF Replaces
  <2> QED
    BY <1>0, <2>1, NoFileFits, PolicyKeeps
<1>6. ASSUME NEW b \in {policyBase, deployed}, PolicyStarts(b) PROVE BaseInv'
  <2>1. /\ UNCHANGED <<deployed, stored, trainerVars>>
        /\ policyBase' = b /\ policy' = "up" /\ b \in Bases
        /\ \/ pending' = [NoFile EXCEPT !.base = b]
           \/ CanRefreshBase(b) /\ pending' = [stored EXCEPT !.base = b]
           \/ pending' = NoFile
    BY <1>0, <1>6 DEF PolicyStarts
  <2>2. pending' \in Files /\ FitsBase(pending')
    BY <2>1, NewRegistryFits, RefreshFits, NoFileFits
  <2> QED
    BY <1>0, <2>1, <2>2, PolicyKeeps
<1>7. CASE PolicyDies
  <2>1. /\ UNCHANGED <<deployed, policyBase, stored, trainerVars>>
        /\ pending' = NoFile /\ policy' = "down"
    BY <1>7 DEF PolicyDies
  <2> QED
    BY <1>0, <2>1, NoFileFits, PolicyKeeps
<1> QED
  BY <1>1, <1>2, <1>3, <1>4, <1>5, <1>6, <1>7 DEF PolicyStep, Judges

-----------------------------------------------------------------------------
\* The steps that leave the documents alone: directories only gain manifests,
\* and those of what had none.
LEMMA TrainerKeeps ==
  ASSUME BaseInv, UNCHANGED policyVars,
         deployed' \in Bases, trainerBase' \in Bases,
         making' \in Artifacts \cup {Unset},
         artifact' \in [Artifacts -> {"none", "made", "header", "whole"}],
         manifests' \subseteq Artifacts, madeFor' \in [Artifacts -> Bases \cup {0}],
         ManifestsInv', manifests \subseteq manifests',
         \A a \in manifests : madeFor'[a] = madeFor[a]
  PROVE  BaseInv'
<1>1. UNCHANGED <<policyBase, policy, stored, pending>>
  BY DEF policyVars
<1>2. BaseTypeOK'
  BY <1>1 DEF BaseInv, BaseTypeOK, Bases, Files
<1>3. Servable(stored) \subseteq manifests /\ Servable(pending) \subseteq manifests
  BY DEF BaseInv, FitsBase, Listed
<1>4. /\ Listed(stored)' = Listed(stored) /\ Listed(pending)' = Listed(pending)
      /\ Servable(stored)' = Servable(stored) /\ Servable(pending)' = Servable(pending)
      /\ stored.base' = stored.base /\ pending.base' = pending.base
  BY <1>1 DEF Listed, Servable
<1> QED
  BY <1>2, <1>3, <1>4 DEF BaseInv, FitsBase

LEMMA TrainerStepKeeps ==
  ASSUME BaseInv, TrainerStep
  PROVE  BaseInv'
<1>0. /\ BaseTypeOK /\ ManifestsInv
      /\ artifact \in [Artifacts -> {"none", "made", "header", "whole"}]
      /\ madeFor \in [Artifacts -> Bases \cup {0}] /\ manifests \subseteq Artifacts
      /\ deployed \in Bases /\ trainerBase \in Bases
      /\ making \in Artifacts \cup {Unset}
  BY DEF BaseInv, BaseTypeOK
<1>1. CASE RecreatesTrainer
  BY <1>0, <1>1, TrainerKeeps, BaseConstantsOK DEF RecreatesTrainer, ManifestsInv
<1>2. CASE TrainerBreaks
  BY <1>0, <1>2, TrainerKeeps, BaseConstantsOK DEF TrainerBreaks, ManifestsInv
<1>3. ASSUME NEW a \in Artifacts, Makes(a) PROVE BaseInv'
  <2>1. a \notin manifests
    BY <1>0, <1>3 DEF Makes, ManifestsInv
  <2>2. ManifestsInv' /\ artifact' \in [Artifacts -> {"none", "made", "header", "whole"}]
    BY <1>0, <1>3, <2>1 DEF Makes, ManifestsInv
  <2> QED
    BY <1>0, <1>3, <2>2, TrainerKeeps DEF Makes
<1>4. ASSUME NEW a \in Artifacts, SavesWeights(a) PROVE BaseInv'
  <2>1. a \notin manifests
    BY <1>0, <1>4 DEF SavesWeights, ManifestsInv
  <2>2. ManifestsInv' /\ artifact' \in [Artifacts -> {"none", "made", "header", "whole"}]
    BY <1>0, <1>4, <2>1 DEF SavesWeights, ManifestsInv
  <2> QED
    BY <1>0, <1>4, <2>2, TrainerKeeps DEF SavesWeights
<1>5. ASSUME NEW a \in Artifacts, Lists(a) PROVE BaseInv'
  <2>1. a \notin manifests /\ a # Unset
    BY <1>0, <1>5, BaseConstantsOK DEF Lists, ManifestsInv
  <2>2. ManifestsInv' /\ madeFor' \in [Artifacts -> Bases \cup {0}]
        /\ \A b \in manifests : madeFor'[b] = madeFor[b]
    BY <1>0, <1>5, <2>1, BaseConstantsOK DEF Lists, ManifestsInv
  <2> QED
    BY <1>0, <1>5, <2>2, TrainerKeeps DEF Lists
<1> QED
  BY <1>1, <1>2, <1>3, <1>4, <1>5 DEF TrainerStep

LEMMA BaseInvInit == BaseInit => BaseInv
<1> SUFFICES ASSUME BaseInit PROVE BaseInv
  OBVIOUS
<1>1. 1 \in Bases
  BY BaseConstantsOK DEF Bases
<1>2. BaseTypeOK
  BY <1>1, NoFileFits DEF BaseInit, BaseTypeOK
<1> QED
  BY <1>2, NoFileFits DEF BaseInit, BaseInv, ManifestsInv

LEMMA BaseInvNext == BaseInv /\ [BaseNext]_baseVars => BaseInv'
<1> SUFFICES ASSUME BaseInv, [BaseNext]_baseVars PROVE BaseInv'
  OBVIOUS
<1>1. CASE Upgrades
  <2>1. /\ UNCHANGED policyVars
        /\ UNCHANGED <<trainerBase, making, artifact, manifests, madeFor>>
        /\ deployed' \in Bases
    BY <1>1, BaseConstantsOK DEF Upgrades, BaseInv, BaseTypeOK, Bases, trainerVars
  <2>2. ManifestsInv'
    BY <2>1 DEF BaseInv, ManifestsInv
  <2> QED
    BY <2>1, <2>2, TrainerKeeps DEF BaseInv, BaseTypeOK
<1>2. CASE UNCHANGED baseVars
  BY <1>2 DEF baseVars, policyVars, trainerVars, BaseInv, BaseTypeOK, ManifestsInv,
    FitsBase, Listed, Servable
<1> QED
  BY <1>1, <1>2, TrainerStepKeeps, PolicyStepKeeps DEF BaseNext

(***************************************************************************)
(* The registry's document, its temporary copy and the adapter directories *)
(* keep their shapes, whatever bases and adapters there are.               *)
(***************************************************************************)
THEOREM BaseTypeCorrect == BaseSpec => []BaseTypeOK
<1>1. BaseInv => BaseTypeOK
  BY DEF BaseInv
<1> QED
  BY <1>1, BaseInvInit, BaseInvNext, PTL DEF BaseSpec

(***************************************************************************)
(* Whatever is served or may be was made for the base the registry names,  *)
(* through upgrades of .env, rollbacks, verdicts and deaths of the policy. *)
(***************************************************************************)
THEOREM ServableTheorem == BaseSpec => []ServableFits
<1>1. BaseInv => ServableFits
  BY DEF BaseInv, FitsBase, ServableFits
<1> QED
  BY <1>1, BaseInvInit, BaseInvNext, PTL DEF BaseSpec

(***************************************************************************)
(* What the registry lists has all its weights, though validation reads    *)
(* their header only and the trainer may die at any step.                  *)
(***************************************************************************)
THEOREM WholeTheorem == BaseSpec => []RegisteredIsWhole
<1>1. BaseInv => RegisteredIsWhole
  BY DEF BaseInv, FitsBase, Listed, ManifestsInv, RegisteredIsWhole
<1> QED
  BY <1>1, BaseInvInit, BaseInvNext, PTL DEF BaseSpec

-----------------------------------------------------------------------------
(***************************************************************************)
(* MCParts.  The sum of the parts is, for each part, a behaviour of it.    *)
(***************************************************************************)
partsVars == <<imageVars, videoVars, loadVars, nightVars, baseVars, part>>

\* A step of the sum is one of a part, and leaves the others where they are.
LEMMA StepOfParts ==
  ASSUME [MCNext]_partsVars
  PROVE  /\ [ImageNext]_imageVars
         /\ [VideoNext]_videoVars
         /\ [LoadNext]_loadVars
         /\ [NightNext]_nightVars
         /\ [BaseNext]_baseVars
<1>1. CASE MCNext
  BY <1>1 DEF MCNext, EditNext, SessionNext, StartNext, TrainerNext, UpgradeNext
<1>2. CASE UNCHANGED partsVars
  BY <1>2 DEF partsVars
<1> QED
  BY <1>1, <1>2

(***************************************************************************)
(* What is proved of a part holds of it in the sum that is model-checked.  *)
(***************************************************************************)
THEOREM SumOfParts ==
  MCSpec => ImageSpec /\ VideoSpec /\ LoadSpec /\ NightSpec /\ BaseSpec
<1>1. MCInit => ImageInit /\ VideoInit /\ LoadInit /\ NightInit /\ BaseInit
  BY DEF MCInit
<1>2. [MCNext]_partsVars => /\ [ImageNext]_imageVars
                            /\ [VideoNext]_videoVars
                            /\ [LoadNext]_loadVars
                            /\ [NightNext]_nightVars
                            /\ [BaseNext]_baseVars
  BY StepOfParts
<1> QED
  BY <1>1, <1>2, PTL
     DEF MCSpec, partsVars, ImageSpec, VideoSpec, LoadSpec, NightSpec, BaseSpec

(***************************************************************************)
(* So the five of them keep their shapes.                                  *)
(***************************************************************************)
THEOREM PartsTypeCorrect == MCSpec => []PartsTypeOK
<1>1. ImageTypeOK /\ VideoTypeOK /\ LoadTypeOK /\ NightTypeOK /\ BaseTypeOK
        => PartsTypeOK
  BY DEF PartsTypeOK
<1> QED
  BY <1>1, SumOfParts, ImageTypeCorrect, VideoTypeCorrect, LoadTypeCorrect,
     NightTypeCorrect, BaseTypeCorrect, PTL

==============================================================================
