----------------------------- MODULE VideoProofs -----------------------------
(***************************************************************************)
(* Safety of one video session (VideoSessions), for any requests, frames   *)
(* and restarts.                                                           *)
(***************************************************************************)
EXTENDS VideoSessions, TLAPS

RunRecords ==
  [step : RunSteps \cup {"idle", "done"}, frame : 0 .. Frames, seeds : SUBSET Seeds]

AddRecords ==
  [step : {"idle", "read", "opened", "done"}, frame : {0}, seeds : SUBSET Seeds]

LEMMA FramesCount ==
  /\ Frames \in Nat /\ Frames > 0
  /\ 0 \in 0 .. Frames
BY VideoConstantsOK

LEMMA RestingRecords ==
  /\ AtRest \in RunRecords /\ AtRest \in AddRecords
  /\ [AtRest EXCEPT !.step = "done"] \in RunRecords
  /\ [AtRest EXCEPT !.step = "done"] \in AddRecords
BY FramesCount DEF AtRest, RunRecords, AddRecords

LEMMA EmptyFiles ==
  /\ File("absent", {}) \in SeedFiles
  /\ File("torn", {}) \in SeedFiles
  /\ File("whole", {}) \in SeedFiles
BY DEF File, SeedFiles

LEMMA FileRecords ==
  ASSUME NEW state \in {"absent", "torn", "whole"}, NEW S \in SUBSET Seeds
  PROVE  /\ File(state, S) \in SeedFiles
         /\ File(state, S).state = state /\ File(state, S).seeds = S
BY DEF File, SeedFiles

\* The shapes the steps leave behind.
LEMMA RunPut ==
  ASSUME run \in [Propagations -> RunRecords], NEW p \in Propagations,
         NEW r \in RunRecords, run' = [run EXCEPT ![p] = r]
  PROVE  /\ run' \in [Propagations -> RunRecords]
         /\ run'[p] = r
         /\ \A q \in Propagations \ {p} : run'[q] = run[q]
OBVIOUS

LEMMA RunsPut ==
  ASSUME run \in [Propagations -> RunRecords], NEW p \in Propagations,
         NEW s \in RunSteps \cup {"done"}, Runs(p, s)
  PROVE  /\ run' \in [Propagations -> RunRecords]
         /\ run'[p].step = s /\ run'[p].frame = run[p].frame
         /\ run'[p].seeds = run[p].seeds
         /\ \A q \in Propagations \ {p} : run'[q] = run[q]
<1> DEFINE r == [run[p] EXCEPT !.step = s]
<1>1. run' = [run EXCEPT ![p] = r]
  BY DEF Runs
<1>2. /\ r \in RunRecords /\ r.step = s /\ r.frame = run[p].frame
      /\ r.seeds = run[p].seeds
  BY DEF RunRecords
<1> HIDE DEF r
<1> QED
  BY <1>1, <1>2, RunPut

LEMMA AddPut ==
  ASSUME adding \in [Seeds -> AddRecords], NEW a \in Seeds,
         NEW r \in AddRecords, adding' = [adding EXCEPT ![a] = r]
  PROVE  /\ adding' \in [Seeds -> AddRecords]
         /\ adding'[a] = r
         /\ \A b \in Seeds \ {a} : adding'[b] = adding[b]
OBVIOUS

-----------------------------------------------------------------------------
(***************************************************************************)
(* Types, with where in the video a propagation is.                        *)
(***************************************************************************)
InFrame(p) ==
  /\ run[p].step \in {"idle", "locked", "starting"} => run[p].frame = 0
  /\ run[p].step \in {"checking", "masking"} => run[p].frame < Frames

VideoTypes ==
  /\ session \in BOOLEAN
  /\ seedFile \in SeedFiles
  /\ masks \subseteq Objects \X (0 .. Frames - 1)
  /\ spoilt \subseteq Objects \X (0 .. Frames - 1)
  /\ checkpoint \in SeedFiles
  /\ lock \in Propagations \cup {Nobody}
  /\ cancelling \in BOOLEAN
  /\ adding \in [Seeds -> AddRecords]
  /\ run \in [Propagations -> RunRecords]
  /\ restarts \in 0 .. MaxRestarts
  /\ kept \subseteq Seeds
  /\ disturbed \in BOOLEAN
  /\ notified \subseteq Propagations

VideoTypeInv == VideoTypes /\ \A p \in Propagations : InFrame(p)

LEMMA VideoTypesAre == VideoTypeOK <=> VideoTypes
BY DEF VideoTypeOK, VideoTypes, RunRecords, AddRecords

\* What a step of a propagation does to it, and to no other.
RunGoes(p, s) ==
  /\ run[p].step # "done" /\ run'[p].step = s
  /\ run' \in [Propagations -> RunRecords]
  /\ run'[p].frame = run[p].frame /\ run'[p].seeds = run[p].seeds
  /\ \A q \in Propagations \ {p} : run'[q] = run[q]

LEMMA RunGoesShape ==
  ASSUME VideoTypes, NEW p \in Propagations
  PROVE  /\ Locks(p) => RunGoes(p, "locked") \/ RunGoes(p, "done")
         /\ Clears(p) => RunGoes(p, "starting")
         /\ Checks(p) => RunGoes(p, "done") \/ RunGoes(p, "masking")
         /\ OpensCheckpoint(p) => RunGoes(p, "filling")
         /\ WritesCheckpoint(p) => RunGoes(p, "done")
         /\ MaskingRaises(p) => RunGoes(p, "done")
         /\ CheckpointUnwritten(p) => RunGoes(p, "done")
<1>1. ASSUME NEW s \in RunSteps \cup {"done"}, Runs(p, s), run[p].step # "done"
      PROVE  RunGoes(p, s)
  BY <1>1, RunsPut DEF VideoTypes, RunGoes
<1> QED
  BY <1>1 DEF Locks, Clears, Checks, OpensCheckpoint, WritesCheckpoint,
     MaskingRaises, CheckpointUnwritten, RunSteps

LEMMA StartsShape ==
  ASSUME VideoTypes, NEW p \in Propagations, Starts(p)
  PROVE  \/ RunGoes(p, "done") /\ lock' = Nobody
         \/ /\ seedFile.state = "whole" /\ lock' = lock
            /\ run' \in [Propagations -> RunRecords]
            /\ run'[p].step = "checking" /\ run'[p].frame = run[p].frame
            /\ \A q \in Propagations \ {p} : run'[q] = run[q]
<1>1. CASE seedFile.state = "whole"
  <2> DEFINE r == [run[p] EXCEPT !.step = "checking", !.seeds = seedFile.seeds]
  <2>1. run' = [run EXCEPT ![p] = r] /\ lock' = lock
    BY <1>1 DEF Starts, VideoTypes, RunRecords
  <2>2. r \in RunRecords /\ r.step = "checking" /\ r.frame = run[p].frame
    BY DEF VideoTypes, RunRecords, RunSteps, SeedFiles
  <2> HIDE DEF r
  <2>3. /\ run' \in [Propagations -> RunRecords] /\ run'[p] = r
        /\ \A q \in Propagations \ {p} : run'[q] = run[q]
    BY <2>1, <2>2, RunPut DEF VideoTypes
  <2> QED
    BY <1>1, <2>1, <2>2, <2>3
<1>2. CASE seedFile.state # "whole"
  BY <1>2, RunsPut DEF Starts, VideoTypes, RunGoes
<1> QED
  BY <1>1, <1>2

LEMMA MasksShape ==
  ASSUME VideoTypeInv, NEW p \in Propagations, Masks(p)
  PROVE  /\ run' \in [Propagations -> RunRecords]
         /\ run[p].step = "masking"
         /\ run'[p].frame = run[p].frame + 1 /\ run'[p].seeds = run[p].seeds
         /\ \/ run'[p].step = "checking" /\ run'[p].frame < Frames
            \/ run'[p].step = "opening" /\ run'[p].frame = Frames
         /\ \A q \in Propagations \ {p} : run'[q] = run[q]
<1> DEFINE n == run[p].frame
           s == IF LastFrame(n) THEN "opening" ELSE "checking"
           r == [run[p] EXCEPT !.frame = n + 1, !.step = s]
<1>0. run[p] \in RunRecords /\ run[p].step = "masking" /\ InFrame(p)
  BY DEF Masks, VideoTypeInv, VideoTypes
<1>1. run' = [run EXCEPT ![p] = r]
  BY DEF Masks, VideoTypeInv, VideoTypes, RunRecords
<1>2. n \in 0 .. Frames /\ n < Frames
  BY <1>0 DEF InFrame, RunRecords
<1>3. n + 1 \in 0 .. Frames /\ s \in RunSteps
  BY <1>2, FramesCount DEF RunSteps
<1>4. \/ s = "checking" /\ n + 1 < Frames
      \/ s = "opening" /\ n + 1 = Frames
  BY <1>2, FramesCount DEF LastFrame
<1> HIDE DEF s
<1>5. /\ r \in RunRecords /\ r.step = s /\ r.frame = n + 1
      /\ r.seeds = run[p].seeds
  BY <1>0, <1>3 DEF RunRecords
<1> HIDE DEF r
<1>6. /\ run' \in [Propagations -> RunRecords] /\ run'[p] = r
      /\ \A q \in Propagations \ {p} : run'[q] = run[q]
  BY <1>1, <1>5, RunPut DEF VideoTypeInv, VideoTypes
<1> QED
  BY <1>0, <1>4, <1>5, <1>6

\* The masks somebody came to write.
Reached == masks \cup spoilt

LEMMA WrittenReaches ==
  ASSUME NEW good, NEW bad, Written(good, bad)
  PROVE  /\ Reached \subseteq Reached'
         /\ good \cup bad \subseteq Reached'
BY DEF Written, Reached

LEMMA MasksReach ==
  ASSUME NEW p \in Propagations, Masks(p)
  PROVE  /\ checkpoint' = checkpoint
         /\ Reached \subseteq Reached'
         /\ FilesOf(run[p].seeds, {run[p].frame}) \subseteq Reached'
<1> DEFINE frame == FilesOf(run[p].seeds, {run[p].frame})
<1>1. PICK bad \in SUBSET frame : Written(frame \ bad, bad)
  BY DEF Masks
<1> HIDE DEF frame
<1>2. frame \subseteq (frame \ bad) \cup bad
  OBVIOUS
<1>3. frame \subseteq Reached' /\ Reached \subseteq Reached'
  BY <1>1, <1>2, WrittenReaches
<1>4. checkpoint' = checkpoint
  BY DEF Masks
<1> QED
  BY <1>3, <1>4 DEF frame

LEMMA PartlyReaches ==
  ASSUME NEW p \in Propagations, PartlyMasked(p)
  PROVE  Reached \subseteq Reached'
BY WrittenReaches DEF PartlyMasked

\* Everything but the propagations' own steps leaves the checkpoint, and a
\* propagation where it is or done.
Rests ==
  /\ Reached \subseteq Reached' /\ checkpoint' = checkpoint
  /\ run' \in [Propagations -> RunRecords]
  /\ \A p \in Propagations : run'[p] = run[p] \/ run'[p].step = "done"

Quits(p) == MaskingRaises(p) \/ CheckpointUnwritten(p)

LEMMA QuitsShape ==
  ASSUME VideoTypes, NEW p \in Propagations, Quits(p)
  PROVE  /\ RunGoes(p, "done")
         /\ run[p].step \in {"masking", "filling"}
         /\ lock' = Nobody
         /\ Reached \subseteq Reached' /\ checkpoint' = checkpoint
<1>1. CASE MaskingRaises(p)
  BY <1>1, PartlyReaches, RunGoesShape DEF MaskingRaises
<1>2. CASE CheckpointUnwritten(p)
  BY <1>2, RunGoesShape DEF CheckpointUnwritten, Reached, files, pngs
<1> QED
  BY <1>1, <1>2 DEF Quits

Propagates(p) ==
  \/ Locks(p)
  \/ Clears(p)
  \/ Starts(p)
  \/ Checks(p)
  \/ Masks(p)
  \/ OpensCheckpoint(p)
  \/ WritesCheckpoint(p)
  \/ Quits(p)

LEMMA RestartShape ==
  ASSUME VideoTypes, VideoCrash
  PROVE  /\ Rests
         /\ adding' \in [Seeds -> AddRecords]
         /\ \A p \in Propagations : run'[p].step \in {"idle", "done"}
<1>1. ASSUME NEW p \in Propagations
      PROVE  /\ run'[p] \in {run[p], [AtRest EXCEPT !.step = "done"]}
             /\ run'[p].step \in {"idle", "done"}
             /\ run'[p] = run[p] \/ run'[p].step = "done"
  BY DEF VideoCrash, AtRest
<1>2. run' \in [Propagations -> RunRecords]
  BY RestingRecords DEF VideoCrash, VideoTypes
<1>3. adding' \in [Seeds -> AddRecords]
  BY RestingRecords DEF VideoCrash, VideoTypes
<1>4. Reached \subseteq Reached' /\ checkpoint' = checkpoint
  BY PartlyReaches DEF VideoCrash, Reached, pngs
<1> QED
  BY <1>1, <1>2, <1>3, <1>4 DEF Rests

LEMMA AddsShape ==
  ASSUME VideoTypes, NEW a \in Seeds
  PROVE  /\ ReadsSeeds(a) =>
              /\ adding' \in [Seeds -> AddRecords]
              /\ \A b \in Seeds \ {a} : adding'[b] = adding[b]
              /\ \/ adding'[a].step = "done"
                 \/ /\ seedFile.state = "whole" /\ adding'[a].step = "read"
                    /\ adding'[a].seeds = seedFile.seeds
         /\ OpensSeeds(a) =>
              /\ adding' \in [Seeds -> AddRecords]
              /\ \A b \in Seeds \ {a} : adding'[b] = adding[b]
              /\ adding'[a].step = "opened" /\ adding'[a].seeds = adding[a].seeds
         /\ WritesSeeds(a) =>
              /\ adding' \in [Seeds -> AddRecords]
              /\ \A b \in Seeds \ {a} : adding'[b] = adding[b]
              /\ adding'[a].step = "done"
         /\ SeedsUnwritten(a) =>
              /\ adding' \in [Seeds -> AddRecords]
              /\ \A b \in Seeds \ {a} : adding'[b] = adding[b]
              /\ adding'[a].step = "done"
<1>1. ASSUME ReadsSeeds(a)
      PROVE  /\ adding' \in [Seeds -> AddRecords]
             /\ \A b \in Seeds \ {a} : adding'[b] = adding[b]
             /\ \/ adding'[a].step = "done"
                \/ /\ seedFile.state = "whole" /\ adding'[a].step = "read"
                   /\ adding'[a].seeds = seedFile.seeds
  <2> DEFINE r == IF seedFile.state = "whole"
                  THEN [AtRest EXCEPT !.step = "read", !.seeds = seedFile.seeds]
                  ELSE [AtRest EXCEPT !.step = "done"]
  <2>1. adding' = [adding EXCEPT ![a] = r]
    BY <1>1 DEF ReadsSeeds
  <2>2. /\ r \in AddRecords
        /\ \/ r.step = "done"
           \/ seedFile.state = "whole" /\ r.step = "read" /\ r.seeds = seedFile.seeds
    BY DEF AtRest, AddRecords, VideoTypes, SeedFiles
  <2> HIDE DEF r
  <2> QED
    BY <2>1, <2>2, AddPut DEF VideoTypes
<1>2. ASSUME OpensSeeds(a)
      PROVE  /\ adding' \in [Seeds -> AddRecords]
             /\ \A b \in Seeds \ {a} : adding'[b] = adding[b]
             /\ adding'[a].step = "opened" /\ adding'[a].seeds = adding[a].seeds
  <2> DEFINE r == [adding[a] EXCEPT !.step = "opened"]
  <2>1. adding' = [adding EXCEPT ![a] = r]
    BY <1>2 DEF OpensSeeds, Adds
  <2>2. r \in AddRecords /\ r.step = "opened" /\ r.seeds = adding[a].seeds
    BY DEF AddRecords, VideoTypes
  <2> HIDE DEF r
  <2> QED
    BY <2>1, <2>2, AddPut DEF VideoTypes
<1>3. ASSUME WritesSeeds(a)
      PROVE  /\ adding' \in [Seeds -> AddRecords]
             /\ \A b \in Seeds \ {a} : adding'[b] = adding[b]
             /\ adding'[a].step = "done"
  <2> DEFINE r == [AtRest EXCEPT !.step = "done"]
  <2>1. adding' = [adding EXCEPT ![a] = r]
    BY <1>3 DEF WritesSeeds
  <2>2. r \in AddRecords /\ r.step = "done"
    BY RestingRecords DEF AtRest
  <2> HIDE DEF r
  <2> QED
    BY <2>1, <2>2, AddPut DEF VideoTypes
<1>4. ASSUME SeedsUnwritten(a)
      PROVE  /\ adding' \in [Seeds -> AddRecords]
             /\ \A b \in Seeds \ {a} : adding'[b] = adding[b]
             /\ adding'[a].step = "done"
  <2> DEFINE r == [adding[a] EXCEPT !.step = "done"]
  <2>1. adding' = [adding EXCEPT ![a] = r]
    BY <1>4 DEF SeedsUnwritten, Adds
  <2>2. r \in AddRecords /\ r.step = "done"
    BY DEF AddRecords, VideoTypes
  <2> HIDE DEF r
  <2> QED
    BY <2>1, <2>2, AddPut DEF VideoTypes
<1> QED
  BY <1>1, <1>2, <1>3, <1>4

LEMMA StepShape ==
  ASSUME VideoTypeInv, [VideoNext]_videoVars
  PROVE  Rests \/ \E p \in Propagations : Propagates(p)
<1>1. CASE VideoCrash
  BY <1>1, RestartShape DEF VideoTypeInv
<1>2. CASE \/ CreatesSession
           \/ \E a \in Seeds : \/ ReadsSeeds(a) \/ OpensSeeds(a)
                               \/ WritesSeeds(a) \/ SeedsUnwritten(a)
           \/ CancelsVideo
           \/ UNCHANGED videoVars
  BY <1>2 DEF CreatesSession, ReadsSeeds, OpensSeeds, WritesSeeds, SeedsUnwritten,
              CancelsVideo, videoVars, files, pngs, Reached, Rests, VideoTypeInv,
              VideoTypes
<1> QED
  BY <1>1, <1>2 DEF VideoNext, Propagates, Quits

LEMMA FrameNext ==
  ASSUME VideoTypeInv, [VideoNext]_videoVars, NEW p \in Propagations
  PROVE  InFrame(p)'
<1>0. InFrame(p) /\ VideoTypes
  BY DEF VideoTypeInv
<1>1. CASE Rests
  BY <1>0, <1>1 DEF Rests, InFrame
<1>2. ASSUME NEW q \in Propagations, Propagates(q), q # p PROVE InFrame(p)'
  <2>1. run'[p] = run[p]
    BY <1>0, <1>2, RunGoesShape, StartsShape, MasksShape, QuitsShape
    DEF Propagates, RunGoes
  <2> QED
    BY <1>0, <2>1 DEF InFrame
<1>3. CASE Propagates(p)
  <2>1. CASE Locks(p) \/ Clears(p)
    <3>1. run[p].step \in {"idle", "locked"}
      BY <2>1 DEF Locks, Clears
    <3>2. run'[p].frame = run[p].frame /\ run'[p].step \in {"locked", "starting", "done"}
      BY <1>0, <2>1, RunGoesShape DEF RunGoes
    <3> QED
      BY <1>0, <3>1, <3>2 DEF InFrame
  <2>2. CASE Starts(p)
    <3>1. run[p].step = "starting"
      BY <2>2 DEF Starts
    <3>2. run'[p].frame = run[p].frame /\ run'[p].step \in {"checking", "done"}
      BY <1>0, <2>2, StartsShape DEF RunGoes
    <3> QED
      BY <1>0, <3>1, <3>2, FramesCount DEF InFrame
  <2>3. CASE Checks(p)
    <3>1. run[p].step = "checking"
      BY <2>3 DEF Checks
    <3>2. run'[p].frame = run[p].frame /\ run'[p].step \in {"masking", "done"}
      BY <1>0, <2>3, RunGoesShape DEF RunGoes
    <3> QED
      BY <1>0, <3>1, <3>2 DEF InFrame
  <2>4. CASE Masks(p)
    BY <2>4, MasksShape DEF InFrame
  <2>5. CASE OpensCheckpoint(p) \/ WritesCheckpoint(p) \/ Quits(p)
    <3>1. run'[p].step \in {"filling", "done"}
      BY <1>0, <2>5, RunGoesShape, QuitsShape DEF RunGoes
    <3> QED
      BY <3>1 DEF InFrame
  <2> QED
    BY <1>3, <2>1, <2>2, <2>3, <2>4, <2>5 DEF Propagates
<1> QED
  BY <1>1, <1>2, <1>3, StepShape

LEMMA VideoTypeNext ==
  ASSUME VideoTypeInv, [VideoNext]_videoVars
  PROVE  VideoTypeInv'
<1> USE DEF files, pngs, watched
<1>0. VideoTypes
  BY DEF VideoTypeInv
<1>1. run' \in [Propagations -> RunRecords]
  BY <1>0, StepShape, RunGoesShape, StartsShape, MasksShape, QuitsShape
  DEF Rests, Propagates, RunGoes
<1>2. adding' \in [Seeds -> AddRecords]
  <2>1. CASE VideoCrash
    BY <1>0, <2>1, RestartShape
  <2>2. CASE \E a \in Seeds : \/ ReadsSeeds(a) \/ OpensSeeds(a)
                            \/ WritesSeeds(a) \/ SeedsUnwritten(a)
    BY <1>0, <2>2, AddsShape
  <2>3. CASE adding' = adding
    BY <1>0, <2>3 DEF VideoTypes
  <2> QED
    BY <2>1, <2>2, <2>3 DEF VideoNext, CreatesSession, Locks, Clears, Starts, Checks,
       Masks, MaskingRaises, OpensCheckpoint, WritesCheckpoint,
       CheckpointUnwritten, CancelsVideo, videoVars
<1>3. /\ session' \in BOOLEAN /\ cancelling' \in BOOLEAN /\ disturbed' \in BOOLEAN
      /\ lock' \in Propagations \cup {Nobody}
      /\ kept' \subseteq Seeds /\ notified' \subseteq Propagations
      /\ restarts' \in 0 .. MaxRestarts
  <2>1. CASE VideoCrash
    <3>1. restarts' \in 0 .. MaxRestarts
      BY <1>0, <2>1, VideoConstantsOK DEF VideoCrash, VideoTypes
    <3>2. /\ session' = session /\ kept' = kept /\ cancelling' = FALSE
          /\ disturbed' = TRUE /\ lock' = Nobody /\ notified' = {}
      BY <2>1 DEF VideoCrash
    <3> QED
      BY <1>0, <3>1, <3>2 DEF VideoTypes
  <2>2. CASE ~VideoCrash
    <3>1. restarts' = restarts
      BY <2>2 DEF VideoNext, CreatesSession, ReadsSeeds, OpensSeeds, WritesSeeds,
         SeedsUnwritten, Locks, Clears, Starts, Checks, Masks, MaskingRaises,
         OpensCheckpoint, WritesCheckpoint, CheckpointUnwritten, CancelsVideo, videoVars
    <3>2. /\ session' \in BOOLEAN /\ cancelling' \in BOOLEAN /\ disturbed' \in BOOLEAN
          /\ lock' \in Propagations \cup {Nobody}
          /\ kept' \subseteq Seeds /\ notified' \subseteq Propagations
      BY <1>0, <2>2 DEF VideoTypes, VideoNext, CreatesSession, ReadsSeeds, OpensSeeds,
         WritesSeeds, SeedsUnwritten, Locks, Clears, Starts, Checks, Masks,
         MaskingRaises, OpensCheckpoint, WritesCheckpoint, CheckpointUnwritten,
         CancelsVideo, videoVars
    <3> QED
      BY <1>0, <3>1, <3>2 DEF VideoTypes
  <2> QED
    BY <2>1, <2>2
<1>4. /\ masks' \subseteq Objects \X (0 .. Frames - 1)
      /\ spoilt' \subseteq Objects \X (0 .. Frames - 1)
  <2> DEFINE Files == Objects \X (0 .. Frames - 1)
  <2>1. ASSUME NEW p \in Propagations, run[p].step = "masking"
        PROVE  FilesOf(run[p].seeds, {run[p].frame}) \subseteq Files
    <3>1. run[p].seeds \subseteq Seeds /\ run[p].frame \in 0 .. Frames
      BY <1>0 DEF VideoTypes, RunRecords
    <3>2. run[p].frame < Frames
      BY <2>1 DEF VideoTypeInv, InFrame
    <3>3. run[p].frame \in 0 .. Frames - 1
      BY <3>1, <3>2, FramesCount
    <3>4. {ObjectOf[a] : a \in run[p].seeds} \subseteq Objects
      BY <3>1, VideoConstantsOK
    <3> QED
      BY <3>3, <3>4 DEF FilesOf
  <2> HIDE DEF Files
  <2>2. masks \subseteq Files /\ spoilt \subseteq Files
    BY <1>0 DEF VideoTypes, Files
  <2>3. ASSUME NEW good, NEW bad, Written(good, bad), good \subseteq Files, bad \subseteq Files
        PROVE  masks' \subseteq Files /\ spoilt' \subseteq Files
    BY <2>2, <2>3 DEF Written
  <2>4. ASSUME NEW p \in Propagations, Masks(p)
        PROVE  masks' \subseteq Files /\ spoilt' \subseteq Files
    <3> DEFINE frame == FilesOf(run[p].seeds, {run[p].frame})
    <3>1. run[p].step = "masking" /\ \E bad \in SUBSET frame : Written(frame \ bad, bad)
      BY <2>4 DEF Masks
    <3>2. frame \subseteq Files
      BY <2>1, <3>1
    <3> HIDE DEF frame
    <3> QED
      BY <2>3, <3>1, <3>2
  <2>5. ASSUME NEW p \in Propagations, run[p].step = "masking", PartlyMasked(p)
        PROVE  masks' \subseteq Files /\ spoilt' \subseteq Files
    <3> DEFINE frame == FilesOf(run[p].seeds, {run[p].frame})
    <3>1. \E good \in SUBSET frame : \E bad \in SUBSET (frame \ good) : Written(good, bad)
      BY <2>5 DEF PartlyMasked
    <3>2. frame \subseteq Files
      BY <2>1, <2>5
    <3> HIDE DEF frame
    <3> QED
      BY <2>3, <3>1, <3>2
  <2>6. ASSUME masks' = masks, spoilt' = spoilt
        PROVE  masks' \subseteq Files /\ spoilt' \subseteq Files
    BY <2>2, <2>6
  <2>7. masks' \subseteq Files /\ spoilt' \subseteq Files
    BY <2>4, <2>5, <2>6 DEF VideoNext, CreatesSession, ReadsSeeds, OpensSeeds,
       WritesSeeds, SeedsUnwritten, Locks, Clears, Starts, Checks, MaskingRaises,
       OpensCheckpoint, WritesCheckpoint, CheckpointUnwritten, CancelsVideo,
       VideoCrash, videoVars
  <2> QED
    BY <2>7 DEF Files
<1>5. seedFile' \in SeedFiles
  <2>1. ASSUME NEW a \in Seeds, WritesSeeds(a) PROVE seedFile' \in SeedFiles
    <3>1. Extended(a) \in SUBSET Seeds
      BY <1>0 DEF Extended, VideoTypes, AddRecords
    <3> QED
      BY <2>1, <3>1, FileRecords DEF WritesSeeds
  <2> QED
    BY <1>0, <2>1, EmptyFiles DEF VideoNext, CreatesSession, ReadsSeeds, OpensSeeds,
       SeedsUnwritten, Locks, Clears, Starts, Checks, Masks, MaskingRaises,
       OpensCheckpoint, WritesCheckpoint, CheckpointUnwritten, CancelsVideo,
       VideoCrash, videoVars, VideoTypes
<1>6. checkpoint' \in SeedFiles
  <2>1. ASSUME NEW p \in Propagations, WritesCheckpoint(p)
        PROVE  checkpoint' \in SeedFiles
    <3>1. run[p].seeds \in SUBSET Seeds
      BY <1>0 DEF VideoTypes, RunRecords
    <3> QED
      BY <2>1, <3>1, FileRecords DEF WritesCheckpoint
  <2> QED
    BY <1>0, <2>1, EmptyFiles, StepShape, QuitsShape DEF Rests, Propagates, Locks, Clears, Starts,
       Checks, Masks, OpensCheckpoint, VideoTypes
<1> QED
  BY <1>1, <1>2, <1>3, <1>4, <1>5, <1>6, FrameNext DEF VideoTypeInv, VideoTypes

LEMMA VideoTypeInit == VideoInit => VideoTypeInv
<1> SUFFICES ASSUME VideoInit PROVE VideoTypeInv
  OBVIOUS
<1>1. VideoTypes
  <2>1. /\ adding \in [Seeds -> AddRecords] /\ run \in [Propagations -> RunRecords]
        /\ seedFile \in SeedFiles /\ checkpoint \in SeedFiles
    BY RestingRecords, EmptyFiles DEF VideoInit
  <2>2. restarts \in 0 .. MaxRestarts
    BY VideoConstantsOK DEF VideoInit
  <2> QED
    BY <2>1, <2>2 DEF VideoInit, VideoTypes
<1>2. \A p \in Propagations : InFrame(p)
  BY DEF VideoInit, InFrame, AtRest
<1> QED
  BY <1>1, <1>2 DEF VideoTypeInv

(***************************************************************************)
(* The session's files, and what the requests hold of them, keep their     *)
(* shapes, and a propagation stays within the video.                       *)
(***************************************************************************)
THEOREM VideoTypeCorrect == VideoSpec => []VideoTypeOK
<1>1. VideoTypeInv /\ [VideoNext]_videoVars => VideoTypeInv'
  BY VideoTypeNext
<1>2. VideoTypeInv => VideoTypeOK
  BY VideoTypesAre DEF VideoTypeInv
<1> QED
  BY <1>1, <1>2, VideoTypeInit, PTL DEF VideoSpec

-----------------------------------------------------------------------------
(***************************************************************************)
(* A propagation has written, or failed to write, the masks of the frames  *)
(* behind it, and of all when it writes its checkpoint.                    *)
(***************************************************************************)
Behind(p) ==
  CASE run[p].step \in {"checking", "masking"} -> 0 .. run[p].frame - 1
    [] run[p].step \in {"opening", "filling"} -> 0 .. Frames - 1
    [] OTHER -> {}

MaskInv ==
  /\ \A p \in Propagations : FilesOf(run[p].seeds, Behind(p)) \subseteq Reached
  /\ CheckpointHasMasks

LEMMA FilesOfFrames ==
  ASSUME NEW S, NEW F, NEW G
  PROVE  /\ FilesOf(S, {}) = {}
         /\ F \subseteq G => FilesOf(S, F) \subseteq FilesOf(S, G)
         /\ FilesOf(S, F \cup G) = FilesOf(S, F) \cup FilesOf(S, G)
BY DEF FilesOf

LEMMA MaskStay ==
  ASSUME MaskInv, Reached \subseteq Reached',
         checkpoint' = checkpoint \/ checkpoint'.state # "whole",
         \A p \in Propagations : \/ run'[p].step \in {"idle", "locked", "starting", "done"}
                                 \/ /\ run'[p].seeds = run[p].seeds
                                    /\ Behind(p)' \subseteq Behind(p)
  PROVE  MaskInv'
<1>1. ASSUME NEW p \in Propagations PROVE FilesOf(run'[p].seeds, Behind(p)') \subseteq Reached'
  <2>1. CASE run'[p].step \in {"idle", "locked", "starting", "done"}
    <3>1. Behind(p)' = {}
      BY <2>1 DEF Behind
    <3> QED
      BY <3>1, FilesOfFrames
  <2>2. CASE run'[p].seeds = run[p].seeds /\ Behind(p)' \subseteq Behind(p)
    <3>1. FilesOf(run'[p].seeds, Behind(p)') \subseteq FilesOf(run[p].seeds, Behind(p))
      BY <2>2, FilesOfFrames
    <3> QED
      BY <3>1 DEF MaskInv
  <2> QED
    BY <2>1, <2>2
<1>2. CheckpointHasMasks'
  BY DEF MaskInv, CheckpointHasMasks, Reached
<1> QED
  BY <1>1, <1>2 DEF MaskInv

LEMMA MaskNext ==
  ASSUME VideoTypeInv, MaskInv, [VideoNext]_videoVars
  PROVE  MaskInv'
<1> USE DEF files, pngs
<1>0. VideoTypes
  BY DEF VideoTypeInv
<1>1. CASE Rests
  <2>1. ASSUME NEW p \in Propagations, run'[p] = run[p]
        PROVE  run'[p].seeds = run[p].seeds /\ Behind(p)' \subseteq Behind(p)
    BY <2>1 DEF Behind
  <2> QED
    BY <1>1, <2>1, MaskStay DEF Rests
<1>2. ASSUME NEW p \in Propagations, Propagates(p) PROVE MaskInv'
  <2>0. \A q \in Propagations \ {p} : /\ run'[q].seeds = run[q].seeds
                                      /\ Behind(q)' \subseteq Behind(q)
    <3>1. \A q \in Propagations \ {p} : run'[q] = run[q]
      BY <1>0, <1>2, RunGoesShape, StartsShape, MasksShape, QuitsShape
      DEF Propagates, RunGoes
    <3> QED
      BY <3>1 DEF Behind
  <2>9. ASSUME Reached \subseteq Reached', NEW q \in Propagations \ {p}
        PROVE  FilesOf(run'[q].seeds, Behind(q)') \subseteq Reached'
    <3>1. FilesOf(run'[q].seeds, Behind(q)') \subseteq FilesOf(run[q].seeds, Behind(q))
      BY <2>0, FilesOfFrames
    <3> QED
      BY <2>9, <3>1 DEF MaskInv
  <2>1. CASE Locks(p) \/ Clears(p)
    <3>1. run'[p].step \in {"locked", "starting", "done"} /\ UNCHANGED <<pngs, checkpoint>>
      BY <1>0, <2>1, RunGoesShape DEF RunGoes, Locks, Clears
    <3> QED
      BY <2>0, <3>1, MaskStay DEF Reached
  <2>2. CASE Starts(p)
    <3>1. UNCHANGED <<pngs, checkpoint>> /\ run[p].step = "starting"
      BY <2>2 DEF Starts
    <3>2. CASE RunGoes(p, "done")
      BY <2>0, <3>1, <3>2, MaskStay DEF RunGoes, Reached
    <3>3. CASE run'[p].step = "checking" /\ run'[p].frame = run[p].frame
      <4>1. run'[p].frame = 0
        BY <3>1, <3>3 DEF VideoTypeInv, InFrame
      <4>2. Behind(p)' = {}
        BY <3>3, <4>1 DEF Behind
      <4>3. FilesOf(run'[p].seeds, Behind(p)') \subseteq Reached'
        BY <4>2, FilesOfFrames
      <4>4. Reached' = Reached /\ CheckpointHasMasks'
        BY <3>1 DEF Reached, MaskInv, CheckpointHasMasks
      <4> QED
        BY <2>9, <4>3, <4>4 DEF MaskInv
    <3> QED
      BY <1>0, <2>2, <3>2, <3>3, StartsShape
  <2>3. CASE Checks(p)
    <3>1. UNCHANGED <<pngs, checkpoint>> /\ run[p].step = "checking"
      BY <2>3 DEF Checks
    <3>2. CASE RunGoes(p, "done")
      BY <2>0, <3>1, <3>2, MaskStay DEF RunGoes, Reached
    <3>3. CASE RunGoes(p, "masking")
      <4>1. run'[p].seeds = run[p].seeds /\ Behind(p)' = Behind(p)
        BY <3>1, <3>3 DEF RunGoes, Behind
      <4> QED
        BY <2>0, <3>1, <4>1, MaskStay DEF Reached
    <3> QED
      BY <1>0, <2>3, <3>2, <3>3, RunGoesShape
  <2>4. CASE Masks(p)
    <3>1. /\ checkpoint' = checkpoint
          /\ Reached \subseteq Reached'
          /\ FilesOf(run[p].seeds, {run[p].frame}) \subseteq Reached'
      BY <2>4, MasksReach
    <3>2. /\ run[p].step = "masking" /\ run'[p].frame = run[p].frame + 1
          /\ run'[p].seeds = run[p].seeds
          /\ \/ run'[p].step = "checking"
             \/ run'[p].step = "opening" /\ run'[p].frame = Frames
      BY <2>4, MasksShape
    <3>3. run[p].frame \in Nat
      BY <1>0, FramesCount DEF VideoTypes, RunRecords
    <3>4. Behind(p) = 0 .. run[p].frame - 1 /\ Behind(p)' = 0 .. run[p].frame
      BY <3>2, <3>3, FramesCount DEF Behind
    <3>5. Behind(p)' = Behind(p) \cup {run[p].frame}
      BY <3>3, <3>4
    <3>6. FilesOf(run'[p].seeds, Behind(p)')
            = FilesOf(run[p].seeds, Behind(p)) \cup FilesOf(run[p].seeds, {run[p].frame})
      BY <3>2, <3>5, FilesOfFrames
    <3>7. FilesOf(run'[p].seeds, Behind(p)') \subseteq Reached'
      BY <3>1, <3>6 DEF MaskInv
    <3>8. CheckpointHasMasks'
      BY <3>1 DEF MaskInv, CheckpointHasMasks, Reached
    <3> QED
      BY <2>9, <3>1, <3>7, <3>8 DEF MaskInv
  <2>5. CASE OpensCheckpoint(p)
    <3>1. /\ Reached' = Reached /\ checkpoint'.state = "torn"
          /\ run[p].step = "opening"
      BY <2>5 DEF OpensCheckpoint, File, Reached
    <3>2. run'[p].step = "filling" /\ run'[p].seeds = run[p].seeds
      BY <1>0, <2>5, RunGoesShape DEF RunGoes
    <3>3. Behind(p)' = Behind(p)
      BY <3>1, <3>2 DEF Behind
    <3> QED
      BY <2>0, <3>1, <3>2, <3>3, MaskStay
  <2>6. CASE WritesCheckpoint(p)
    <3>1. /\ Reached' = Reached /\ checkpoint'.seeds = run[p].seeds
          /\ run[p].step = "filling"
      BY <2>6 DEF WritesCheckpoint, File, Reached
    <3>2. run'[p].step = "done"
      BY <1>0, <2>6, RunGoesShape DEF RunGoes
    <3>3. Behind(p) = 0 .. Frames - 1
      BY <3>1 DEF Behind
    <3>4. CheckpointHasMasks'
      BY <3>1, <3>3 DEF MaskInv, CheckpointHasMasks, Reached
    <3>5. Behind(p)' = {}
      BY <3>2 DEF Behind
    <3>6. FilesOf(run'[p].seeds, Behind(p)') \subseteq Reached'
      BY <3>5, FilesOfFrames
    <3> QED
      BY <2>9, <3>1, <3>4, <3>6 DEF MaskInv
  <2>7. CASE Quits(p)
    BY <1>0, <2>0, <2>7, QuitsShape, MaskStay DEF RunGoes
  <2> QED
    BY <1>2, <2>1, <2>2, <2>3, <2>4, <2>5, <2>6, <2>7 DEF Propagates
<1> QED
  BY <1>1, <1>2, StepShape

(***************************************************************************)
(* A checkpoint that can be read lists no mask that was not reached.       *)
(***************************************************************************)
THEOREM CheckpointTheorem == VideoSpec => []CheckpointHasMasks
<1>1. VideoInit => MaskInv
  BY FilesOfFrames DEF VideoInit, MaskInv, CheckpointHasMasks, Behind, AtRest, File
<1>2. VideoTypeInv /\ [VideoNext]_videoVars => VideoTypeInv'
  BY VideoTypeNext
<1>3. VideoTypeInv /\ MaskInv /\ [VideoNext]_videoVars => MaskInv'
  BY MaskNext
<1>4. MaskInv => CheckpointHasMasks
  BY DEF MaskInv
<1> QED
  BY <1>1, <1>2, <1>3, <1>4, VideoTypeInit, PTL DEF VideoSpec

-----------------------------------------------------------------------------
(***************************************************************************)
(* The flag of a cancel stands until somebody gets the lock: so it stands  *)
(* for as long as a propagation it was meant for is active.                *)
(***************************************************************************)
LockInv ==
  \A p \in Propagations : run[p].step \in RunSteps <=> lock = p

ToldRunInv ==
  \A p \in notified :
    /\ run[p].step \notin {"idle", "locked"}
    /\ run[p].step \in {"starting", "checking", "masking"} => cancelling

LEMMA LockNext ==
  ASSUME VideoTypeInv, LockInv, [VideoNext]_videoVars
  PROVE  LockInv'
<1> USE DEF files
<1>0. VideoTypes /\ Nobody \notin Propagations
  BY VideoConstantsOK DEF VideoTypeInv
<1>1. CASE VideoCrash
  <2>1. lock' = Nobody /\ \A p \in Propagations : run'[p].step \in {"idle", "done"}
    BY <1>0, <1>1, RestartShape DEF VideoCrash
  <2> QED
    BY <1>0, <2>1 DEF LockInv, RunSteps
<1>2. CASE UNCHANGED <<run, lock>>
  BY <1>2 DEF LockInv
<1>3. ASSUME NEW p \in Propagations, Propagates(p) PROVE LockInv'
  <2>0. \A q \in Propagations \ {p} : run'[q] = run[q]
    BY <1>0, <1>3, RunGoesShape, StartsShape, MasksShape, QuitsShape
    DEF Propagates, RunGoes
  <2>1. /\ run'[p].step \in RunSteps => lock' = p
        /\ run'[p].step \notin RunSteps =>
             lock' # p /\ (lock' = lock \/ (lock = p /\ lock' = Nobody))
        /\ lock' # lock => lock \in {p, Nobody}
    <3>1. CASE Locks(p)
      <4>1. lock = Nobody => Runs(p, "locked") /\ lock' = p
        BY <3>1 DEF Locks
      <4>2. lock # Nobody => Runs(p, "done") /\ lock' = lock
        BY <3>1 DEF Locks
      <4>3. run[p].step = "idle"
        BY <3>1 DEF Locks
      <4>4. lock # p
        BY <4>3 DEF LockInv, RunSteps
      <4>5. lock = Nobody => run'[p].step = "locked"
        BY <1>0, <4>1, RunsPut DEF VideoTypes, RunSteps
      <4>6. lock # Nobody => run'[p].step = "done"
        BY <1>0, <4>2, RunsPut DEF VideoTypes, RunSteps
      <4> QED
        BY <1>0, <4>1, <4>2, <4>4, <4>5, <4>6 DEF RunSteps
    <3>2. CASE Clears(p) \/ OpensCheckpoint(p)
      <4>1. lock' = lock /\ run[p].step \in RunSteps
        BY <3>2 DEF Clears, OpensCheckpoint, RunSteps
      <4>2. run'[p].step \in RunSteps
        BY <1>0, <3>2, RunGoesShape DEF RunGoes, RunSteps
      <4> QED
        BY <4>1, <4>2 DEF LockInv
    <3>3. CASE Starts(p)
      <4>1. lock = p
        BY <3>3 DEF Starts, LockInv, RunSteps
      <4>2. \/ run'[p].step = "done" /\ lock' = Nobody
            \/ run'[p].step = "checking" /\ lock' = lock
        BY <1>0, <3>3, StartsShape DEF RunGoes
      <4> QED
        BY <1>0, <4>1, <4>2 DEF RunSteps
    <3>4. CASE Checks(p)
      <4>1. lock = p
        BY <3>4 DEF Checks, LockInv, RunSteps
      <4>2. \/ Runs(p, "done") /\ lock' = Nobody
            \/ Runs(p, "masking") /\ lock' = lock
        BY <3>4 DEF Checks
      <4>3. \/ run'[p].step = "done" /\ lock' = Nobody
            \/ run'[p].step = "masking" /\ lock' = lock
        BY <1>0, <4>2, RunsPut DEF VideoTypes, RunSteps
      <4> QED
        BY <1>0, <4>1, <4>3 DEF RunSteps
    <3>5. CASE Masks(p)
      <4>1. run[p].step \in RunSteps /\ run'[p].step \in RunSteps /\ lock' = lock
        BY <3>5, MasksShape DEF RunSteps, Masks
      <4> QED
        BY <4>1 DEF LockInv
    <3>6. CASE WritesCheckpoint(p)
      <4>1. lock = p /\ lock' = Nobody
        BY <3>6 DEF WritesCheckpoint, LockInv, RunSteps
      <4>2. run'[p].step = "done"
        BY <1>0, <3>6, RunGoesShape DEF RunGoes
      <4> QED
        BY <1>0, <4>1, <4>2 DEF RunSteps
    <3>7. CASE Quits(p)
      <4>1. lock = p /\ lock' = Nobody /\ run'[p].step = "done"
        BY <1>0, <3>7, QuitsShape DEF LockInv, RunSteps, RunGoes
      <4> QED
        BY <1>0, <4>1 DEF RunSteps
    <3> QED
      BY <1>3, <3>1, <3>2, <3>3, <3>4, <3>5, <3>6, <3>7 DEF Propagates
  <2>2. ASSUME NEW q \in Propagations \ {p}
        PROVE  run'[q].step \in RunSteps <=> lock' = q
    BY <1>0, <2>0, <2>1 DEF LockInv
  <2> QED
    BY <2>1, <2>2 DEF LockInv
<1> QED
  BY <1>1, <1>2, <1>3 DEF VideoNext, Propagates, Quits, CreatesSession, ReadsSeeds,
     OpensSeeds, WritesSeeds, SeedsUnwritten, CancelsVideo, videoVars

\* No step takes a propagation that was told from the check to a frame.
Unmasked == \A p \in notified : ~(run[p].step = "checking" /\ run'[p].step = "masking")

LEMMA ToldRunNext ==
  ASSUME VideoTypeInv, LockInv, ToldRunInv, [VideoNext]_videoVars
  PROVE  ToldRunInv' /\ Unmasked
<1> USE DEF files, watched
<1>0. VideoTypes /\ notified \subseteq Propagations
  BY DEF VideoTypeInv, VideoTypes
<1>1. CASE VideoCrash
  <2>1. notified' = {} /\ \A p \in Propagations : run'[p].step \in {"idle", "done"}
    BY <1>0, <1>1, RestartShape DEF VideoCrash
  <2> QED
    BY <1>0, <2>1 DEF ToldRunInv, Unmasked
<1>2. CASE CancelsVideo
  <2>1. cancelling' = TRUE /\ run' = run
    BY <1>2 DEF CancelsVideo
  <2>2. \A p \in notified' : run[p].step \notin {"idle", "locked"}
    BY <1>2 DEF CancelsVideo, ToldRunInv
  <2> QED
    BY <2>1, <2>2 DEF ToldRunInv, Unmasked
<1>3. CASE UNCHANGED <<run, notified, cancelling>>
  BY <1>3 DEF ToldRunInv, Unmasked
<1>4. ASSUME NEW p \in Propagations, Propagates(p) PROVE ToldRunInv' /\ Unmasked
  <2>0. /\ notified' = notified
        /\ \A q \in Propagations \ {p} : run'[q] = run[q]
    BY <1>0, <1>4, RunGoesShape, StartsShape, MasksShape, QuitsShape
    DEF Propagates, Quits, RunGoes, Locks, Clears, Starts, Checks, Masks,
        MaskingRaises, OpensCheckpoint, WritesCheckpoint, CheckpointUnwritten
  <2>1. CASE Clears(p)
    <3>1. run[p].step = "locked" /\ lock = p
      BY <2>1 DEF Clears, LockInv, RunSteps
    <3>2. p \notin notified
      BY <3>1 DEF ToldRunInv
    <3>3. \A q \in notified : run[q].step \notin RunSteps /\ run'[q] = run[q]
      BY <1>0, <2>0, <3>1, <3>2 DEF LockInv
    <3> QED
      BY <2>0, <3>3 DEF ToldRunInv, Unmasked, RunSteps
  <2>2. CASE ~Clears(p)
    <3>1. cancelling' = cancelling
      BY <1>4, <2>2 DEF Propagates, Quits, Locks, Starts, Checks, Masks,
         MaskingRaises, OpensCheckpoint, WritesCheckpoint, CheckpointUnwritten
    <3>2. CASE p \notin notified
      BY <1>0, <2>0, <3>1, <3>2 DEF ToldRunInv, Unmasked
    <3>3. CASE p \in notified
      <4>1. ~Locks(p)
        BY <3>3 DEF ToldRunInv, Locks
      <4>2. CASE Starts(p)
        <5>1. run[p].step = "starting" /\ cancelling
          BY <3>3, <4>2 DEF Starts, ToldRunInv
        <5>2. run'[p].step \in {"checking", "done"}
          BY <1>0, <4>2, StartsShape DEF RunGoes
        <5> QED
          BY <1>0, <2>0, <3>1, <5>1, <5>2 DEF ToldRunInv, Unmasked
      <4>3. CASE Checks(p)
        <5>1. run[p].step = "checking" /\ cancelling
          BY <3>3, <4>3 DEF Checks, ToldRunInv
        <5>2. Runs(p, "done")
          BY <4>3, <5>1 DEF Checks
        <5>3. run'[p].step = "done"
          BY <1>0, <5>2, RunsPut DEF VideoTypes
        <5> QED
          BY <1>0, <2>0, <3>1, <5>3 DEF ToldRunInv, Unmasked
      <4>4. CASE Masks(p)
        <5>1. run[p].step = "masking" /\ run'[p].step \in {"checking", "opening"}
          BY <4>4, MasksShape
        <5>2. cancelling
          BY <3>3, <5>1 DEF ToldRunInv
        <5> QED
          BY <1>0, <2>0, <3>1, <5>1, <5>2 DEF ToldRunInv, Unmasked
      <4>5. CASE OpensCheckpoint(p) \/ WritesCheckpoint(p) \/ Quits(p)
        <5>1. run'[p].step \in {"filling", "done"}
          BY <1>0, <4>5, RunGoesShape, QuitsShape DEF RunGoes
        <5> QED
          BY <1>0, <2>0, <3>1, <5>1 DEF ToldRunInv, Unmasked
      <4> QED
        BY <1>4, <2>2, <4>1, <4>2, <4>3, <4>4, <4>5 DEF Propagates
    <3> QED
      BY <3>2, <3>3
  <2> QED
    BY <2>1, <2>2
<1> QED
  BY <1>1, <1>2, <1>3, <1>4 DEF VideoNext, Propagates, Quits, CreatesSession,
     ReadsSeeds, OpensSeeds, WritesSeeds, SeedsUnwritten, videoVars

(***************************************************************************)
(* A propagation that was told to stop computes no further frame.          *)
(***************************************************************************)
THEOREM ToldTheorem == VideoSpec => ToldStops
<1>1. VideoInit => LockInv /\ ToldRunInv
  BY VideoConstantsOK DEF VideoInit, LockInv, ToldRunInv, AtRest, RunSteps
<1>2. VideoTypeInv /\ [VideoNext]_videoVars => VideoTypeInv'
  BY VideoTypeNext
<1>3. VideoTypeInv /\ LockInv /\ [VideoNext]_videoVars => LockInv'
  BY LockNext
<1>4. VideoTypeInv /\ LockInv /\ ToldRunInv /\ [VideoNext]_videoVars => ToldRunInv'
  BY ToldRunNext
<1>5. VideoTypeInv /\ LockInv /\ ToldRunInv /\ [VideoNext]_videoVars =>
        [\A p \in notified : ~(run[p].step = "checking" /\ run'[p].step = "masking")]_videoVars
  BY ToldRunNext DEF Unmasked
<1> QED
  BY <1>1, <1>2, <1>3, <1>4, <1>5, VideoTypeInit, PTL DEF VideoSpec, ToldStops

-----------------------------------------------------------------------------
(***************************************************************************)
(* Undisturbed, one request at a time has the seeds' file, knows all that  *)
(* was answered for, and leaves the file torn until it has written it.     *)
(***************************************************************************)
AddsNow(a) == adding[a].step \in {"read", "opened"}

SeedInv ==
  /\ ~session => kept = {} /\ \A a \in Seeds : ~AddsNow(a)
  /\ ~disturbed =>
       /\ \A a, b \in Seeds : AddsNow(a) /\ AddsNow(b) => a = b
       /\ \A a \in Seeds : AddsNow(a) => kept \subseteq adding[a].seeds
       /\ SeedsKept

LEMMA SeedNext ==
  ASSUME VideoTypeInv, SeedInv, [VideoNext]_videoVars
  PROVE  SeedInv'
<1> USE DEF files, watched
<1>0. VideoTypes
  BY DEF VideoTypeInv
<1>1. CASE UNCHANGED <<session, seedFile, adding, kept, disturbed>>
  BY <1>1 DEF SeedInv, SeedsKept, AddsNow
<1>2. CASE CreatesSession
  BY <1>2 DEF CreatesSession, SeedInv, SeedsKept, AddsNow
<1>3. CASE VideoCrash
  <2>1. \A a \in Seeds : ~AddsNow(a)'
    BY <1>3 DEF VideoCrash, AddsNow, AtRest
  <2> QED
    BY <1>3, <2>1 DEF VideoCrash, SeedInv
<1>4. ASSUME NEW a \in Seeds, ReadsSeeds(a) PROVE SeedInv'
  <2>1. /\ session' = session /\ session /\ seedFile' = seedFile /\ kept' = kept
        /\ disturbed' = (disturbed \/ \E b \in Seeds : AddsNow(b))
    BY <1>4 DEF ReadsSeeds, AddsNow
  <2>2. /\ \A b \in Seeds \ {a} : adding'[b] = adding[b]
        /\ \/ adding'[a].step = "done"
           \/ /\ seedFile.state = "whole" /\ adding'[a].step = "read"
              /\ adding'[a].seeds = seedFile.seeds
    BY <1>0, <1>4, AddsShape
  <2>3. ASSUME ~disturbed'
        PROVE  /\ \A b, c \in Seeds : AddsNow(b)' /\ AddsNow(c)' => b = c
               /\ \A b \in Seeds : AddsNow(b)' => kept' \subseteq adding'[b].seeds
               /\ SeedsKept'
    <3>1. ~disturbed /\ \A b \in Seeds : ~AddsNow(b)
      BY <1>0, <2>1, <2>3 DEF VideoTypes
    <3>2. \A b \in Seeds \ {a} : ~AddsNow(b)'
      BY <2>2, <3>1 DEF AddsNow
    <3>3. AddsNow(a)' => kept' \subseteq adding'[a].seeds
      BY <2>1, <2>2, <3>1 DEF AddsNow, SeedInv, SeedsKept
    <3>4. SeedsKept'
      BY <2>1, <3>1 DEF SeedInv, SeedsKept
    <3> QED
      BY <3>2, <3>3, <3>4
  <2> QED
    BY <2>1, <2>3 DEF SeedInv
<1>5. ASSUME NEW a \in Seeds, OpensSeeds(a) PROVE SeedInv'
  <2>1. /\ session' = session /\ kept' = kept /\ disturbed' = disturbed
        /\ seedFile'.state = "torn" /\ AddsNow(a)
    BY <1>5 DEF OpensSeeds, AddsNow, File
  <2>2. /\ \A b \in Seeds \ {a} : adding'[b] = adding[b]
        /\ adding'[a].step = "opened" /\ adding'[a].seeds = adding[a].seeds
    BY <1>0, <1>5, AddsShape
  <2>3. \A b \in Seeds : (AddsNow(b)' <=> AddsNow(b)) /\ adding'[b].seeds = adding[b].seeds
    BY <2>1, <2>2 DEF AddsNow
  <2> QED
    BY <2>1, <2>3 DEF SeedInv, SeedsKept
<1>6. ASSUME NEW a \in Seeds, WritesSeeds(a) PROVE SeedInv'
  <2>1. /\ session' = session /\ disturbed' = disturbed /\ AddsNow(a)
        /\ seedFile'.seeds = adding[a].seeds \cup {a} /\ kept' = kept \cup {a}
    BY <1>6 DEF WritesSeeds, AddsNow, File, Extended
  <2>2. /\ \A b \in Seeds \ {a} : adding'[b] = adding[b]
        /\ adding'[a].step = "done"
    BY <1>0, <1>6, AddsShape
  <2>3. session
    BY <2>1 DEF SeedInv
  <2>4. ASSUME ~disturbed PROVE SeedsKept' /\ \A b \in Seeds : ~AddsNow(b)'
    <3>1. kept \subseteq adding[a].seeds
      BY <2>1, <2>4 DEF SeedInv
    <3>2. \A b \in Seeds \ {a} : ~AddsNow(b)
      BY <2>1, <2>4 DEF SeedInv
    <3> QED
      BY <2>1, <2>2, <3>1, <3>2 DEF AddsNow, SeedsKept
  <2> QED
    BY <2>1, <2>3, <2>4 DEF SeedInv
<1>7. ASSUME NEW a \in Seeds, SeedsUnwritten(a) PROVE SeedInv'
  <2>1. /\ UNCHANGED <<session, seedFile, kept, disturbed>>
        /\ \A b \in Seeds \ {a} : adding'[b] = adding[b]
        /\ adding'[a].step = "done"
    BY <1>0, <1>7, AddsShape DEF SeedsUnwritten
  <2>2. \A b \in Seeds : AddsNow(b)' => AddsNow(b) /\ adding'[b] = adding[b]
    BY <2>1 DEF AddsNow
  <2> QED
    BY <2>1, <2>2 DEF SeedInv, SeedsKept
<1> QED
  BY <1>1, <1>2, <1>3, <1>4, <1>5, <1>6, <1>7 DEF VideoNext, Locks, Clears, Starts,
     Checks, Masks, MaskingRaises, OpensCheckpoint, WritesCheckpoint,
     CheckpointUnwritten, CancelsVideo, videoVars

(***************************************************************************)
(* Seeds that were answered for stay in the session, undisturbed.          *)
(***************************************************************************)
THEOREM SeedsTheorem == VideoSpec => []SeedsKept
<1>1. VideoInit => SeedInv
  BY DEF VideoInit, SeedInv, SeedsKept, AddsNow, AtRest
<1>2. VideoTypeInv /\ [VideoNext]_videoVars => VideoTypeInv'
  BY VideoTypeNext
<1>3. VideoTypeInv /\ SeedInv /\ [VideoNext]_videoVars => SeedInv'
  BY SeedNext
<1>4. SeedInv => SeedsKept
  BY DEF SeedInv, SeedsKept
<1> QED
  BY <1>1, <1>2, <1>3, <1>4, VideoTypeInit, PTL DEF VideoSpec
===============================================================================
