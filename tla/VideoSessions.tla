---------------------------- MODULE VideoSessions ----------------------------
(***************************************************************************)
(* One session of the video segmentation worker (sam3-video/api.py): its   *)
(* files, the process's lock and cancel flag for it, and the threads of    *)
(* FastAPI's pool that add seeds, propagate and cancel.  Files are         *)
(* rewritten in place and outlive the process; lock and flag do not.       *)
(*                                                                         *)
(* A seed stands for a batch of them and for the request that adds it.     *)
(* The masks of two seeds that name one object are written to one file.    *)
(***************************************************************************)
EXTENDS Naturals, FiniteSets

CONSTANTS
  Seeds,          \* requests that add seeds
  Objects,        \* the object_ids they name
  ObjectOf,       \* the one each names
  Propagations,   \* requests to propagate
  Nobody,
  Frames,         \* sampled frames of the video
  MaxRestarts     \* bound on the restarts of the process

ASSUME VideoConstantsOK ==
  /\ ObjectOf \in [Seeds -> Objects]
  /\ Nobody \notin Propagations
  /\ Frames \in Nat \ {0}
  /\ MaxRestarts \in Nat

VARIABLES
  session,      \* whether the session exists
  seedFile,     \* seeds.json
  masks,        \* masklets, <<object, frame>>, whose last write succeeded
  spoilt,       \* and those whose last write failed or was cut short: there
                \* may be no file, half a one, or the one from before
  checkpoint,   \* checkpoint.json: the seeds it lists the masks of
  lock,         \* the propagation that holds the session's lock, or Nobody
  cancelling,   \* whether the session is in the set cancelled
  adding,       \* where each request for seeds stands
  run,          \* where each propagation stands
  restarts,
  kept,         \* history: seeds whose request was answered with a count
  disturbed,    \* history: two requests wrote seeds at once, or a crash came
  notified      \* history: propagations that were active when a cancel came

pngs == <<masks, spoilt>>
files == <<session, seedFile, pngs, checkpoint>>
watched == <<kept, disturbed, notified>>
videoVars == <<files, lock, cancelling, adding, run, restarts, watched>>

File(state, S) == [state |-> state, seeds |-> S]

AtRest == [step |-> "idle", frame |-> 0, seeds |-> {}]

Adds(a, s) == adding' = [adding EXCEPT ![a].step = s]
Runs(p, s) == run' = [run EXCEPT ![p].step = s]

RunSteps == {"locked", "starting", "checking", "masking", "opening", "filling"}

-----------------------------------------------------------------------------
\* create_session: the upload is stored, or too large, or no video.
CreatesSession ==
  /\ ~session
  /\ session' = TRUE
  /\ seedFile' = File("whole", {})
  /\ UNCHANGED <<pngs, checkpoint, lock, cancelling, adding, run, restarts,
                 watched>>

(***************************************************************************)
(* add_seeds reads the file, truncates it and writes it, under no lock.    *)
(***************************************************************************)
\* (a torn file does not parse: the request fails)
ReadsSeeds(a) ==
  /\ session
  /\ adding[a].step = "idle"
  /\ adding' = [adding EXCEPT ![a] =
                  IF seedFile.state = "whole"
                  THEN [AtRest EXCEPT !.step = "read", !.seeds = seedFile.seeds]
                  ELSE [AtRest EXCEPT !.step = "done"]]
  /\ disturbed' = (disturbed \/ \E b \in Seeds : adding[b].step \in {"read", "opened"})
  /\ UNCHANGED <<files, lock, cancelling, run, restarts, kept, notified>>

OpensSeeds(a) ==
  /\ adding[a].step = "read"
  /\ seedFile' = File("torn", {})
  /\ Adds(a, "opened")
  /\ UNCHANGED <<session, pngs, checkpoint, lock, cancelling, run, restarts,
                 watched>>

\* A bug the runs must detect: the file is written anew.
ExtendedAnew(a) == {a}

Extended(a) == adding[a].seeds \cup {a}

WritesSeeds(a) ==
  /\ adding[a].step = "opened"
  /\ seedFile' = File("whole", Extended(a))
  /\ adding' = [adding EXCEPT ![a] = [AtRest EXCEPT !.step = "done"]]
  /\ kept' = kept \cup {a}
  /\ UNCHANGED <<session, pngs, checkpoint, lock, cancelling, run, restarts,
                 disturbed, notified>>

\* (the disk is full: the file stays truncated)
SeedsUnwritten(a) ==
  /\ adding[a].step = "opened"
  /\ Adds(a, "done")
  /\ UNCHANGED <<files, lock, cancelling, run, restarts, watched>>

-----------------------------------------------------------------------------
(***************************************************************************)
(* propagate and _propagate_boxes.                                         *)
(***************************************************************************)
\* A bug the runs must detect: the cancel flag is cleared before the lock is had.
LocksCleared(p) ==
  /\ session
  /\ run[p].step = "idle"
  /\ lock' = IF lock = Nobody THEN p ELSE lock
  /\ Runs(p, IF lock = Nobody THEN "locked" ELSE "done")
  /\ cancelling' = FALSE
  /\ UNCHANGED <<files, adding, restarts, watched>>

\* A second propagation gets 409.
Locks(p) ==
  /\ session
  /\ run[p].step = "idle"
  /\ lock' = IF lock = Nobody THEN p ELSE lock
  /\ Runs(p, IF lock = Nobody THEN "locked" ELSE "done")
  /\ UNCHANGED <<files, cancelling, adding, restarts, watched>>

\* A cancel from before, or from just now, is forgotten.
Clears(p) ==
  /\ run[p].step = "locked"
  /\ cancelling' = FALSE
  /\ Runs(p, "starting")
  /\ UNCHANGED <<files, lock, adding, restarts, watched>>

\* (a torn file raises, and the lock is left)
Starts(p) ==
  /\ run[p].step = "starting"
  /\ IF seedFile.state = "whole"
     THEN /\ run' = [run EXCEPT ![p].step = "checking", ![p].seeds = seedFile.seeds]
          /\ UNCHANGED lock
     ELSE /\ Runs(p, "done")
          /\ lock' = Nobody
  /\ UNCHANGED <<files, cancelling, adding, restarts, watched>>

\* Before each frame: cancelled?
Checks(p) ==
  /\ run[p].step = "checking"
  /\ IF cancelling THEN Runs(p, "done") /\ lock' = Nobody
                   ELSE Runs(p, "masking") /\ UNCHANGED lock
  /\ UNCHANGED <<files, cancelling, adding, restarts, watched>>

\* A bug the runs must detect: the last frame is left out.
LastFrameEarly(n) == n + 1 >= Frames - 1

LastFrame(n) == n + 1 = Frames

FilesOf(S, frames) == {ObjectOf[a] : a \in S} \X frames

\* What the writes of one frame come to: cv2.imwrite truncates the file and
\* answers False, which nobody looks at, when the mask cannot be written.
Written(good, bad) ==
  /\ masks' = (masks \ bad) \cup good
  /\ spoilt' = (spoilt \ good) \cup bad

Masks(p) ==
  /\ run[p].step = "masking"
  /\ LET frame == FilesOf(run[p].seeds, {run[p].frame})
     IN \E bad \in SUBSET frame : Written(frame \ bad, bad)
  /\ run' = [run EXCEPT ![p].frame = @ + 1,
                        ![p].step = IF LastFrame(run[p].frame)
                                    THEN "opening" ELSE "checking"]
  /\ UNCHANGED <<session, seedFile, checkpoint, lock, cancelling, adding,
                 restarts, watched>>

\* Some files of the frame p is at, written or spoilt.
PartlyMasked(p) ==
  LET frame == FilesOf(run[p].seeds, {run[p].frame})
  IN \E good \in SUBSET frame : \E bad \in SUBSET (frame \ good) : Written(good, bad)

\* (a box or a size that makes no mask)
MaskingRaises(p) ==
  /\ run[p].step = "masking"
  /\ PartlyMasked(p)
  /\ Runs(p, "done")
  /\ lock' = Nobody
  /\ UNCHANGED <<session, seedFile, checkpoint, cancelling, adding, restarts,
                 watched>>

OpensCheckpoint(p) ==
  /\ run[p].step = "opening"
  /\ checkpoint' = File("torn", {})
  /\ Runs(p, "filling")
  /\ UNCHANGED <<session, seedFile, pngs, lock, cancelling, adding, restarts,
                 watched>>

WritesCheckpoint(p) ==
  /\ run[p].step = "filling"
  /\ checkpoint' = File("whole", run[p].seeds)
  /\ Runs(p, "done")
  /\ lock' = Nobody
  /\ UNCHANGED <<session, seedFile, pngs, cancelling, adding, restarts, watched>>

\* (the disk is full: the file stays truncated)
CheckpointUnwritten(p) ==
  /\ run[p].step = "filling"
  /\ Runs(p, "done")
  /\ lock' = Nobody
  /\ UNCHANGED <<files, cancelling, adding, restarts, watched>>

\* cancel, whether or not anything is active.
CancelsVideo ==
  /\ session
  /\ cancelling' = TRUE
  /\ notified' = notified \cup {p \in Propagations :
                        run[p].step \in {"starting", "checking", "masking"}}
  /\ UNCHANGED <<files, lock, adding, run, restarts, kept, disturbed>>

\* The process dies, half way through a frame it may be.
VideoCrash ==
  /\ restarts < MaxRestarts
  /\ \/ UNCHANGED pngs
     \/ \E p \in Propagations : run[p].step = "masking" /\ PartlyMasked(p)
  /\ restarts' = restarts + 1
  /\ lock' = Nobody
  /\ cancelling' = FALSE
  /\ adding' = [a \in Seeds |-> IF adding[a].step = "idle" THEN adding[a]
                                ELSE [AtRest EXCEPT !.step = "done"]]
  /\ run' = [p \in Propagations |-> IF run[p].step = "idle" THEN run[p]
                                    ELSE [AtRest EXCEPT !.step = "done"]]
  /\ disturbed' = TRUE
  /\ notified' = {}
  /\ UNCHANGED <<session, seedFile, checkpoint, kept>>

-----------------------------------------------------------------------------
VideoInit ==
  /\ session = FALSE
  /\ seedFile = File("absent", {})
  /\ masks = {}
  /\ spoilt = {}
  /\ checkpoint = File("absent", {})
  /\ lock = Nobody
  /\ cancelling = FALSE
  /\ adding = [a \in Seeds |-> AtRest]
  /\ run = [p \in Propagations |-> AtRest]
  /\ restarts = 0
  /\ kept = {}
  /\ disturbed = FALSE
  /\ notified = {}

VideoNext ==
  \/ CreatesSession
  \/ \E a \in Seeds : ReadsSeeds(a) \/ OpensSeeds(a) \/ WritesSeeds(a)
                         \/ SeedsUnwritten(a)
  \/ \E p \in Propagations :
       \/ Locks(p)
       \/ Clears(p)
       \/ Starts(p)
       \/ Checks(p)
       \/ Masks(p)
       \/ MaskingRaises(p)
       \/ OpensCheckpoint(p)
       \/ WritesCheckpoint(p)
       \/ CheckpointUnwritten(p)
  \/ CancelsVideo
  \/ VideoCrash

VideoSpec == VideoInit /\ [][VideoNext]_videoVars

-----------------------------------------------------------------------------
SeedFiles == [state : {"absent", "torn", "whole"}, seeds : SUBSET Seeds]

VideoTypeOK ==
  /\ session \in BOOLEAN
  /\ seedFile \in SeedFiles
  /\ masks \subseteq Objects \X (0 .. Frames - 1)
  /\ spoilt \subseteq Objects \X (0 .. Frames - 1)
  /\ checkpoint \in SeedFiles
  /\ lock \in Propagations \cup {Nobody}
  /\ cancelling \in BOOLEAN
  /\ adding \in [Seeds -> [step : {"idle", "read", "opened", "done"},
                           frame : {0}, seeds : SUBSET Seeds]]
  /\ run \in [Propagations -> [step : RunSteps \cup {"idle", "done"},
                               frame : 0 .. Frames, seeds : SUBSET Seeds]]
  /\ restarts \in 0 .. MaxRestarts
  /\ kept \subseteq Seeds
  /\ disturbed \in BOOLEAN
  /\ notified \subseteq Propagations

(***************************************************************************)
(* A checkpoint that can be read lists no mask nobody came to: each has    *)
(* been written, for every seed and frame, whatever was cancelled, raised, *)
(* crashed or propagated since, or its last write failed without anybody   *)
(* noticing (cv2.imwrite's answer is not looked at) or was cut short over  *)
(* an older mask.                                                          *)
(***************************************************************************)
CheckpointHasMasks ==
  checkpoint.state = "whole" =>
    FilesOf(checkpoint.seeds, 0 .. Frames - 1) \subseteq masks \cup spoilt

(***************************************************************************)
(* Seeds that were answered for stay, unless two requests wrote them at    *)
(* once (the later write forgets the other's) or the process died writing. *)
(***************************************************************************)
SeedsKept ==
  ~disturbed /\ seedFile.state = "whole" => kept \subseteq seedFile.seeds

(***************************************************************************)
(* A propagation that was active when the cancel was answered computes no  *)
(* further frame, even if another propagation is asked for in between and  *)
(* refused; but for one that had the lock and had not cleared the flag yet.*)
(***************************************************************************)
ToldStops ==
  [][\A p \in notified : ~(run[p].step = "checking" /\ run'[p].step = "masking")]_videoVars
=============================================================================
