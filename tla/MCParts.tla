------------------------------- MODULE MCParts -------------------------------
(***************************************************************************)
(* Five parts of the system, one at a time: an image edit (ImageWorker), a *)
(* video session (VideoSessions), the start of the image worker            *)
(* (WorkerLoad), the nights of the trainer (TrainingNights), the           *)
(* replacement of the base model (BaseUpgrade).  They share no state, so a *)
(* behaviour of their sum is a behaviour of one of them while the others   *)
(* stay where they begin.                                                  *)
(***************************************************************************)
EXTENDS ImageWorker, VideoSessions, WorkerLoad, TrainingNights, BaseUpgrade,
        TLC

CONSTANTS c1, c2, i1, i2, s1, s2, o1, o2

VARIABLE part

\* Two retries of one id, by different operations, and an id of its own.
MCMayAsk ==
  (c1 :> {<<i1, "edit">>}) @@ (c2 :> {<<i1, "inpaint">>, <<i2, "inpaint">>})

\* Two seeds of two objects.
MCObjectOf == (s1 :> o1) @@ (s2 :> o2)

\* At most one content of a corpus cannot be trained on.
MCInit ==
  /\ part \in {"edit", "video", "load", "night", "base"}
  /\ ImageInit
  /\ VideoInit
  /\ LoadInit
  /\ NightInit
  /\ BaseInit
  /\ IF part = "night" THEN unfit \in {{}, {<<1, 1>>}, {<<2, 2>>}}
     ELSE unfit = {} /\ corpus = [p \in Projects |-> 0]

EditNext ==
  /\ part = "edit"
  /\ ImageNext
  /\ UNCHANGED <<videoVars, loadVars, nightVars, baseVars>>

SessionNext ==
  /\ part = "video"
  /\ VideoNext
  /\ UNCHANGED <<imageVars, loadVars, nightVars, baseVars>>

StartNext ==
  /\ part = "load"
  /\ LoadNext
  /\ UNCHANGED <<imageVars, videoVars, nightVars, baseVars>>

TrainerNext ==
  /\ part = "night"
  /\ NightNext
  /\ UNCHANGED <<imageVars, videoVars, loadVars, baseVars>>

UpgradeNext ==
  /\ part = "base"
  /\ BaseNext
  /\ UNCHANGED <<imageVars, videoVars, loadVars, nightVars>>

MCNext ==
  /\ EditNext \/ SessionNext \/ StartNext \/ TrainerNext \/ UpgradeNext
  /\ UNCHANGED part

\* No call is begun in another part, so ImageFairness asks nothing there; the
\* load and the nights have to be told.
MCSpec ==
  /\ MCInit
  /\ [][MCNext]_<<imageVars, videoVars, loadVars, nightVars, baseVars, part>>
  /\ ImageFairness
  /\ WF_loadVars(part = "load" /\ LoadGoesOn)
  /\ WF_nightVars(part = "night" /\ NightGoesOn)

PartsTypeOK ==
  ImageTypeOK /\ VideoTypeOK /\ LoadTypeOK /\ NightTypeOK /\ BaseTypeOK

(***************************************************************************)
(* The worker comes up, with a model or with the word that memory is short,*)
(* however often it dies: Docker restarts the container, and a load that   *)
(* goes on ends.  Only a cache whose save was cut short, which no start    *)
(* repairs, keeps it down for good.                                        *)
(***************************************************************************)
ComesUp ==
  []<>(part = "load" => process = "serving" \/ cache = "partial")
=============================================================================
