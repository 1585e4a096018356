---------------------------- MODULE DreamTraining ----------------------------
(***************************************************************************)
(* The offline ("dream") training run: clare2/scripts/dream-train.sh beside *)
(* the policy service it calls, stops, wakes and calls back.  The trainer  *)
(* of a dream is a container of its own (docker compose run), authorized   *)
(* by its environment and told to make no callback; the nightly trainer    *)
(* container of PolicyLifecycle exists next to it.                         *)
(*                                                                         *)
(* Wherever the script gives up (an answer 409 or none, a time limit, no   *)
(* adapter found) it exits and calls nothing any more.                     *)
(***************************************************************************)
EXTENDS PolicyLifecycle

\* Everything but the script.
policy ==
  <<core, inflight, trainer, mail, look, clients, serving, spent, enabled>>

DreamGoes(s) == dream' = [dream EXCEPT !.at = s]

-----------------------------------------------------------------------------
\* start_dream_training: the record is not reset, so the outcome, candidate
\* and batch results of an earlier run stay in it.
DreamStarts ==
  /\ dream.at = "off"
  /\ serving = "up" /\ Free /\ enabled
  /\ rec.phase \in {"idle", "failed"}
  /\ \E r \in Runs \ spent :
       /\ rec' = [rec EXCEPT !.phase = "training", !.run = r]
       /\ spent' = spent \cup {r}
       /\ dream' = [NoDream EXCEPT !.at = "asked", !.run = r]
  /\ job' = Take("dream", "enter")
  /\ UNCHANGED <<reg, maint, vllm, inflight, trainer, mail, look, clients,
                 serving, enabled>>

DreamEnters ==
  /\ At("dream", "enter")
  /\ maint' = TRUE
  /\ Leave
  /\ DreamGoes("stop")
  /\ UNCHANGED <<rec, reg, vllm, inflight, trainer, mail, look, clients,
                 serving, spent, enabled>>

\* docker compose stop: the policy process and vLLM, drained or not.
DreamStopsServices ==
  /\ dream.at = "stop"
  /\ ProcessGone
  /\ vllm' = "stopped"
  /\ DreamGoes("asleep")
  /\ UNCHANGED <<trainer, enabled>>

DreamLaunches ==
  /\ dream.at = "asleep"
  /\ DreamGoes("train")
  /\ UNCHANGED policy

\* The trainer leaves the adapters it trained, or breaks off.
DreamTrains ==
  /\ dream.at = "train"
  /\ \E A \in SUBSET (Adapters \ spent), b \in BOOLEAN :
       /\ dream' = [dream EXCEPT !.at = "wake", !.todo = A, !.broken = b]
       /\ spent' = spent \cup A
  /\ UNCHANGED <<core, inflight, trainer, mail, look, clients, serving,
                 enabled>>

\* docker compose up -d of the services stopped; the policy Restarts.
DreamWakes ==
  /\ dream.at = "wake"
  /\ vllm' = Started
  /\ DreamGoes("report")
  /\ UNCHANGED <<rec, reg, job, maint, inflight, trainer, mail, look, clients,
                 serving, spent, enabled>>

DreamReportsFailure ==
  /\ dream.at = "report" /\ dream.broken /\ serving = "up"
  /\ Accept([kind |-> "failed", run |-> dream.run, adapters |-> {}])
  /\ dream' = NoDream
  /\ UNCHANGED <<core, inflight, trainer, look, clients, serving,
                 spent, enabled>>

\* One callback per adapter, each after the outcome of the one before.
DreamPosts ==
  /\ dream.at = "report" /\ ~dream.broken /\ serving = "up"
  /\ \E a \in dream.todo :
       /\ Accept([kind |-> "done", run |-> dream.run, adapters |-> {a}])
       /\ dream' = [dream EXCEPT !.at = "await", !.cand = a, !.todo = @ \ {a}]
  /\ UNCHANGED <<core, inflight, trainer, look, clients, serving,
                 spent, enabled>>

DreamSeesOutcome ==
  /\ dream.at = "await" /\ serving = "up"
  /\ rec.cand = dream.cand /\ rec.phase \in {"idle", "failed"}
  /\ DreamGoes("report")
  /\ UNCHANGED policy

\* The summary is written, no adapter was trained, or patience is over.
DreamEnds ==
  /\ \/ dream.at = "asked" /\ job.kind # "dream"
     \/ dream.at = "report" /\ ~dream.broken /\ dream.todo = {}
     \/ dream.at \in {"report", "await"} /\ Fails("post")
  /\ dream' = NoDream
  /\ UNCHANGED policy

-----------------------------------------------------------------------------
Script ==
  \/ DreamStarts \/ DreamEnters \/ DreamStopsServices \/ DreamLaunches
  \/ DreamTrains \/ DreamWakes \/ DreamReportsFailure \/ DreamPosts
  \/ DreamSeesOutcome \/ DreamEnds

DreamNext == Next \/ Script

DreamSpec == Init /\ [][DreamNext]_vars
=============================================================================
