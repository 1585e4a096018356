---------------------------- MODULE CorpusPipeline ----------------------------
(***************************************************************************)
(* From captured sessions to the corpus a trainer reads: corpus_sync.py,   *)
(* distiller.py, corpus.py and the reading of the corpus in train.py, for  *)
(* one project.  The active themes do not change within these behaviours.  *)
(*                                                                         *)
(* The jobs are threads of clare2-policy: the scheduler's (main.py:108-120)*)
(* and those an operator triggers.  Nothing excludes them from each other, *)
(* their files are rewritten in place, each may raise and the process may  *)
(* die anywhere.  A night assembles and then trains; a dream run           *)
(* (dream-train.sh) is a script that asks for an assembly, waits a while,  *)
(* stops the policy, whatever that is doing, and trains on what is there.  *)
(*                                                                         *)
(* A session stands for its file and for the patterns it yields; sessions  *)
(* are numbered by their dates, one a day.  A torn line is skipped by every*)
(* reader of JSONL, so a line is either there or not.                      *)
(***************************************************************************)
EXTENDS Naturals, FiniteSets

CONSTANTS
  Sessions,     \* captured on some workstation
  Jobs,         \* threads that may run together
  Window,       \* RECENT_EPISODE_WINDOW_DAYS
  MaxCrashes    \* bound on the restarts of the process

ASSUME CorpusConstantsOK ==
  /\ Sessions \subseteq Nat
  /\ IsFiniteSet(Sessions)
  /\ Window \in Nat \ {0}
  /\ MaxCrashes \in Nat

VARIABLES
  local,       \* sessions whose file is under CORPUS_ROOT
  episodes,    \* how often the patterns of a session are in the store (2: twice or more)
  index,       \* session_index.json: a set of sessions, or torn
  current,     \* training/<project>/current.jsonl
  job,         \* where each thread stands
  barren,      \* history: sessions some run found nothing acceptable in
  troubles,    \* history: "overlap" of two jobs, "crash" over one, or it raised
  cut,         \* history: dream runs during which a job of the policy was cut off
  crashes      \* restarts so far

stores == <<local, episodes, index, current>>
history == <<barren, troubles, cut, crashes>>
vars == <<stores, job, history>>

Torn == [torn |-> TRUE, sessions |-> {}]
Indexed(S) == [torn |-> FALSE, sessions |-> S]

Absent == [state |-> "absent", sessions |-> {}]
Partial == [state |-> "partial", sessions |-> {}]

Kinds == {"full", "assemble", "night", "dream"}

Steps == {"idle", "syncing", "listing", "asking", "appending", "consulting",
          "truncating", "indexing", "collecting", "testing", "renaming",
          "opening", "filling", "hashing", "loading", "waiting", "stopping"}

\* The script of a dream run, and the trainer, are not threads of the policy.
Outside == {"idle", "hashing", "loading", "waiting", "stopping"}

AtWork(j) == job[j].step \notin Outside

Rest == [step |-> "idle", kind |-> "none", todo |-> {}, done |-> {},
         found |-> {}, seen |-> {}, pairs |-> Absent]

Goes(j, s) == job' = [job EXCEPT ![j].step = s]

Ends(j) == job' = [job EXCEPT ![j] = Rest]

Stored == {s \in Sessions : episodes[s] > 0}

\* A bug the runs must detect: the days are sorted the other way round.
RecentOldest(S) == {s \in S : Cardinality({t \in S : t < s}) < Window}

\* _recent_episode_paths: the newest Window days of the store.
Recent(S) == {s \in S : Cardinality({t \in S : t > s}) < Window}

-----------------------------------------------------------------------------
(***************************************************************************)
(* A job begins: 21:30 to 0:00 by the scheduler, any time by an operator.  *)
(***************************************************************************)
\* A bug the runs must detect: a kind of job nobody has steps for.
FirstStepOfNone(kind) == IF kind = "full" THEN "syncing" ELSE kind

FirstStep(kind) ==
  IF kind = "full" THEN "syncing" ELSE "collecting"

\* While a dream run trains, there is no policy.
PolicyStopped ==
  \E j \in Jobs : job[j].kind = "dream" /\ job[j].step \in {"hashing", "loading"}

OverlapOf(J) ==
  troubles' = IF \E k \in Jobs \ J : job[k].step # "idle"
              THEN troubles \cup {"overlap"} ELSE troubles

\* No night begins once a dream run was let in.
Starts(j, kind) ==
  /\ job[j].step = "idle"
  /\ ~PolicyStopped
  /\ kind # "dream"
  /\ kind = "night" => \A k \in Jobs : job[k].step # "stopping"
  /\ job' = [job EXCEPT ![j] = [Rest EXCEPT !.step = FirstStep(kind),
                                            !.kind = kind]]
  /\ OverlapOf({j})
  /\ cut' = cut \ {j}
  /\ UNCHANGED <<stores, barren, crashes>>

(***************************************************************************)
(* dream-train.sh.  The assembly runs in the background of the request     *)
(* that asks for it (main.py:375-378); the script waits some seconds.      *)
(***************************************************************************)
StartsDream(j, k) ==
  /\ j # k
  /\ job[j].step = "idle"
  /\ job[k].step = "idle"
  /\ ~PolicyStopped
  /\ job' = [job EXCEPT ![j] = [Rest EXCEPT !.step = "waiting", !.kind = "dream"],
                        ![k] = [Rest EXCEPT !.step = "collecting",
                                            !.kind = "assemble"]]
  /\ OverlapOf({j, k})
  /\ cut' = cut \ {j, k}
  /\ UNCHANGED <<stores, barren, crashes>>

\* start_dream_training lets it in, unless a night or another dream is under way
\* (or the gate or the network says no).
AsksToTrain(j) ==
  /\ job[j].step = "waiting"
  /\ \/ /\ \A k \in Jobs \ {j} :
             /\ job[k].kind # "night"
             /\ job[k].kind = "dream" => job[k].step = "waiting"
        /\ Goes(j, "stopping")
     \/ Ends(j)
  /\ UNCHANGED <<stores, history>>

CutOff(dreams) ==
  /\ troubles' = troubles \cup {"crash"}
  /\ cut' = cut \cup dreams

\* docker compose stop: what the policy was doing is cut off.
StopsPolicy(j) ==
  /\ job[j].step = "stopping"
  /\ job' = [k \in Jobs |->
               IF k = j THEN [job[j] EXCEPT !.step = "hashing"]
               ELSE IF AtWork(k) THEN Rest ELSE job[k]]
  /\ IF \E k \in Jobs : AtWork(k) THEN CutOff({j}) ELSE UNCHANGED <<troubles, cut>>
  /\ UNCHANGED <<stores, barren, crashes>>

\* sync_all: whatever host could be reached; rsync replaces a file as a whole.
Syncs(j) ==
  /\ job[j].step = "syncing"
  /\ \E S \in SUBSET (Sessions \ local) : local' = local \cup S
  /\ Goes(j, "listing")
  /\ UNCHANGED <<episodes, index, current, history>>

-----------------------------------------------------------------------------
(***************************************************************************)
(* _distill_project.                                                       *)
(***************************************************************************)
\* A bug the runs must detect: a torn index counts as one that has everything.
ProcessedKeysTorn == IF index.torn THEN Sessions ELSE index.sessions

\* _processed_session_keys: a torn index has no keys.
ProcessedKeys == index.sessions

Lists(j) ==
  /\ job[j].step = "listing"
  /\ job' = [job EXCEPT ![j].todo = local \ ProcessedKeys,
                        ![j].step = IF local \subseteq ProcessedKeys
                                    THEN "collecting" ELSE "asking"]
  /\ UNCHANGED <<stores, history>>

\* A bug the runs must detect: without the "continue", a session the model
\* failed on counts as processed.
UnansweredMarked(this, s) ==
  [this EXCEPT !.todo = @ \ {s}, !.done = @ \cup {s}]

\* _patterns_from_session: the call of the model fails, and the session is left
\* for another day; ...
Unanswered(this, s) == [this EXCEPT !.todo = @ \ {s}]

Oldest(j) == {s \in job[j].todo : \A t \in job[j].todo : s <= t}

AsksInVain(j) ==
  /\ job[j].step = "asking"
  /\ \E s \in Oldest(j) : job' = [job EXCEPT ![j] = Unanswered(@, s)]
  /\ UNCHANGED <<stores, history>>

\* ... or its patterns pass the recurrence gate, or nothing does (or the file is
\* empty, or the model's output cannot be repaired).
Asks(j) ==
  /\ job[j].step = "asking"
  /\ \E s \in Oldest(j) :
       LET answered == [job[j] EXCEPT !.todo = @ \ {s}, !.done = @ \cup {s}]
       IN \/ /\ job' = [job EXCEPT ![j] = [answered EXCEPT !.found = @ \cup {s}]]
             /\ UNCHANGED barren
          \/ /\ job' = [job EXCEPT ![j] = answered]
             /\ barren' = barren \cup {s}
  /\ UNCHANGED <<stores, troubles, cut, crashes>>

AsksNoMore(j) ==
  /\ job[j].step = "asking"
  /\ job[j].todo = {}
  /\ Goes(j, IF job[j].found = {} THEN "consulting" ELSE "appending")
  /\ UNCHANGED <<stores, history>>

\* _write_episode_patterns, session by session.
Appends(j) ==
  /\ job[j].step = "appending"
  /\ \E s \in job[j].found :
       /\ episodes' = [episodes EXCEPT ![s] = IF @ = 2 THEN 2 ELSE @ + 1]
       /\ job' = [job EXCEPT ![j].found = @ \ {s},
                             ![j].step = IF job[j].found = {s}
                                         THEN "consulting" ELSE "appending"]
  /\ UNCHANGED <<local, index, current, history>>

\* A bug the runs must detect: the index starts afresh every day.
ExistingKeysNone == {}

\* _update_session_index reads the index, torn or not, ...
ExistingKeys == index.sessions

Consults(j) ==
  /\ job[j].step = "consulting"
  /\ job' = [job EXCEPT ![j].step = "truncating", ![j].seen = ExistingKeys]
  /\ UNCHANGED <<stores, history>>

\* ... and rewrites it in place.
Truncates(j) ==
  /\ job[j].step = "truncating"
  /\ index' = Torn
  /\ Goes(j, "indexing")
  /\ UNCHANGED <<local, episodes, current, history>>

Indexes(j) ==
  /\ job[j].step = "indexing"
  /\ index' = Indexed(job[j].seen \cup job[j].done)
  /\ job' = [job EXCEPT ![j] = [Rest EXCEPT !.step = "collecting",
                                            !.kind = "assemble"]]
  /\ UNCHANGED <<local, episodes, current, history>>

-----------------------------------------------------------------------------
(***************************************************************************)
(* _assemble_project.                                                      *)
(***************************************************************************)
\* Themes and the recent episodes are read, ...
Collects(j) ==
  /\ job[j].step = "collecting"
  /\ job' = [job EXCEPT ![j].step = "testing",
                        ![j].pairs = [state |-> "whole",
                                      sessions |-> Recent(Stored)]]
  /\ UNCHANGED <<stores, history>>

\* ... the last corpus is made the day's snapshot, if there is one, ...
Tests(j) ==
  /\ job[j].step = "testing"
  /\ Goes(j, IF current.state = "absent" THEN "opening" ELSE "renaming")
  /\ UNCHANGED <<stores, history>>

\* (another job may have renamed it meanwhile: the job raises)
Renames(j) ==
  /\ job[j].step = "renaming"
  /\ current' = Absent
  /\ IF current.state = "absent" THEN Ends(j) ELSE Goes(j, "opening")
  /\ UNCHANGED <<local, episodes, index, history>>

\* ... and the new one is written in place.
Opens(j) ==
  /\ job[j].step = "opening"
  /\ current' = Partial
  /\ Goes(j, "filling")
  /\ UNCHANGED <<local, episodes, index, history>>

Fills(j) ==
  /\ job[j].step = "filling"
  /\ current' = job[j].pairs
  /\ IF job[j].kind = "night"
     THEN job' = [job EXCEPT ![j].step = "hashing", ![j].pairs = Absent]
     ELSE Ends(j)
  /\ UNCHANGED <<local, episodes, index, history>>

-----------------------------------------------------------------------------
(***************************************************************************)
(* The trainer hashes the corpus for its manifest, loads the model, and    *)
(* then reads the corpus it trains on: after a night's assembly, or        *)
(* whatever a dream run finds.                                             *)
(***************************************************************************)
Hashes(j) ==
  /\ job[j].step = "hashing"
  /\ IF current.state = "absent" THEN Ends(j)
     ELSE job' = [job EXCEPT ![j].step = "loading", ![j].pairs = current]
  /\ UNCHANGED <<stores, history>>

Loads(j) ==
  /\ job[j].step = "loading"
  /\ Ends(j)
  /\ UNCHANGED <<stores, history>>

-----------------------------------------------------------------------------
Dreaming == {j \in Jobs : job[j].step \in {"waiting", "stopping"}}

\* A job raises (no space, a file it may not read) and leaves its files as they
\* are; the scheduler, or the request it ran behind, logs that.
Raises(j) ==
  /\ AtWork(j)
  /\ Ends(j)
  /\ CutOff(Dreaming)
  /\ UNCHANGED <<stores, barren, crashes>>

\* The process dies, and every job with it.
Crash ==
  /\ crashes < MaxCrashes
  /\ \E j \in Jobs : AtWork(j)
  /\ crashes' = crashes + 1
  /\ CutOff(Dreaming)
  /\ job' = [j \in Jobs |-> IF AtWork(j) THEN Rest ELSE job[j]]
  /\ UNCHANGED <<stores, barren>>

-----------------------------------------------------------------------------
Init ==
  /\ local = {}
  /\ episodes = [s \in Sessions |-> 0]
  /\ index = Indexed({})
  /\ current = Absent
  /\ job = [j \in Jobs |-> Rest]
  /\ barren = {}
  /\ troubles = {}
  /\ cut = {}
  /\ crashes = 0

Distils(j) ==
  \/ Syncs(j)
  \/ Lists(j)
  \/ AsksInVain(j)
  \/ Asks(j)
  \/ AsksNoMore(j)
  \/ Appends(j)
  \/ Consults(j)
  \/ Truncates(j)
  \/ Indexes(j)

Assembles(j) ==
  \/ Collects(j)
  \/ Tests(j)
  \/ Renames(j)
  \/ Opens(j)
  \/ Fills(j)

Trains(j) ==
  \/ Hashes(j)
  \/ Loads(j)

Dreams(j) ==
  \/ AsksToTrain(j)
  \/ StopsPolicy(j)

Works(j) == Distils(j) \/ Assembles(j) \/ Trains(j)

Next ==
  \/ \E j \in Jobs, kind \in Kinds : Starts(j, kind)
  \/ \E j, k \in Jobs : StartsDream(j, k)
  \/ \E j \in Jobs : Works(j) \/ Dreams(j) \/ Raises(j)
  \/ Crash

Spec == Init /\ [][Next]_vars

-----------------------------------------------------------------------------
Corpora == [state : {"absent", "partial", "whole"}, sessions : SUBSET Sessions]

TypeOK ==
  /\ local \subseteq Sessions
  /\ episodes \in [Sessions -> 0 .. 2]
  /\ index \in [torn : BOOLEAN, sessions : SUBSET Sessions]
  /\ current \in Corpora
  /\ job \in [Jobs -> [step : Steps, kind : Kinds \cup {"none"},
                       todo : SUBSET Sessions, done : SUBSET Sessions,
                       found : SUBSET Sessions, seen : SUBSET Sessions,
                       pairs : Corpora]]
  /\ barren \subseteq Sessions
  /\ troubles \subseteq {"overlap", "crash"}
  /\ cut \subseteq Jobs
  /\ crashes \in 0 .. MaxCrashes

(***************************************************************************)
(* A session that the next distillation will skip has its patterns in the  *)
(* store, or had none: whatever jobs overlap, wherever the process dies,   *)
(* however torn the index and however many calls of the model fail, none   *)
(* is lost.  ("missed syncs, restarts, and local-time offsets are repaired *)
(* by catching up every unprocessed session")                              *)
(***************************************************************************)
SkippedIsWritten == \A s \in ProcessedKeys : episodes[s] > 0 \/ s \in barren

(***************************************************************************)
(* Undisturbed, a session's patterns are stored once.  A crash between     *)
(* append and index, a torn index or two jobs at once store them again:    *)
(* of those the property says nothing.                                     *)
(***************************************************************************)
StoredOnce == troubles = {} => \A s \in Sessions : episodes[s] <= 1

(***************************************************************************)
(* What the trainer loads is what it recorded the hash of, although it     *)
(* opens the file again much later: at night unless another job ran        *)
(* beside, in a dream run in any case, for then no job is left.  And that  *)
(* is a whole corpus, with the newest Window days of the store and no day  *)
(* newer than one of them left out, whatever an earlier crash left half    *)
(* written, unless jobs overlapped.  One exception is the dream run's: it  *)
(* trains on half a corpus, or an old one, when the assembly it asked for  *)
(* raised, died, or was not over when it stopped the policy.               *)
(***************************************************************************)
WholeAndRecent ==
  /\ current.state = "whole"
  /\ current.sessions \subseteq Stored
  /\ \A s \in Stored \ current.sessions :
       /\ Cardinality(current.sessions) = Window
       /\ \A t \in current.sessions : s < t

TrainedAsRecorded ==
  \A j \in Jobs : job[j].step = "loading" =>
    /\ job[j].kind = "dream" \/ "overlap" \notin troubles => current = job[j].pairs
    /\ "overlap" \notin troubles /\ j \notin cut => WholeAndRecent
=============================================================================
