----------------------------- MODULE CorpusProofs -----------------------------
(***************************************************************************)
(* Safety of CorpusPipeline for any captured sessions, any number of jobs  *)
(* that overlap and any number of crashes.                                 *)
(***************************************************************************)
EXTENDS CorpusPipeline, FiniteSetTheorems, WellFoundedInduction, TLAPS

JobRecords ==
  [step : Steps, kind : Kinds \cup {"none"}, todo : SUBSET Sessions,
   done : SUBSET Sessions, found : SUBSET Sessions, seen : SUBSET Sessions,
   pairs : Corpora]

LEMMA RestType == Rest \in JobRecords
BY DEF Rest, JobRecords, Steps, Kinds, Corpora, Absent

LEMMA AbsentType == Absent \in Corpora /\ Partial \in Corpora
BY DEF Absent, Partial, Corpora

LEMMA InitType == Init => TypeOK
<1> SUFFICES ASSUME Init PROVE TypeOK
  OBVIOUS
<1>1. job \in [Jobs -> JobRecords]
  BY RestType DEF Init
<1> QED
  BY <1>1, AbsentType, CorpusConstantsOK DEF Init, TypeOK, Indexed, JobRecords

\* What is in a job's record when it moves on, rests or begins.
LEMMA GoesType ==
  ASSUME TypeOK, NEW j \in Jobs, NEW s \in Steps, Goes(j, s)
  PROVE  job' \in [Jobs -> JobRecords]
BY DEF TypeOK, Goes, JobRecords

\* A job's record is replaced as a whole.
LEMMA PutType ==
  ASSUME TypeOK, NEW j \in Jobs, NEW r \in JobRecords,
         job' = [job EXCEPT ![j] = r]
  PROVE  job' \in [Jobs -> JobRecords]
BY DEF TypeOK, JobRecords

LEMMA EndsType ==
  ASSUME TypeOK, NEW j \in Jobs, Ends(j)
  PROVE  job' \in [Jobs -> JobRecords]
BY RestType DEF TypeOK, Ends, JobRecords

LEMMA DistilsType ==
  ASSUME TypeOK, NEW j \in Jobs, Distils(j)
  PROVE  TypeOK'
<1> USE DEF stores, history
<1>0. /\ job \in [Jobs -> JobRecords]
      /\ {"listing", "collecting", "asking", "consulting", "appending",
          "truncating", "indexing"} \subseteq Steps
  BY DEF TypeOK, JobRecords, Steps
<1>1. CASE Syncs(j)
  <2>1. job' \in [Jobs -> JobRecords]
    BY <1>0, <1>1, GoesType DEF Syncs
  <2>2. local' \subseteq Sessions
    BY <1>1 DEF TypeOK, Syncs
  <2> QED
    BY <1>1, <2>1, <2>2 DEF TypeOK, Syncs, JobRecords
<1>2. CASE Lists(j)
  <2>1. PICK s \in Steps :
          job' = [job EXCEPT ![j] =
                    [@ EXCEPT !.todo = local \ ProcessedKeys, !.step = s]]
    BY <1>0, <1>2 DEF Lists
  <2>2. [job[j] EXCEPT !.todo = local \ ProcessedKeys, !.step = s] \in JobRecords
    BY <1>0 DEF TypeOK, JobRecords
  <2>3. job' \in [Jobs -> JobRecords]
    BY <2>1, <2>2, PutType
  <2> QED
    BY <1>2, <2>3 DEF TypeOK, Lists, JobRecords
<1>3. CASE AsksInVain(j)
  <2>1. job' \in [Jobs -> JobRecords]
    BY <1>0, <1>3 DEF TypeOK, AsksInVain, Unanswered, Oldest, JobRecords
  <2> QED
    BY <1>3, <2>1 DEF TypeOK, AsksInVain, JobRecords
<1>4. CASE Asks(j)
  <2>1. PICK s \in Oldest(j) :
          LET answered == [job[j] EXCEPT !.todo = @ \ {s}, !.done = @ \cup {s}]
          IN \/ /\ job' = [job EXCEPT ![j] = [answered EXCEPT !.found = @ \cup {s}]]
                /\ UNCHANGED barren
             \/ /\ job' = [job EXCEPT ![j] = answered]
                /\ barren' = barren \cup {s}
    BY <1>4 DEF Asks
  <2>2. s \in Sessions
    BY <1>0 DEF Oldest, JobRecords
  <2> DEFINE answered == [job[j] EXCEPT !.todo = @ \ {s}, !.done = @ \cup {s}]
  <2>5. answered \in JobRecords
    BY <1>0, <2>2 DEF JobRecords
  <2>6. [answered EXCEPT !.found = @ \cup {s}] \in JobRecords
    BY <2>2, <2>5 DEF JobRecords
  <2>3. job' \in [Jobs -> JobRecords]
    BY <2>1, <2>5, <2>6, PutType
  <2>4. barren' \subseteq Sessions
    BY <2>1, <2>2 DEF TypeOK
  <2> QED
    BY <1>4, <2>3, <2>4 DEF TypeOK, Asks, JobRecords
<1>5. CASE AsksNoMore(j)
  <2>1. job' \in [Jobs -> JobRecords]
    BY <1>0, <1>5, GoesType DEF AsksNoMore
  <2> QED
    BY <1>5, <2>1 DEF TypeOK, AsksNoMore, JobRecords
<1>6. CASE Appends(j)
  <2>4. PICK s \in job[j].found :
          /\ episodes' = [episodes EXCEPT ![s] = IF @ = 2 THEN 2 ELSE @ + 1]
          /\ job' = [job EXCEPT ![j].found = @ \ {s},
                                ![j].step = IF job[j].found = {s}
                                            THEN "consulting" ELSE "appending"]
    BY <1>6 DEF Appends
  <2> DEFINE t == IF job[j].found = {s} THEN "consulting" ELSE "appending"
             rest == job[j].found \ {s}
  <2>0. job' = [job EXCEPT ![j] = [job[j] EXCEPT !.found = rest, !.step = t]]
    BY <1>0, <2>4
  <2>5. t \in Steps
    BY <1>0
  <2>3. [job[j] EXCEPT !.found = rest, !.step = t] \in JobRecords
    <3>1. job[j] \in JobRecords
      BY <1>0
    <3>2. rest \in SUBSET Sessions
      BY <3>1 DEF JobRecords
    <3> HIDE DEF rest, t
    <3> QED
      BY <2>5, <3>1, <3>2 DEF JobRecords
  <2>1. job' \in [Jobs -> JobRecords]
    BY <2>0, <2>3, PutType
  <2>2. episodes' \in [Sessions -> 0 .. 2]
    BY <1>6 DEF TypeOK, Appends
  <2> QED
    BY <1>6, <2>1, <2>2 DEF TypeOK, Appends, JobRecords
<1>7. CASE Consults(j)
  <2>1. job' \in [Jobs -> JobRecords]
    <3>1. job' = [job EXCEPT ![j] = [@ EXCEPT !.step = "truncating",
                                              !.seen = index.sessions]]
      BY <1>0, <1>7 DEF Consults, ExistingKeys
    <3>2. [job[j] EXCEPT !.step = "truncating", !.seen = index.sessions]
            \in JobRecords
      BY <1>0 DEF TypeOK, JobRecords
    <3> QED
      BY <3>1, <3>2, PutType
  <2> QED
    BY <1>7, <2>1 DEF TypeOK, Consults, JobRecords
<1>8. CASE Truncates(j)
  <2>1. job' \in [Jobs -> JobRecords]
    BY <1>0, <1>8, GoesType DEF Truncates
  <2> QED
    BY <1>8, <2>1 DEF TypeOK, Truncates, Torn, JobRecords
<1>9. CASE Indexes(j)
  <2>1. job' \in [Jobs -> JobRecords]
    BY <1>0, <1>9, RestType DEF Indexes, JobRecords, Kinds
  <2>2. job[j].seen \cup job[j].done \subseteq Sessions
    BY <1>0 DEF JobRecords
  <2> QED
    BY <1>9, <2>1, <2>2 DEF TypeOK, Indexes, Indexed, JobRecords
<1> QED
  BY <1>1, <1>2, <1>3, <1>4, <1>5, <1>6, <1>7, <1>8, <1>9 DEF Distils

LEMMA AssemblesType ==
  ASSUME TypeOK, NEW j \in Jobs, Assembles(j) \/ Trains(j)
  PROVE  TypeOK'
<1> USE DEF stores, history
<1>0. /\ job \in [Jobs -> JobRecords]
      /\ {"testing", "renaming", "opening", "filling", "hashing", "loading"}
           \subseteq Steps
      /\ Recent(Stored) \subseteq Sessions
  BY DEF TypeOK, JobRecords, Steps, Recent, Stored
<1>1. CASE Collects(j)
  <2>1. job' \in [Jobs -> JobRecords]
    <3> DEFINE whole == [state |-> "whole", sessions |-> Recent(Stored)]
    <3>1. job' = [job EXCEPT ![j] = [@ EXCEPT !.step = "testing",
                                              !.pairs = whole]]
      BY <1>0, <1>1 DEF Collects
    <3>2. whole \in Corpora
      BY <1>0 DEF Corpora
    <3>3. [job[j] EXCEPT !.step = "testing", !.pairs = whole] \in JobRecords
      BY <1>0, <3>2 DEF JobRecords
    <3> QED
      BY <3>1, <3>3, PutType
  <2> QED
    BY <1>1, <2>1 DEF TypeOK, Collects, JobRecords
<1>2. CASE Tests(j)
  <2>1. job' \in [Jobs -> JobRecords]
    BY <1>0, <1>2, GoesType DEF Tests
  <2> QED
    BY <1>2, <2>1 DEF TypeOK, Tests, JobRecords
<1>3. CASE Renames(j)
  <2>1. job' \in [Jobs -> JobRecords]
    BY <1>0, <1>3, GoesType, EndsType DEF Renames
  <2> QED
    BY <1>3, <2>1, AbsentType DEF TypeOK, Renames, JobRecords
<1>4. CASE Opens(j)
  <2>1. job' \in [Jobs -> JobRecords]
    BY <1>0, <1>4, GoesType DEF Opens
  <2> QED
    BY <1>4, <2>1, AbsentType DEF TypeOK, Opens, JobRecords
<1>5. CASE Fills(j)
  <2>1. job' \in [Jobs -> JobRecords]
    <3>1. CASE job[j].kind = "night"
      BY <1>0, <1>5, <3>1, AbsentType DEF Fills, JobRecords
    <3>2. CASE job[j].kind # "night"
      BY <1>5, <3>2, EndsType DEF Fills
    <3> QED
      BY <3>1, <3>2
  <2>2. current' \in Corpora
    BY <1>0, <1>5 DEF Fills, JobRecords
  <2> QED
    BY <1>5, <2>1, <2>2 DEF TypeOK, Fills, JobRecords
<1>6. CASE Hashes(j)
  <2>1. job' \in [Jobs -> JobRecords]
    <3>1. CASE current.state = "absent"
      BY <1>6, <3>1, EndsType DEF Hashes
    <3>2. CASE current.state # "absent"
      BY <1>0, <1>6, <3>2 DEF Hashes, JobRecords, TypeOK
    <3> QED
      BY <3>1, <3>2
  <2> QED
    BY <1>6, <2>1 DEF TypeOK, Hashes, JobRecords
<1>7. CASE Loads(j)
  <2>1. job' \in [Jobs -> JobRecords]
    BY <1>7, EndsType DEF Loads
  <2> QED
    BY <1>7, <2>1 DEF TypeOK, Loads, JobRecords
<1> QED
  BY <1>1, <1>2, <1>3, <1>4, <1>5, <1>6, <1>7 DEF Assembles, Trains

\* What is around the jobs' own work: they begin and end, or a script moves on.
Around ==
  \/ \E j \in Jobs, kind \in Kinds : Starts(j, kind)
  \/ \E j, k \in Jobs : StartsDream(j, k)
  \/ \E j \in Jobs : Dreams(j) \/ Raises(j)
  \/ Crash

\* What begins, and what ends or is cut off, without a job's own work.
LEMMA AroundType ==
  ASSUME TypeOK,
         Around
  PROVE  TypeOK'
<1> USE DEF stores, history
<1>0. job \in [Jobs -> JobRecords]
  BY DEF TypeOK, JobRecords
<1>1. ASSUME NEW j \in Jobs, NEW kind \in Kinds, Starts(j, kind)
      PROVE  TypeOK'
  <2>1. FirstStep(kind) \in Steps
    BY DEF FirstStep, Steps
  <2>2. job' \in [Jobs -> JobRecords]
    BY <1>0, <1>1, <2>1, RestType DEF Starts, JobRecords
  <2>3. troubles' \subseteq {"overlap", "crash"} /\ cut' \subseteq Jobs
    BY <1>1 DEF TypeOK, Starts, OverlapOf
  <2> QED
    BY <1>1, <2>2, <2>3 DEF TypeOK, Starts, JobRecords
<1>2. ASSUME NEW j \in Jobs, NEW k \in Jobs, StartsDream(j, k)
      PROVE  TypeOK'
  <2> DEFINE script == [Rest EXCEPT !.step = "waiting", !.kind = "dream"]
             assembly == [Rest EXCEPT !.step = "collecting", !.kind = "assemble"]
  <2>1. script \in JobRecords /\ assembly \in JobRecords
    BY RestType DEF JobRecords, Steps, Kinds
  <2>2. job' = [job EXCEPT ![j] = script, ![k] = assembly]
    BY <1>2 DEF StartsDream
  <2> HIDE DEF script, assembly
  <2>3. job' \in [Jobs -> JobRecords]
    BY <1>0, <2>1, <2>2
  <2>4. troubles' \subseteq {"overlap", "crash"} /\ cut' \subseteq Jobs
    BY <1>2 DEF TypeOK, StartsDream, OverlapOf
  <2> QED
    BY <1>2, <2>3, <2>4 DEF TypeOK, StartsDream, JobRecords
<1>3. ASSUME NEW j \in Jobs, AsksToTrain(j)
      PROVE  TypeOK'
  <2>1. job' \in [Jobs -> JobRecords]
    <3>1. "stopping" \in Steps
      BY DEF Steps
    <3> QED
      BY <1>3, <3>1, GoesType, EndsType DEF AsksToTrain
  <2> QED
    BY <1>3, <2>1 DEF TypeOK, AsksToTrain, JobRecords
<1>4. ASSUME NEW j \in Jobs, StopsPolicy(j)
      PROVE  TypeOK'
  <2>1. [job[j] EXCEPT !.step = "hashing"] \in JobRecords
    BY <1>0 DEF JobRecords, Steps
  <2>2. job' \in [Jobs -> JobRecords]
    BY <1>0, <1>4, <2>1, RestType DEF StopsPolicy
  <2>3. troubles' \subseteq {"overlap", "crash"} /\ cut' \subseteq Jobs
    BY <1>4 DEF TypeOK, StopsPolicy, CutOff
  <2> QED
    BY <1>4, <2>2, <2>3 DEF TypeOK, StopsPolicy, JobRecords
<1>5. ASSUME NEW j \in Jobs, Raises(j)
      PROVE  TypeOK'
  <2>1. job' \in [Jobs -> JobRecords]
    BY <1>5, EndsType DEF Raises
  <2>2. troubles' \subseteq {"overlap", "crash"} /\ cut' \subseteq Jobs
    BY <1>5 DEF TypeOK, Raises, CutOff, Dreaming
  <2> QED
    BY <1>5, <2>1, <2>2 DEF TypeOK, Raises, JobRecords
<1>6. CASE Crash
  <2>1. job' \in [Jobs -> JobRecords]
    BY <1>0, <1>6, RestType DEF Crash
  <2>2. troubles' \subseteq {"overlap", "crash"} /\ cut' \subseteq Jobs
    BY <1>6 DEF TypeOK, Crash, CutOff, Dreaming
  <2>3. crashes' \in 0 .. MaxCrashes
    BY <1>6, CorpusConstantsOK DEF TypeOK, Crash
  <2> QED
    BY <1>6, <2>1, <2>2, <2>3 DEF TypeOK, Crash, JobRecords
<1> QED
  BY <1>1, <1>2, <1>3, <1>4, <1>5, <1>6 DEF Around, Dreams

LEMMA NextType ==
  ASSUME TypeOK, [Next]_vars
  PROVE  TypeOK'
<1>1. ASSUME NEW j \in Jobs, Works(j)
      PROVE  TypeOK'
  BY <1>1, DistilsType, AssemblesType DEF Works
<1>2. CASE UNCHANGED vars
  BY <1>2 DEF TypeOK, vars, stores, history
<1> QED
  BY <1>1, <1>2, AroundType DEF Next, Around

(***************************************************************************)
(* Every reachable state has the shapes the code writes.                   *)
(***************************************************************************)
THEOREM CorpusTypeCorrect == Spec => []TypeOK
<1>1. TypeOK /\ [Next]_vars => TypeOK'
  BY NextType
<1> QED
  BY <1>1, InitType, PTL DEF Spec

-----------------------------------------------------------------------------
(***************************************************************************)
(* Nothing is skipped that was not written.  What a job will put into the  *)
(* index is in the store, had nothing to store, or is about to be appended;*)
(* and nothing is about to be appended once the index is read again.       *)
(***************************************************************************)
Kept == Stored \cup barren

Honest(j) ==
  /\ job[j].done \subseteq job[j].found \cup Kept
  /\ job[j].seen \subseteq Kept
  /\ job[j].step \in {"consulting", "truncating", "indexing"} => job[j].found = {}

SkipInv ==
  /\ TypeOK
  /\ index.sessions \subseteq Kept
  /\ \A j \in Jobs : Honest(j)

LEMMA SkipInit == Init => SkipInv
<1> SUFFICES ASSUME Init PROVE SkipInv
  OBVIOUS
<1>1. \A j \in Jobs : Honest(j)
  BY DEF Init, Honest, Rest
<1> QED
  BY <1>1, InitType DEF Init, SkipInv, Indexed

LEMMA SkipImplies == SkipInv => SkippedIsWritten
BY DEF SkipInv, SkippedIsWritten, ProcessedKeys, Kept, Stored

\* A job that only moves on, or rests, stays honest, and so do the others.
LEMMA HonestStep ==
  ASSUME SkipInv, NEW j \in Jobs,
         Kept \subseteq Kept',
         \A k \in Jobs \ {j} : job'[k] = job[k],
         \/ job'[j] = Rest
         \/ /\ job'[j].done = job[j].done
            /\ job'[j].found = job[j].found
            /\ job'[j].seen = job[j].seen
            /\ job'[j].step \in {"consulting", "truncating", "indexing"}
               => job[j].found = {}
  PROVE  \A k \in Jobs : Honest(k)'
<1>1. ASSUME NEW k \in Jobs, k # j PROVE Honest(k)'
  BY <1>1 DEF SkipInv, Honest
<1>2. Honest(j)'
  BY DEF SkipInv, Honest, Rest
<1> QED
  BY <1>1, <1>2

\* What a job's move leaves as it was.
LEMMA GoesOthers ==
  ASSUME TypeOK, NEW j \in Jobs, NEW s, Goes(j, s)
  PROVE  /\ \A k \in Jobs \ {j} : job'[k] = job[k]
         /\ job'[j] = [job[j] EXCEPT !.step = s]
         /\ job'[j].done = job[j].done
         /\ job'[j].found = job[j].found
         /\ job'[j].seen = job[j].seen
         /\ job'[j].step = s
BY DEF TypeOK, Goes

LEMMA EndsOthers ==
  ASSUME TypeOK, NEW j \in Jobs, Ends(j)
  PROVE  /\ \A k \in Jobs \ {j} : job'[k] = job[k]
         /\ job'[j] = Rest
BY DEF TypeOK, Ends

LEMMA KeptSame ==
  ASSUME UNCHANGED <<episodes, barren>>
  PROVE  Kept' = Kept /\ Stored' = Stored
BY DEF Kept, Stored

\* A job that only goes on to another step, with the store and the index as they
\* were.
LEMMA SkipGoes ==
  ASSUME SkipInv, NEW j \in Jobs, NEW s,
         Goes(j, s) \/ Ends(j),
         s \in {"consulting", "truncating", "indexing"} => job[j].found = {},
         Kept \subseteq Kept', index'.sessions \subseteq index.sessions
  PROVE  index'.sessions \subseteq Kept' /\ \A k \in Jobs : Honest(k)'
<1>1. CASE Goes(j, s)
  BY <1>1, GoesOthers, HonestStep DEF SkipInv
<1>2. CASE Ends(j)
  BY <1>2, EndsOthers, HonestStep DEF SkipInv
<1> QED
  BY <1>1, <1>2 DEF SkipInv

LEMMA SkipDistils ==
  ASSUME SkipInv, NEW j \in Jobs, Distils(j)
  PROVE  index'.sessions \subseteq Kept' /\ \A k \in Jobs : Honest(k)'
<1> USE DEF stores, history
<1>0. TypeOK /\ job \in [Jobs -> JobRecords] /\ Honest(j)
      /\ index.sessions \subseteq Kept
  BY DEF SkipInv, TypeOK, JobRecords
<1>1. CASE Syncs(j)
  BY <1>1, KeptSame, SkipGoes DEF Syncs
<1>2. CASE Lists(j)
  <2>1. /\ \A k \in Jobs \ {j} : job'[k] = job[k]
        /\ job'[j].done = job[j].done
        /\ job'[j].found = job[j].found
        /\ job'[j].seen = job[j].seen
        /\ job'[j].step \in {"collecting", "asking"}
    BY <1>0, <1>2 DEF Lists, JobRecords
  <2>2. Kept' = Kept
    BY <1>2, KeptSame DEF Lists
  <2> QED
    BY <1>0, <1>2, <2>1, <2>2, HonestStep DEF Lists
<1>3. CASE AsksInVain(j)
  <2>1. PICK s \in Oldest(j) : job' = [job EXCEPT ![j] = Unanswered(@, s)]
    BY <1>3 DEF AsksInVain
  <2>2. /\ \A k \in Jobs \ {j} : job'[k] = job[k]
        /\ job'[j] = Unanswered(job[j], s)
    BY <1>0, <2>1
  <2>3. /\ job'[j].done = job[j].done
        /\ job'[j].found = job[j].found
        /\ job'[j].seen = job[j].seen
        /\ job'[j].step = "asking"
    BY <1>0, <1>3, <2>2 DEF Unanswered, JobRecords, AsksInVain
  <2>4. Kept' = Kept
    BY <1>3, KeptSame DEF AsksInVain
  <2> QED
    BY <1>0, <1>3, <2>2, <2>3, <2>4, HonestStep DEF AsksInVain
<1>4. CASE Asks(j)
  <2>1. PICK s \in Oldest(j) :
          LET answered == [job[j] EXCEPT !.todo = @ \ {s}, !.done = @ \cup {s}]
          IN \/ /\ job' = [job EXCEPT ![j] = [answered EXCEPT !.found = @ \cup {s}]]
                /\ UNCHANGED barren
             \/ /\ job' = [job EXCEPT ![j] = answered]
                /\ barren' = barren \cup {s}
    BY <1>4 DEF Asks
  <2>2. \A k \in Jobs \ {j} : job'[k] = job[k]
    BY <1>0, <2>1
  <2>3. /\ job'[j].done = job[j].done \cup {s}
        /\ job'[j].seen = job[j].seen
        /\ job'[j].step = "asking"
        /\ \/ job'[j].found = job[j].found \cup {s} /\ barren' = barren
           \/ job'[j].found = job[j].found /\ barren' = barren \cup {s}
    <3> DEFINE answered == [job[j] EXCEPT !.todo = @ \ {s}, !.done = @ \cup {s}]
    <3>1. /\ answered.done = job[j].done \cup {s}
          /\ answered.found = job[j].found
          /\ answered.seen = job[j].seen
          /\ answered.step = "asking"
          /\ answered \in JobRecords
      <4>1. s \in Sessions
        BY <1>0 DEF Oldest, JobRecords
      <4> QED
        BY <1>0, <1>4, <4>1 DEF JobRecords, Asks
    <3>2. \/ job'[j] = [answered EXCEPT !.found = @ \cup {s}] /\ barren' = barren
          \/ job'[j] = answered /\ barren' = barren \cup {s}
      BY <1>0, <2>1
    <3> HIDE DEF answered
    <3> QED
      BY <3>1, <3>2 DEF JobRecords
  <2>4. Kept \subseteq Kept' /\ Stored' = Stored
    BY <1>4, <2>3 DEF Asks, Kept, Stored
  <2>5. Honest(j)'
    BY <1>0, <2>3, <2>4 DEF Honest, Kept
  <2>6. ASSUME NEW k \in Jobs \ {j} PROVE Honest(k)'
    BY <2>2, <2>4, <2>6 DEF Honest, SkipInv
  <2> QED
    BY <1>0, <1>4, <2>4, <2>5, <2>6 DEF Asks
<1>5. CASE AsksNoMore(j)
  BY <1>5, KeptSame, SkipGoes DEF AsksNoMore
<1>6. CASE Appends(j)
  <2>1. PICK s \in job[j].found :
          /\ episodes' = [episodes EXCEPT ![s] = IF @ = 2 THEN 2 ELSE @ + 1]
          /\ job' = [job EXCEPT ![j].found = @ \ {s},
                                ![j].step = IF job[j].found = {s}
                                            THEN "consulting" ELSE "appending"]
    BY <1>6 DEF Appends
  <2>2. s \in Sessions
    BY <1>0 DEF JobRecords
  <2>3. Stored' = Stored \cup {s}
    BY <1>0, <2>1, <2>2 DEF Stored, TypeOK
  <2>4. Kept' = Kept \cup {s}
    BY <1>6, <2>3 DEF Kept, Appends
  <2>5. /\ \A k \in Jobs \ {j} : job'[k] = job[k]
        /\ job'[j].found = job[j].found \ {s}
        /\ job'[j].done = job[j].done
        /\ job'[j].seen = job[j].seen
        /\ job'[j].step = IF job[j].found = {s} THEN "consulting" ELSE "appending"
    BY <1>0, <2>1 DEF JobRecords
  <2>6. Honest(j)'
    BY <1>0, <2>4, <2>5 DEF Honest
  <2>7. ASSUME NEW k \in Jobs \ {j} PROVE Honest(k)'
    BY <2>4, <2>5 DEF Honest, SkipInv
  <2> QED
    BY <1>0, <1>6, <2>4, <2>6, <2>7 DEF Appends
<1>7. CASE Consults(j)
  <2>1. /\ \A k \in Jobs \ {j} : job'[k] = job[k]
        /\ job'[j].found = job[j].found
        /\ job'[j].done = job[j].done
        /\ job'[j].seen = index.sessions
    BY <1>0, <1>7 DEF Consults, ExistingKeys, JobRecords
  <2>2. Kept' = Kept
    BY <1>7, KeptSame DEF Consults
  <2>3. Honest(j)'
    BY <1>0, <1>7, <2>1, <2>2 DEF Honest, Consults
  <2>4. ASSUME NEW k \in Jobs \ {j} PROVE Honest(k)'
    BY <2>1, <2>2 DEF Honest, SkipInv
  <2> QED
    BY <1>0, <1>7, <2>2, <2>3, <2>4 DEF Consults
<1>8. CASE Truncates(j)
  <2>1. job[j].found = {}
    BY <1>0, <1>8 DEF Honest, Truncates
  <2>2. Kept' = Kept
    BY <1>8, KeptSame DEF Truncates
  <2>3. index'.sessions = {}
    BY <1>8 DEF Truncates, Torn
  <2> QED
    BY <1>8, <2>1, <2>2, <2>3, SkipGoes DEF Truncates
<1>9. CASE Indexes(j)
  <2>1. job[j].found = {}
    BY <1>0, <1>9 DEF Honest, Indexes
  <2>2. Kept' = Kept
    BY <1>9, KeptSame DEF Indexes
  <2>3. index'.sessions = job[j].seen \cup job[j].done
    BY <1>9 DEF Indexes, Indexed
  <2>4. index'.sessions \subseteq Kept'
    BY <1>0, <2>1, <2>2, <2>3 DEF Honest
  <2>5. /\ \A k \in Jobs \ {j} : job'[k] = job[k]
        /\ job'[j].found = {}
        /\ job'[j].done = {}
        /\ job'[j].seen = {}
    BY <1>0, <1>9 DEF Indexes, Rest
  <2>6. Honest(j)'
    BY <2>5 DEF Honest
  <2>7. ASSUME NEW k \in Jobs \ {j} PROVE Honest(k)'
    BY <2>2, <2>5 DEF Honest, SkipInv
  <2> QED
    BY <2>4, <2>6, <2>7
<1> QED
  BY <1>1, <1>2, <1>3, <1>4, <1>5, <1>6, <1>7, <1>8, <1>9 DEF Distils

LEMMA SkipAssembles ==
  ASSUME SkipInv, NEW j \in Jobs, Assembles(j) \/ Trains(j)
  PROVE  index'.sessions \subseteq Kept' /\ \A k \in Jobs : Honest(k)'
<1> USE DEF stores, history
<1>0. TypeOK /\ job \in [Jobs -> JobRecords]
  BY DEF SkipInv, TypeOK, JobRecords
<1>1. Kept' = Kept /\ index' = index
  BY KeptSame DEF Assembles, Trains, Collects, Tests, Renames, Opens, Fills,
                  Hashes, Loads
<1>2. CASE Collects(j)
  <2>1. /\ \A k \in Jobs \ {j} : job'[k] = job[k]
        /\ job'[j].done = job[j].done
        /\ job'[j].found = job[j].found
        /\ job'[j].seen = job[j].seen
        /\ job'[j].step = "testing"
    BY <1>0, <1>2 DEF Collects, JobRecords
  <2> QED
    BY <1>1, <2>1, HonestStep DEF SkipInv
<1>3. CASE Tests(j)
  BY <1>1, <1>3, SkipGoes DEF Tests
<1>4. CASE Renames(j)
  BY <1>1, <1>4, SkipGoes DEF Renames
<1>5. CASE Opens(j)
  BY <1>1, <1>5, SkipGoes DEF Opens
<1>6. CASE Fills(j)
  <2>1. CASE job[j].kind = "night"
    <3>1. /\ \A k \in Jobs \ {j} : job'[k] = job[k]
          /\ job'[j].done = job[j].done
          /\ job'[j].found = job[j].found
          /\ job'[j].seen = job[j].seen
          /\ job'[j].step = "hashing"
      BY <1>0, <1>6, <2>1 DEF Fills, JobRecords
    <3> QED
      BY <1>1, <3>1, HonestStep DEF SkipInv
  <2>2. CASE job[j].kind # "night"
    BY <1>1, <1>6, <2>2, SkipGoes DEF Fills
  <2> QED
    BY <2>1, <2>2
<1>7. CASE Hashes(j)
  <2>1. CASE current.state = "absent"
    BY <1>1, <1>7, <2>1, SkipGoes DEF Hashes
  <2>2. CASE current.state # "absent"
    <3>1. /\ \A k \in Jobs \ {j} : job'[k] = job[k]
          /\ job'[j].done = job[j].done
          /\ job'[j].found = job[j].found
          /\ job'[j].seen = job[j].seen
          /\ job'[j].step = "loading"
      BY <1>0, <1>7, <2>2 DEF Hashes, JobRecords
    <3> QED
      BY <1>1, <3>1, HonestStep DEF SkipInv
  <2> QED
    BY <2>1, <2>2
<1>8. CASE Loads(j)
  BY <1>1, <1>8, SkipGoes DEF Loads
<1> QED
  BY <1>2, <1>3, <1>4, <1>5, <1>6, <1>7, <1>8 DEF Assembles, Trains

\* What is around the jobs' own work empties a job's record or keeps its memory.
LEMMA AroundShape ==
  ASSUME TypeOK,
         Around
  PROVE  /\ UNCHANGED <<stores, barren>>
         /\ \A k \in Jobs :
              \/ job'[k] = job[k]
              \/ /\ job'[k].done = {} /\ job'[k].found = {} /\ job'[k].seen = {}
                 /\ job'[k].step \in {"idle", "syncing", "collecting", "waiting"}
              \/ /\ job'[k].done = job[k].done
                 /\ job'[k].found = job[k].found
                 /\ job'[k].seen = job[k].seen
                 /\ job[k].step \in {"waiting", "stopping"}
                 /\ job'[k].step \in {"stopping", "hashing"}
<1> USE DEF history
<1>0. job \in [Jobs -> JobRecords]
  BY DEF TypeOK, JobRecords
<1>1. ASSUME NEW j \in Jobs, NEW kind \in Kinds, Starts(j, kind)
      PROVE  \A k \in Jobs :
               \/ job'[k] = job[k]
               \/ /\ job'[k].done = {} /\ job'[k].found = {} /\ job'[k].seen = {}
                  /\ job'[k].step \in {"idle", "syncing", "collecting", "waiting"}
  BY <1>0, <1>1 DEF Starts, Rest, FirstStep
<1>2. ASSUME NEW j \in Jobs, NEW k \in Jobs, StartsDream(j, k)
      PROVE  \A l \in Jobs :
               \/ job'[l] = job[l]
               \/ /\ job'[l].done = {} /\ job'[l].found = {} /\ job'[l].seen = {}
                  /\ job'[l].step \in {"idle", "syncing", "collecting", "waiting"}
  <2>1. /\ \A l \in Jobs \ {j, k} : job'[l] = job[l]
        /\ job'[j] = [Rest EXCEPT !.step = "waiting", !.kind = "dream"]
        /\ job'[k] = [Rest EXCEPT !.step = "collecting", !.kind = "assemble"]
    BY <1>0, <1>2 DEF StartsDream
  <2>2. /\ job'[j].done = {} /\ job'[j].found = {} /\ job'[j].seen = {}
        /\ job'[j].step = "waiting"
    BY <2>1 DEF Rest
  <2>3. /\ job'[k].done = {} /\ job'[k].found = {} /\ job'[k].seen = {}
        /\ job'[k].step = "collecting"
    BY <2>1 DEF Rest
  <2> QED
    BY <2>1, <2>2, <2>3
<1>3. ASSUME NEW j \in Jobs, Dreams(j) \/ Raises(j)
      PROVE  \A k \in Jobs :
              \/ job'[k] = job[k]
              \/ job'[k] = Rest
              \/ /\ job'[k].done = job[k].done
                 /\ job'[k].found = job[k].found
                 /\ job'[k].seen = job[k].seen
                 /\ job[k].step \in {"waiting", "stopping"}
                 /\ job'[k].step \in {"stopping", "hashing"}
  <2>1. CASE StopsPolicy(j)
    <3>1. /\ job[j].step = "stopping"
          /\ job'[j] = [job[j] EXCEPT !.step = "hashing"]
          /\ \A k \in Jobs \ {j} : job'[k] = job[k] \/ job'[k] = Rest
      BY <2>1 DEF StopsPolicy
    <3>2. /\ job'[j].done = job[j].done /\ job'[j].found = job[j].found
          /\ job'[j].seen = job[j].seen /\ job'[j].step = "hashing"
      BY <1>0, <3>1 DEF JobRecords
    <3> QED
      BY <3>1, <3>2
  <2>2. CASE Goes(j, "stopping") /\ job[j].step = "waiting"
    <3>1. /\ \A k \in Jobs \ {j} : job'[k] = job[k]
          /\ job'[j].done = job[j].done /\ job'[j].found = job[j].found
          /\ job'[j].seen = job[j].seen /\ job'[j].step = "stopping"
      BY <2>2, GoesOthers
    <3> QED
      BY <2>2, <3>1
  <2>3. CASE Ends(j)
    BY <2>3, EndsOthers
  <2> QED
    <3>1. \/ StopsPolicy(j) \/ Ends(j)
          \/ Goes(j, "stopping") /\ job[j].step = "waiting"
      BY <1>3 DEF Dreams, AsksToTrain, Raises
    <3> QED
      BY <2>1, <2>2, <2>3, <3>1
<1>4. ASSUME Crash
      PROVE  \A k \in Jobs : job'[k] = job[k] \/ job'[k] = Rest
  BY <1>4 DEF Crash
<1>5. UNCHANGED <<stores, barren>>
  <2>1. (\E j \in Jobs : Dreams(j) \/ Raises(j)) => UNCHANGED <<stores, barren>>
    BY DEF Dreams, AsksToTrain, StopsPolicy, Raises
  <2>2. (\E j \in Jobs, kind \in Kinds : Starts(j, kind)) => UNCHANGED <<stores, barren>>
    BY DEF Starts
  <2>3. (\E j, k \in Jobs : StartsDream(j, k)) => UNCHANGED <<stores, barren>>
    BY DEF StartsDream
  <2>4. Crash => UNCHANGED <<stores, barren>>
    BY DEF Crash
  <2> QED
    BY <2>1, <2>2, <2>3, <2>4 DEF Around
<1>6. /\ Rest.done = {} /\ Rest.found = {} /\ Rest.seen = {}
      /\ Rest.step \in {"idle", "syncing", "collecting", "waiting"}
  BY DEF Rest
<1>7. CASE \E j \in Jobs : Dreams(j) \/ Raises(j)
  BY <1>3, <1>5, <1>6, <1>7
<1>8. CASE Crash
  BY <1>4, <1>5, <1>6, <1>8
<1> QED
  BY <1>1, <1>2, <1>5, <1>7, <1>8 DEF Around

LEMMA SkipNext ==
  ASSUME SkipInv, [Next]_vars
  PROVE  SkipInv'
<1>0. TypeOK' /\ TypeOK /\ index.sessions \subseteq Kept
  BY NextType DEF SkipInv
<1>1. ASSUME Around
      PROVE  SkipInv'
  <2>1. Kept' = Kept /\ index' = index
    BY <1>0, <1>1, AroundShape, KeptSame DEF stores
  <2>2. ASSUME NEW k \in Jobs PROVE Honest(k)'
    BY <1>0, <1>1, <2>1, AroundShape DEF Honest, SkipInv
  <2> QED
    BY <1>0, <2>1, <2>2 DEF SkipInv
<1>2. ASSUME NEW j \in Jobs, Works(j)
      PROVE  SkipInv'
  BY <1>0, <1>2, SkipDistils, SkipAssembles DEF Works, SkipInv
<1>4. CASE UNCHANGED vars
  <2>1. Kept' = Kept /\ index' = index /\ job' = job
    BY <1>4, KeptSame DEF vars, stores, history
  <2> QED
    BY <1>0, <2>1 DEF SkipInv, Honest
<1> QED
  BY <1>1, <1>2, <1>4 DEF Next, Around

(***************************************************************************)
(* No session is lost: what the next distillation skips is in the store or *)
(* had nothing to store.                                                   *)
(***************************************************************************)
THEOREM SkippedTheorem == Spec => []SkippedIsWritten
<1>1. SkipInv /\ [Next]_vars => SkipInv'
  BY SkipNext
<1> QED
  BY <1>1, SkipInit, SkipImplies, PTL DEF Spec

-----------------------------------------------------------------------------
(***************************************************************************)
(* Nothing is stored twice while no two jobs overlap and none is cut off:  *)
(* what is stored is in the index, or in what the one job at work will put *)
(* there, and that job asks about other sessions only.                     *)
(***************************************************************************)
Writing == {"asking", "appending", "consulting", "truncating", "indexing"}

Tidy(j) ==
  /\ job[j].step \notin Writing =>
       job[j].done = {} /\ job[j].found = {} /\ job[j].seen = {}
  /\ job[j].step \in {"asking", "appending", "consulting"} => job[j].seen = {}
  /\ job[j].step = "asking" =>
       job[j].todo \cap (index.sessions \cup job[j].done) = {}
  /\ job[j].step \in {"asking", "appending"} =>
       job[j].done \cap index.sessions = {} /\ job[j].found \subseteq job[j].done
  /\ job[j].step \in {"consulting", "truncating", "indexing"} => job[j].found = {}
  /\ job[j].step = "truncating" => index.sessions \subseteq job[j].seen
  /\ job[j].step = "indexing" => index.sessions = {}

WillIndex(j) == job[j].seen \cup (job[j].done \ job[j].found)

Orderly ==
  /\ \A j, k \in Jobs : AtWork(j) /\ AtWork(k) => j = k
  /\ \A s \in Sessions : episodes[s] <= 1
  /\ \A s \in Stored : s \in index.sessions \/ \E j \in Jobs : s \in WillIndex(j)
  /\ \A j \in Jobs : Tidy(j)

OnceInv == TypeOK /\ (troubles = {} => Orderly)

LEMMA OnceInit == Init => OnceInv
<1> SUFFICES ASSUME Init PROVE OnceInv
  OBVIOUS
<1>1. TypeOK
  BY InitType
<1>2. Stored = {} /\ \A s \in Sessions : episodes[s] <= 1
  BY DEF Init, Stored
<1>3. \A j \in Jobs : job[j].step = "idle" /\ Tidy(j)
  BY DEF Init, Rest, Tidy, Writing
<1> QED
  BY <1>1, <1>2, <1>3 DEF OnceInv, Orderly, AtWork, Outside

LEMMA OnceImplies == OnceInv => StoredOnce
BY DEF OnceInv, Orderly, StoredOnce

LEMMA WritesAtWork ==
  ASSUME NEW j \in Jobs, job[j].step \in Writing
  PROVE  AtWork(j)
BY DEF Writing, AtWork, Outside

\* While one job is at work the others have nothing.
LEMMA Sole ==
  ASSUME OnceInv, troubles = {}, NEW j \in Jobs, AtWork(j)
  PROVE  /\ \A k \in Jobs \ {j} : /\ ~AtWork(k)
                                  /\ job[k].step \notin Writing
                                  /\ WillIndex(k) = {}
         /\ \A s \in Stored : s \in index.sessions \/ s \in WillIndex(j)
<1>1. \A k \in Jobs \ {j} : ~AtWork(k) /\ job[k].step \notin Writing /\ Tidy(k)
  BY WritesAtWork DEF OnceInv, Orderly
<1>2. \A k \in Jobs \ {j} : WillIndex(k) = {}
  BY <1>1 DEF Tidy, Writing, WillIndex
<1> QED
  BY <1>1, <1>2 DEF OnceInv, Orderly

\* The work of one job is judged by that job alone.
LEMMA OnceStep ==
  ASSUME OnceInv, TypeOK', troubles' = {} => troubles = {},
         NEW j \in Jobs, AtWork(j),
         \A k \in Jobs \ {j} : job'[k] = job[k],
         troubles = {} =>
           /\ \A s \in Sessions : episodes'[s] <= 1
           /\ \A s \in Stored' : s \in index'.sessions \/ s \in WillIndex(j)'
           /\ Tidy(j)'
  PROVE  OnceInv'
<1> SUFFICES ASSUME troubles' = {} PROVE Orderly'
  BY DEF OnceInv
<1>1. troubles = {}
  OBVIOUS
<1>2. \A k \in Jobs \ {j} : ~AtWork(k)'
  BY <1>1, Sole DEF AtWork
<1>3. \A k \in Jobs \ {j} : Tidy(k)'
  <2> TAKE k \in Jobs \ {j}
  <2>1. job[k].step \notin Writing /\ Tidy(k)
    BY <1>1, Sole DEF OnceInv, Orderly
  <2> QED
    BY <2>1 DEF Tidy, Writing
<1> QED
  BY <1>1, <1>2, <1>3 DEF Orderly

\* Nor do steps matter by which jobs that write nothing move on, if none comes
\* to work.
LEMMA OnceAside ==
  ASSUME OnceInv, TypeOK', troubles' = {} => troubles = {},
         UNCHANGED <<episodes, index>>,
         \A k \in Jobs :
           \/ job'[k] = job[k]
           \/ /\ job[k].step \notin Writing /\ job'[k].step \notin Writing
              /\ AtWork(k)' => AtWork(k)
              /\ job'[k].done \in {{}, job[k].done}
              /\ job'[k].found \in {{}, job[k].found}
              /\ job'[k].seen \in {{}, job[k].seen}
  PROVE  OnceInv'
<1> SUFFICES ASSUME troubles' = {} PROVE Orderly'
  BY DEF OnceInv
<1>1. Orderly /\ Stored' = Stored
  BY DEF OnceInv, Stored
<1>2. ASSUME NEW k \in Jobs
      PROVE  Tidy(k)' /\ (AtWork(k)' => AtWork(k)) /\ WillIndex(k)' = WillIndex(k)
  <2>1. Tidy(k)
    BY <1>1 DEF Orderly
  <2>2. CASE job'[k] = job[k]
    BY <2>1, <2>2 DEF Tidy, AtWork, WillIndex
  <2>3. CASE /\ job[k].step \notin Writing /\ job'[k].step \notin Writing
             /\ AtWork(k)' => AtWork(k)
             /\ job'[k].done \in {{}, job[k].done}
             /\ job'[k].found \in {{}, job[k].found}
             /\ job'[k].seen \in {{}, job[k].seen}
    <3>1. job[k].done = {} /\ job[k].found = {} /\ job[k].seen = {}
      BY <2>1, <2>3 DEF Tidy
    <3>2. job'[k].done = {} /\ job'[k].found = {} /\ job'[k].seen = {}
      BY <2>3, <3>1
    <3> QED
      BY <2>3, <3>1, <3>2 DEF Tidy, Writing, WillIndex
  <2> QED
    BY <2>2, <2>3
<1> QED
  BY <1>1, <1>2 DEF Orderly

\* Steps that touch neither the store nor the index nor what a job remembers.
LEMMA OnceGoes ==
  ASSUME OnceInv, TypeOK', NEW j \in Jobs, AtWork(j),
         UNCHANGED <<episodes, index, troubles>>,
         \A k \in Jobs \ {j} : job'[k] = job[k],
         \/ job'[j] = Rest /\ job[j].step \notin Writing
         \/ /\ job'[j].done = job[j].done
            /\ job'[j].found = job[j].found
            /\ job'[j].seen = job[j].seen
            /\ \/ job'[j].step = job[j].step /\ job'[j].todo \subseteq job[j].todo
               \/ job'[j].step \notin Writing /\ job[j].step \notin Writing
               \/ job[j].step = "asking" /\ job'[j].step = "appending"
               \/ /\ job[j].step = "asking" /\ job'[j].step = "consulting"
                  /\ job[j].found = {}
  PROVE  OnceInv'
<1> SUFFICES ASSUME troubles = {}
             PROVE  /\ \A s \in Sessions : episodes'[s] <= 1
                    /\ \A s \in Stored' : s \in index'.sessions \/ s \in WillIndex(j)'
                    /\ Tidy(j)'
  BY OnceStep
<1>1. Tidy(j) /\ \A s \in Sessions : episodes[s] <= 1
  BY DEF OnceInv, Orderly
<1>2. \A s \in Stored : s \in index.sessions \/ s \in WillIndex(j)
  BY Sole
<1>3. Stored' = Stored
  BY DEF Stored
<1>4. WillIndex(j)' = WillIndex(j)
  <2>1. CASE job'[j] = Rest /\ job[j].step \notin Writing
    BY <1>1, <2>1 DEF WillIndex, Tidy, Rest
  <2> QED
    BY <2>1 DEF WillIndex
<1>5. Tidy(j)'
  <2>1. CASE job'[j] = Rest
    BY <2>1 DEF Tidy, Rest, Writing
  <2>2. CASE job'[j].step = job[j].step /\ job'[j].todo \subseteq job[j].todo
             /\ UNCHANGED <<job[j].done, job[j].found, job[j].seen>>
    BY <1>1, <2>2 DEF Tidy, Writing
  <2>3. CASE job'[j].step \notin Writing /\ job[j].step \notin Writing
             /\ UNCHANGED <<job[j].done, job[j].found, job[j].seen>>
    BY <1>1, <2>3 DEF Tidy, Writing
  <2>4. CASE job[j].step = "asking" /\ job'[j].step = "appending"
             /\ UNCHANGED <<job[j].done, job[j].found, job[j].seen>>
    BY <1>1, <2>4 DEF Tidy, Writing
  <2>5. CASE job[j].step = "asking" /\ job'[j].step = "consulting"
             /\ job[j].found = {}
             /\ UNCHANGED <<job[j].done, job[j].found, job[j].seen>>
    BY <1>1, <2>5 DEF Tidy, Writing
  <2> QED
    BY <2>1, <2>2, <2>3, <2>4, <2>5
<1> QED
  BY <1>1, <1>2, <1>3, <1>4, <1>5

LEMMA OnceDistils ==
  ASSUME OnceInv, TypeOK', NEW j \in Jobs, Distils(j)
  PROVE  OnceInv'
<1> USE DEF stores, history
<1>0. TypeOK /\ job \in [Jobs -> JobRecords]
  BY DEF OnceInv, TypeOK, JobRecords
<1>10. AtWork(j)
  BY DEF Distils, Syncs, Lists, AsksInVain, Asks, AsksNoMore, Appends, Consults,
         Truncates, Indexes, AtWork, Outside
<1> USE <1>10
<1>1. CASE Syncs(j)
  <2>1. Goes(j, "listing") /\ job[j].step = "syncing"
        /\ UNCHANGED <<episodes, index, troubles>>
    BY <1>1 DEF Syncs
  <2>2. /\ \A k \in Jobs \ {j} : job'[k] = job[k]
        /\ job'[j].done = job[j].done
        /\ job'[j].found = job[j].found
        /\ job'[j].seen = job[j].seen
        /\ job'[j].step = "listing"
    BY <1>0, <2>1, GoesOthers
  <2>3. job'[j].step \notin Writing /\ job[j].step \notin Writing
    BY <2>1, <2>2 DEF Writing
  <2> QED
    BY <2>1, <2>2, <2>3, OnceGoes
<1>2. CASE Lists(j)
  <2>1. /\ \A k \in Jobs \ {j} : job'[k] = job[k]
        /\ job'[j].done = job[j].done
        /\ job'[j].found = job[j].found
        /\ job'[j].seen = job[j].seen
        /\ job'[j].todo = local \ index.sessions
        /\ job'[j].step \in {"collecting", "asking"}
    BY <1>0, <1>2 DEF Lists, ProcessedKeys, JobRecords
  <2> SUFFICES ASSUME troubles = {}
               PROVE  /\ \A s \in Sessions : episodes'[s] <= 1
                      /\ \A s \in Stored' :
                           s \in index'.sessions \/ s \in WillIndex(j)'
                      /\ Tidy(j)'
    BY <1>2, <2>1, OnceStep DEF Lists
  <2>2. Tidy(j) /\ \A s \in Sessions : episodes[s] <= 1
    BY DEF OnceInv, Orderly
  <2>3. \A s \in Stored : s \in index.sessions \/ s \in WillIndex(j)
    BY <1>2, Sole DEF Lists
  <2>4. Stored' = Stored /\ index' = index /\ WillIndex(j)' = WillIndex(j)
    BY <1>2, <2>1 DEF Lists, Stored, WillIndex
  <2>5. Tidy(j)'
    BY <1>2, <2>1, <2>2, <2>4 DEF Lists, Tidy, Writing
  <2> QED
    BY <1>2, <2>2, <2>3, <2>4, <2>5 DEF Lists
<1>3. CASE AsksInVain(j)
  <2>1. PICK s \in Oldest(j) : job' = [job EXCEPT ![j] = Unanswered(@, s)]
    BY <1>3 DEF AsksInVain
  <2>2. /\ \A k \in Jobs \ {j} : job'[k] = job[k]
        /\ job'[j] = Unanswered(job[j], s)
    BY <1>0, <2>1
  <2>3. /\ job'[j].done = job[j].done
        /\ job'[j].found = job[j].found
        /\ job'[j].seen = job[j].seen
        /\ job'[j].todo \subseteq job[j].todo
        /\ job'[j].step = job[j].step
    BY <1>0, <2>2 DEF Unanswered, JobRecords
  <2> QED
    BY <1>3, <2>2, <2>3, OnceGoes DEF AsksInVain
<1>4. CASE Asks(j)
  <2>1. PICK s \in Oldest(j) :
          LET answered == [job[j] EXCEPT !.todo = @ \ {s}, !.done = @ \cup {s}]
          IN \/ /\ job' = [job EXCEPT ![j] = [answered EXCEPT !.found = @ \cup {s}]]
                /\ UNCHANGED barren
             \/ /\ job' = [job EXCEPT ![j] = answered]
                /\ barren' = barren \cup {s}
    BY <1>4 DEF Asks
  <2>2. s \in job[j].todo /\ \A k \in Jobs \ {j} : job'[k] = job[k]
    BY <1>0, <2>1 DEF Oldest
  <2>3. /\ job'[j].done = job[j].done \cup {s}
        /\ job'[j].todo = job[j].todo \ {s}
        /\ job'[j].seen = job[j].seen
        /\ job'[j].step = "asking"
        /\ job'[j].found = job[j].found \/ job'[j].found = job[j].found \cup {s}
    <3> DEFINE answered == [job[j] EXCEPT !.todo = @ \ {s}, !.done = @ \cup {s}]
    <3>1. /\ answered.done = job[j].done \cup {s}
          /\ answered.todo = job[j].todo \ {s}
          /\ answered.found = job[j].found
          /\ answered.seen = job[j].seen
          /\ answered.step = "asking"
          /\ answered \in JobRecords
      <4>1. s \in Sessions
        BY <1>0, <2>2 DEF JobRecords
      <4> QED
        BY <1>0, <1>4, <4>1 DEF JobRecords, Asks
    <3>2. \/ job'[j] = [answered EXCEPT !.found = @ \cup {s}]
          \/ job'[j] = answered
      BY <1>0, <2>1
    <3> HIDE DEF answered
    <3> QED
      BY <3>1, <3>2 DEF JobRecords
  <2> SUFFICES ASSUME troubles = {}
               PROVE  /\ \A t \in Sessions : episodes'[t] <= 1
                      /\ \A t \in Stored' :
                           t \in index'.sessions \/ t \in WillIndex(j)'
                      /\ Tidy(j)'
    BY <1>4, <2>2, OnceStep DEF Asks
  <2>4. Tidy(j) /\ \A t \in Sessions : episodes[t] <= 1
    BY DEF OnceInv, Orderly
  <2>5. \A t \in Stored : t \in index.sessions \/ t \in WillIndex(j)
    BY <1>4, Sole DEF Asks
  <2>6. Stored' = Stored /\ index' = index
    BY <1>4 DEF Asks, Stored
  <2>7. s \notin job[j].done /\ s \notin index.sessions
    BY <1>4, <2>2, <2>4 DEF Asks, Tidy
  <2>8. WillIndex(j) \subseteq WillIndex(j)'
    BY <2>3, <2>7 DEF WillIndex
  <2>9. Tidy(j)'
    BY <1>4, <2>3, <2>4, <2>6, <2>7 DEF Asks, Tidy, Writing
  <2> QED
    BY <1>4, <2>4, <2>5, <2>6, <2>8, <2>9 DEF Asks
<1>5. CASE AsksNoMore(j)
  BY <1>0, <1>5, GoesOthers, OnceGoes DEF AsksNoMore, Writing
<1>6. CASE Appends(j)
  <2>1. PICK s \in job[j].found :
          /\ episodes' = [episodes EXCEPT ![s] = IF @ = 2 THEN 2 ELSE @ + 1]
          /\ job' = [job EXCEPT ![j].found = @ \ {s},
                                ![j].step = IF job[j].found = {s}
                                            THEN "consulting" ELSE "appending"]
    BY <1>6 DEF Appends
  <2>2. s \in Sessions
    BY <1>0 DEF JobRecords
  <2>3. /\ \A k \in Jobs \ {j} : job'[k] = job[k]
        /\ job'[j].found = job[j].found \ {s}
        /\ job'[j].done = job[j].done
        /\ job'[j].seen = job[j].seen
        /\ job'[j].step = IF job[j].found = {s} THEN "consulting" ELSE "appending"
    BY <1>0, <2>1 DEF JobRecords
  <2> SUFFICES ASSUME troubles = {}
               PROVE  /\ \A t \in Sessions : episodes'[t] <= 1
                      /\ \A t \in Stored' :
                           t \in index'.sessions \/ t \in WillIndex(j)'
                      /\ Tidy(j)'
    BY <1>6, <2>3, OnceStep DEF Appends
  <2>4. Tidy(j) /\ \A t \in Sessions : episodes[t] <= 1
    BY DEF OnceInv, Orderly
  <2>5. \A t \in Stored : t \in index.sessions \/ t \in WillIndex(j)
    BY <1>6, Sole DEF Appends
  <2>6. s \notin Stored /\ s \in job[j].done
    BY <1>6, <2>4, <2>5 DEF Appends, Tidy, WillIndex
  <2>7. episodes[s] = 0
    BY <1>0, <2>2, <2>6 DEF Stored, TypeOK
  <2>8. /\ \A t \in Sessions : episodes'[t] <= 1
        /\ Stored' = Stored \cup {s}
    <3>1. episodes' \in [Sessions -> 0 .. 2]
      BY DEF TypeOK
    <3>2. episodes'[s] = 1 /\ \A t \in Sessions \ {s} : episodes'[t] = episodes[t]
      <4>1. episodes \in [Sessions -> 0 .. 2]
        BY <1>0 DEF TypeOK
      <4> QED
        BY <2>1, <2>2, <2>7, <4>1
    <3> QED
      BY <2>2, <2>4, <3>2 DEF Stored
  <2>9. WillIndex(j) \cup {s} \subseteq WillIndex(j)'
    BY <2>3, <2>6 DEF WillIndex
  <2>10. Tidy(j)'
    BY <1>6, <2>3, <2>4 DEF Appends, Tidy, Writing
  <2> QED
    BY <1>6, <2>5, <2>8, <2>9, <2>10 DEF Appends
<1>7. CASE Consults(j)
  <2>1. /\ \A k \in Jobs \ {j} : job'[k] = job[k]
        /\ job'[j].found = job[j].found
        /\ job'[j].done = job[j].done
        /\ job'[j].seen = index.sessions
        /\ job'[j].step = "truncating"
    BY <1>0, <1>7 DEF Consults, ExistingKeys, JobRecords
  <2> SUFFICES ASSUME troubles = {}
               PROVE  /\ \A t \in Sessions : episodes'[t] <= 1
                      /\ \A t \in Stored' :
                           t \in index'.sessions \/ t \in WillIndex(j)'
                      /\ Tidy(j)'
    BY <1>7, <2>1, OnceStep DEF Consults
  <2>2. Tidy(j) /\ \A t \in Sessions : episodes[t] <= 1
    BY DEF OnceInv, Orderly
  <2>3. \A t \in Stored : t \in index.sessions \/ t \in WillIndex(j)
    BY <1>7, Sole DEF Consults
  <2>4. Stored' = Stored /\ index' = index
    BY <1>7 DEF Consults, Stored
  <2>5. \A t \in Stored : t \in index.sessions \/ t \in WillIndex(j)'
    BY <1>7, <2>1, <2>2, <2>3 DEF Consults, Tidy, WillIndex
  <2>6. Tidy(j)'
    BY <1>7, <2>1, <2>2, <2>4 DEF Consults, Tidy, Writing
  <2> QED
    BY <1>7, <2>2, <2>4, <2>5, <2>6 DEF Consults
<1>8. CASE Truncates(j)
  <2>1. /\ \A k \in Jobs \ {j} : job'[k] = job[k]
        /\ job'[j].found = job[j].found
        /\ job'[j].done = job[j].done
        /\ job'[j].seen = job[j].seen
        /\ job'[j].step = "indexing"
    BY <1>0, <1>8, GoesOthers DEF Truncates
  <2> SUFFICES ASSUME troubles = {}
               PROVE  /\ \A t \in Sessions : episodes'[t] <= 1
                      /\ \A t \in Stored' :
                           t \in index'.sessions \/ t \in WillIndex(j)'
                      /\ Tidy(j)'
    BY <1>8, <2>1, OnceStep DEF Truncates
  <2>2. Tidy(j) /\ \A t \in Sessions : episodes[t] <= 1
    BY DEF OnceInv, Orderly
  <2>3. \A t \in Stored : t \in index.sessions \/ t \in WillIndex(j)
    BY <1>8, Sole DEF Truncates
  <2>4. Stored' = Stored /\ index'.sessions = {}
    BY <1>8 DEF Truncates, Stored, Torn
  <2>5. \A t \in Stored : t \in WillIndex(j)'
    BY <1>8, <2>1, <2>2, <2>3 DEF Truncates, Tidy, WillIndex
  <2>6. Tidy(j)'
    BY <1>8, <2>1, <2>2, <2>4 DEF Truncates, Tidy, Writing
  <2> QED
    BY <1>8, <2>2, <2>4, <2>5, <2>6 DEF Truncates
<1>9. CASE Indexes(j)
  <2>1. /\ \A k \in Jobs \ {j} : job'[k] = job[k]
        /\ job'[j] = [Rest EXCEPT !.step = "collecting", !.kind = "assemble"]
    BY <1>0, <1>9 DEF Indexes
  <2> SUFFICES ASSUME troubles = {}
               PROVE  /\ \A t \in Sessions : episodes'[t] <= 1
                      /\ \A t \in Stored' :
                           t \in index'.sessions \/ t \in WillIndex(j)'
                      /\ Tidy(j)'
    BY <1>9, <2>1, OnceStep DEF Indexes
  <2>2. Tidy(j) /\ \A t \in Sessions : episodes[t] <= 1
    BY DEF OnceInv, Orderly
  <2>3. \A t \in Stored : t \in index.sessions \/ t \in WillIndex(j)
    BY <1>9, Sole DEF Indexes
  <2>4. Stored' = Stored /\ index'.sessions = job[j].seen \cup job[j].done
    BY <1>9 DEF Indexes, Stored, Indexed
  <2>5. \A t \in Stored : t \in index'.sessions
    BY <1>9, <2>2, <2>3, <2>4 DEF Indexes, Tidy, WillIndex
  <2>6. Tidy(j)'
    BY <2>1 DEF Tidy, Writing, Rest
  <2> QED
    BY <1>9, <2>2, <2>4, <2>5, <2>6 DEF Indexes
<1> QED
  BY <1>1, <1>2, <1>3, <1>4, <1>5, <1>6, <1>7, <1>8, <1>9 DEF Distils

LEMMA OnceAssembles ==
  ASSUME OnceInv, TypeOK', NEW j \in Jobs, Assembles(j) \/ Trains(j)
  PROVE  OnceInv'
<1> USE DEF stores, history
<1>0. TypeOK /\ job \in [Jobs -> JobRecords]
  BY DEF OnceInv, TypeOK, JobRecords
<1>1. /\ UNCHANGED <<episodes, index, troubles>>
      /\ job[j].step \notin Writing
  BY DEF Assembles, Trains, Collects, Tests, Renames, Opens, Fills, Hashes,
         Loads, Writing
<1>2. \A k \in Jobs \ {j} : job'[k] = job[k]
  BY <1>0 DEF Assembles, Trains, Collects, Tests, Renames, Opens, Fills, Hashes,
              Loads, Goes, Ends
<1>3. \/ job'[j] = Rest
      \/ /\ job'[j].done = job[j].done
         /\ job'[j].found = job[j].found
         /\ job'[j].seen = job[j].seen
         /\ job'[j].step \notin Writing
  <2>1. CASE Collects(j)
    BY <1>0, <2>1 DEF Collects, JobRecords, Writing
  <2>2. CASE Tests(j)
    <3>1. PICK s : Goes(j, s) /\ s \notin Writing
      BY <2>2 DEF Tests, Writing
    <3> QED
      BY <1>0, <3>1, GoesOthers
  <2>3. CASE Renames(j)
    <3>1. CASE Ends(j)
      BY <1>0, <3>1, EndsOthers
    <3>2. CASE Goes(j, "opening")
      <4>1. PICK s : Goes(j, s) /\ s \notin Writing
        BY <3>2 DEF Writing
      <4> QED
        BY <1>0, <4>1, GoesOthers
    <3> QED
      BY <2>3, <3>1, <3>2 DEF Renames
  <2>4. CASE Opens(j)
    <3>1. PICK s : Goes(j, s) /\ s \notin Writing
      BY <2>4 DEF Opens, Writing
    <3> QED
      BY <1>0, <3>1, GoesOthers
  <2>5. CASE Fills(j)
    BY <1>0, <2>5, EndsOthers DEF Fills, JobRecords, Writing
  <2>6. CASE Hashes(j)
    BY <1>0, <2>6, EndsOthers DEF Hashes, JobRecords, Writing
  <2>7. CASE Loads(j)
    BY <1>0, <2>7, EndsOthers DEF Loads
  <2> QED
    BY <2>1, <2>2, <2>3, <2>4, <2>5, <2>6, <2>7 DEF Assembles, Trains
<1>4. AtWork(j)' => AtWork(j)
  <2>1. CASE Assembles(j)
    BY <2>1 DEF Assembles, Collects, Tests, Renames, Opens, Fills, AtWork, Outside
  <2>2. CASE Trains(j)
    <3>1. job'[j].step \in {"idle", "loading"}
      BY <1>0, <2>2 DEF Trains, Hashes, Loads, Ends, Rest, JobRecords
    <3> QED
      BY <3>1 DEF AtWork, Outside
  <2> QED
    BY <2>1, <2>2
<1>5. Rest.done = {} /\ Rest.found = {} /\ Rest.seen = {} /\ Rest.step \notin Writing
  BY DEF Rest, Writing
<1> QED
  BY <1>1, <1>2, <1>3, <1>4, <1>5, OnceAside

\* A job begins beside none, or the behaviour is disturbed.
LEMMA OnceBegins ==
  ASSUME OnceInv, TypeOK', NEW J \in SUBSET Jobs, OverlapOf(J),
         UNCHANGED <<episodes, index>>,
         \A k \in J : job[k].step = "idle",
         \A k \in Jobs \ J : job'[k] = job[k],
         \A k \in J : /\ job'[k].done = {} /\ job'[k].found = {} /\ job'[k].seen = {}
                      /\ job'[k].step \notin Writing,
         \A k, l \in J : AtWork(k)' /\ AtWork(l)' => k = l
  PROVE  OnceInv'
<1> SUFFICES ASSUME troubles' = {} PROVE Orderly'
  BY DEF OnceInv
<1>1. troubles = {} /\ \A k \in Jobs : job[k].step = "idle"
  BY DEF OverlapOf
<1>2. Orderly /\ Stored' = Stored
  BY <1>1 DEF OnceInv, Stored
<1>3. \A k \in Jobs : WillIndex(k) = {}
  BY <1>1, <1>2 DEF Orderly, Tidy, Writing, WillIndex
<1>4. \A k \in Jobs \ J : ~AtWork(k)'
  BY <1>1 DEF AtWork, Outside
<1>5. \A k \in Jobs : Tidy(k)'
  <2>1. \A k \in J : Tidy(k)'
    BY DEF Tidy, Writing
  <2>2. \A k \in Jobs \ J : Tidy(k)'
    BY <1>1, <1>2 DEF Tidy, Orderly, Writing
  <2> QED
    BY <2>1, <2>2
<1> QED
  BY <1>2, <1>3, <1>4, <1>5 DEF Orderly

LEMMA OnceNext ==
  ASSUME OnceInv, [Next]_vars
  PROVE  OnceInv'
<1> USE DEF stores, history
<1>0. TypeOK /\ TypeOK' /\ job \in [Jobs -> JobRecords]
  BY NextType DEF OnceInv, TypeOK, JobRecords
<1>1. ASSUME NEW j \in Jobs, NEW kind \in Kinds, Starts(j, kind)
      PROVE  OnceInv'
  <2>1. /\ \A k \in Jobs \ {j} : job'[k] = job[k]
        /\ job'[j].done = {} /\ job'[j].found = {} /\ job'[j].seen = {}
        /\ job'[j].step \notin Writing
    BY <1>0, <1>1 DEF Starts, Rest, FirstStep, Writing
  <2>2. {j} \in SUBSET Jobs /\ OverlapOf({j}) /\ job[j].step = "idle"
        /\ UNCHANGED <<episodes, index>>
    BY <1>1 DEF Starts
  <2> QED
    BY <1>0, <2>1, <2>2, OnceBegins
<1>2. ASSUME NEW j \in Jobs, NEW k \in Jobs, StartsDream(j, k)
      PROVE  OnceInv'
  <2>1. /\ \A l \in Jobs \ {j, k} : job'[l] = job[l]
        /\ job'[j] = [Rest EXCEPT !.step = "waiting", !.kind = "dream"]
        /\ job'[k] = [Rest EXCEPT !.step = "collecting", !.kind = "assemble"]
    BY <1>0, <1>2 DEF StartsDream
  <2>2. \A l \in {j, k} :
          /\ job'[l].done = {} /\ job'[l].found = {} /\ job'[l].seen = {}
          /\ job'[l].step \notin Writing
    BY <2>1 DEF Rest, Writing
  <2>3. ~AtWork(j)'
    BY <2>1 DEF Rest, AtWork, Outside
  <2>4. {j, k} \in SUBSET Jobs /\ OverlapOf({j, k})
        /\ job[j].step = "idle" /\ job[k].step = "idle"
        /\ UNCHANGED <<episodes, index>>
    BY <1>2 DEF StartsDream
  <2> QED
    BY <1>0, <2>1, <2>2, <2>3, <2>4, OnceBegins
<1>3. ASSUME NEW j \in Jobs, Works(j)
      PROVE  OnceInv'
  BY <1>0, <1>3, OnceDistils, OnceAssembles DEF Works
<1>4. ASSUME NEW j \in Jobs, AsksToTrain(j)
      PROVE  OnceInv'
  <2>1. /\ UNCHANGED <<episodes, index, troubles>> /\ job[j].step = "waiting"
        /\ \A k \in Jobs \ {j} : job'[k] = job[k]
        /\ \/ job'[j] = Rest
           \/ job'[j] = [job[j] EXCEPT !.step = "stopping"]
    BY <1>0, <1>4, GoesOthers, EndsOthers DEF AsksToTrain
  <2>2. /\ job[j].step \notin Writing /\ job'[j].step \notin Writing /\ ~AtWork(j)'
        /\ job'[j].done \in {{}, job[j].done}
        /\ job'[j].found \in {{}, job[j].found}
        /\ job'[j].seen \in {{}, job[j].seen}
    BY <1>0, <2>1 DEF Rest, Writing, AtWork, Outside, JobRecords
  <2> QED
    BY <1>0, <2>1, <2>2, OnceAside
<1>5. ASSUME NEW j \in Jobs, StopsPolicy(j)
      PROVE  OnceInv'
  <2>1. CASE \E k \in Jobs : AtWork(k)
    BY <1>0, <1>5, <2>1 DEF StopsPolicy, CutOff, OnceInv
  <2>2. CASE ~\E k \in Jobs : AtWork(k)
    <3>1. /\ UNCHANGED <<episodes, index, troubles>> /\ job[j].step = "stopping"
          /\ \A k \in Jobs \ {j} : job'[k] = job[k]
          /\ job'[j] = [job[j] EXCEPT !.step = "hashing"]
      BY <1>5, <2>2 DEF StopsPolicy
    <3>2. /\ job[j].step \notin Writing /\ job'[j].step \notin Writing /\ ~AtWork(j)'
          /\ job'[j].done = job[j].done
          /\ job'[j].found = job[j].found
          /\ job'[j].seen = job[j].seen
      BY <1>0, <3>1 DEF Writing, AtWork, Outside, JobRecords
    <3> QED
      BY <1>0, <3>1, <3>2, OnceAside
  <2> QED
    BY <2>1, <2>2
<1>6. CASE Crash \/ \E j \in Jobs : Raises(j)
  BY <1>0, <1>6 DEF Crash, Raises, CutOff, OnceInv
<1>7. CASE UNCHANGED vars
  <2>1. UNCHANGED <<episodes, index, job, troubles>> /\ Stored' = Stored
    BY <1>7 DEF vars, Stored
  <2> QED
    BY <1>0, <2>1 DEF OnceInv, Orderly, Tidy, WillIndex, AtWork
<1> QED
  BY <1>1, <1>2, <1>3, <1>4, <1>5, <1>6, <1>7 DEF Next, Dreams

(***************************************************************************)
(* Undisturbed, no session's patterns are stored twice, however many calls *)
(* of the model fail and in whatever order the days come in.               *)
(***************************************************************************)
THEOREM OnceTheorem == Spec => []StoredOnce
<1>1. OnceInv /\ [Next]_vars => OnceInv'
  BY OnceNext
<1> QED
  BY <1>1, OnceInit, OnceImplies, PTL DEF Spec

-----------------------------------------------------------------------------
(***************************************************************************)
(* The newest days of a store: what Recent picks, for any window.  Of the  *)
(* sessions it leaves out the newest has as many newer ones as the window  *)
(* is long, which is shown by induction on the window: as a least          *)
(* counterexample, for the provers cannot use the principle itself.        *)
(***************************************************************************)
Newer(S, s) == {t \in S : t > s}

Newest(S, w) == {s \in S : Cardinality(Newer(S, s)) < w}

\* A set of numbers has a least one.
LEMMA Least ==
  ASSUME NEW T, T \subseteq Nat, T # {}
  PROVE  \E n \in T : \A m \in T : n <= m
<1> DEFINE R == OpToRel(<, Nat)
<1>1. IsWellFoundedOn(R, Nat)
  BY NatLessThanWellFounded
<1>2. \A a, b \in Nat : a < b => <<a, b>> \in R
  BY DEF OpToRel
<1> HIDE DEF R
<1>3. PICK n \in T : \A m \in T : <<m, n>> \notin R
  BY <1>1, WFMin
<1>4. ASSUME NEW m \in T PROVE n <= m
  <2>1. ~(m < n)
    BY <1>2, <1>3
  <2> QED
    BY <2>1
<1> QED
  BY <1>4

LEMMA NewerCounts ==
  ASSUME NEW S \in SUBSET Nat, IsFiniteSet(S), NEW s \in S
  PROVE  /\ IsFiniteSet(Newer(S, s))
         /\ Cardinality(Newer(S, s)) \in Nat
<1>1. Newer(S, s) \subseteq S
  BY DEF Newer
<1> QED
  BY <1>1, FS_Subset, FS_CardinalityType

\* The older a session, the more are newer.
LEMMA OlderRanksLower ==
  ASSUME NEW S \in SUBSET Nat, IsFiniteSet(S), NEW s \in S, NEW t \in S, s < t
  PROVE  Cardinality(Newer(S, t)) < Cardinality(Newer(S, s))
<1>0. s \in Nat /\ t \in Nat /\ \A u \in S : u \in Nat /\ (u > t => u > s)
  OBVIOUS
<1>1. Newer(S, t) \subseteq Newer(S, s) /\ t \in Newer(S, s) /\ t \notin Newer(S, t)
  <2>1. \A u \in Newer(S, t) : u \in Newer(S, s)
    BY <1>0 DEF Newer
  <2>2. t \in Newer(S, s) /\ t \notin Newer(S, t)
    BY <1>0 DEF Newer
  <2> QED
    BY <2>1, <2>2
<1>2. IsFiniteSet(Newer(S, s)) /\ Newer(S, t) # Newer(S, s)
  BY <1>1, NewerCounts
<1>3. /\ Cardinality(Newer(S, t)) <= Cardinality(Newer(S, s))
      /\ Cardinality(Newer(S, s)) # Cardinality(Newer(S, t))
  BY <1>1, <1>2, FS_Subset
<1> QED
  BY <1>3, NewerCounts

\* A finite set of numbers has a greatest one: it has the fewest newer ones.
LEMMA Greatest ==
  ASSUME NEW S \in SUBSET Nat, IsFiniteSet(S), S # {}
  PROVE  \E m \in S : \A s \in S : s <= m
<1> DEFINE C == {Cardinality(Newer(S, s)) : s \in S}
<1>1. C \subseteq Nat /\ C # {}
  BY NewerCounts
<1>2. PICK c \in C : \A d \in C : c <= d
  BY <1>1, Least
<1>3. PICK m \in S : c = Cardinality(Newer(S, m))
  BY <1>2
<1>4. ASSUME NEW s \in S PROVE s <= m
  <2>1. CASE m < s
    <3>1. Cardinality(Newer(S, s)) < c /\ Cardinality(Newer(S, s)) \in C
      BY <1>3, <2>1, OlderRanksLower
    <3>2. Cardinality(Newer(S, s)) \in Nat /\ c \in Nat
      BY <1>1, <3>1
    <3> QED
      BY <1>2, <3>1, <3>2
  <2> QED
    BY <2>1
<1> QED
  BY <1>4

\* What is left out is older than what is picked.
LEMMA LeftOutIsOlder ==
  ASSUME NEW S \in SUBSET Nat, IsFiniteSet(S), NEW w \in Nat,
         NEW s \in S \ Newest(S, w), NEW t \in Newest(S, w)
  PROVE  s < t
<1>1. t \in S /\ Cardinality(Newer(S, t)) < w
  BY DEF Newest
<1>2. ~(Cardinality(Newer(S, s)) < w)
  BY DEF Newest
<1>3. CASE t < s
  <2>1. Cardinality(Newer(S, s)) < Cardinality(Newer(S, t))
    BY <1>1, <1>3, OlderRanksLower
  <2> QED
    BY <1>1, <1>2, <2>1, NewerCounts
<1> QED
  BY <1>1, <1>2, <1>3

\* A window one longer takes the greatest of those left out.
LEMMA NextNewest ==
  ASSUME NEW S \in SUBSET Nat, IsFiniteSet(S), NEW w \in Nat,
         Cardinality(Newest(S, w)) = w, S \ Newest(S, w) # {}
  PROVE  Cardinality(Newest(S, w + 1)) = w + 1
<1> DEFINE L == S \ Newest(S, w)
<1>1. L \in SUBSET Nat /\ IsFiniteSet(L) /\ Newest(S, w) \subseteq S
  BY FS_Subset DEF Newest
<1>2. PICK m \in L : \A s \in L : s <= m
  BY <1>1, Greatest
<1>3. Newer(S, m) = Newest(S, w)
  <2>1. \A t \in Newest(S, w) : t \in Newer(S, m)
    BY <1>1, LeftOutIsOlder DEF Newer
  <2>2. \A t \in Newer(S, m) : t \in Newest(S, w)
    BY <1>2 DEF Newer
  <2> QED
    BY <2>1, <2>2
<1>4. Newest(S, w + 1) = Newest(S, w) \cup {m}
  <2>1. ASSUME NEW s \in Newest(S, w) PROVE s \in Newest(S, w + 1)
    BY NewerCounts DEF Newest
  <2>2. m \in Newest(S, w + 1)
    BY <1>3 DEF Newest
  <2>3. ASSUME NEW s \in Newest(S, w + 1), s \notin Newest(S, w) PROVE s = m
    <3>1. s \in L /\ Cardinality(Newer(S, s)) < w + 1
      BY <2>3 DEF Newest
    <3>2. CASE s < m
      <4>0. m \in S /\ s \in S
        BY <3>1
      <4>1. Cardinality(Newer(S, m)) < Cardinality(Newer(S, s))
        BY <3>2, <4>0, OlderRanksLower
      <4> QED
        BY <1>3, <3>1, <4>0, <4>1, NewerCounts
    <3> QED
      BY <1>1, <1>2, <3>1, <3>2
  <2> QED
    BY <2>1, <2>2, <2>3
<1>5. IsFiniteSet(Newest(S, w)) /\ m \notin Newest(S, w)
  BY <1>1, FS_Subset
<1> QED
  BY <1>4, <1>5, FS_AddElement

\* Unless the window takes everything, it is full.
LEMMA WindowIsFull ==
  ASSUME NEW S \in SUBSET Nat, IsFiniteSet(S), NEW w \in Nat, S \ Newest(S, w) # {}
  PROVE  Cardinality(Newest(S, w)) = w
<1> DEFINE Bad == {v \in Nat : S \ Newest(S, v) # {} /\ Cardinality(Newest(S, v)) # v}
<1> SUFFICES ASSUME Bad # {} PROVE FALSE
  OBVIOUS
<1>1. PICK v \in Bad : \A u \in Bad : v <= u
  BY Least
<1>2. Cardinality(Newest(S, 0)) = 0
  <2>1. Newest(S, 0) = {}
    <3>1. \A s \in S : ~(Cardinality(Newer(S, s)) < 0)
      BY NewerCounts
    <3> QED
      BY <3>1 DEF Newest
  <2> QED
    BY <2>1, FS_EmptySet
<1>3. v \in Nat \ {0} /\ S \ Newest(S, v) # {} /\ Cardinality(Newest(S, v)) # v
  BY <1>1, <1>2
<1> DEFINE u == v - 1
<1>4. u \in Nat /\ u + 1 = v /\ u \notin Bad
  BY <1>1, <1>3
<1>5. Newest(S, u) \subseteq Newest(S, v)
  <2>1. \A s \in S : Cardinality(Newer(S, s)) < u => Cardinality(Newer(S, s)) < v
    BY <1>3, <1>4, NewerCounts
  <2> QED
    BY <2>1 DEF Newest
<1>6. S \ Newest(S, u) # {}
  BY <1>3, <1>5
<1> HIDE DEF u
<1>7. Cardinality(Newest(S, u)) = u
  BY <1>4, <1>6
<1> QED
  BY <1>3, <1>4, <1>6, <1>7, NextNewest

LEMMA RecentOfStored ==
  ASSUME NEW s \in Stored \ Recent(Stored)
  PROVE  /\ Cardinality(Recent(Stored)) = Window
         /\ \A t \in Recent(Stored) : s < t
<1>1. Recent(Stored) = Newest(Stored, Window)
  BY DEF Recent, Newest, Newer
<1>2. Stored \in SUBSET Nat /\ IsFiniteSet(Stored) /\ Window \in Nat
  BY CorpusConstantsOK, FS_Subset DEF Stored
<1>3. Stored \ Newest(Stored, Window) # {}
  BY <1>1
<1> QED
  BY <1>1, <1>2, <1>3, WindowIsFull, LeftOutIsOlder

-----------------------------------------------------------------------------
(***************************************************************************)
(* What is trained on is what was recorded.  Without overlap one job is at *)
(* work, beside at most the script that asked for it, so from the moment   *)
(* it collects the recent days the store is as it was, the file holds what *)
(* it wrote, and the trainer's hash is the file's.  In a dream run nobody  *)
(* is left to change the file.                                             *)
(***************************************************************************)
Collected == [state |-> "whole", sessions |-> Recent(Stored)]

Assembling == {"collecting", "testing", "renaming", "opening", "filling"}
Scripted == {"waiting", "stopping"}

\* The hash is the file's, and the file is the assembly's.
Records(j) ==
  /\ job[j].step \in {"testing", "renaming", "opening", "filling"} =>
       job[j].pairs = Collected
  /\ job[j].step = "renaming" => current.state # "absent"
  /\ job[j].step \in Scripted /\ j \notin cut /\ (\A k \in Jobs : ~AtWork(k)) =>
       current = Collected
  /\ job[j].step \in {"hashing", "loading"} /\ j \notin cut => current = Collected
  /\ job[j].step = "loading" => current = job[j].pairs

\* Two that are not idle are a dream run's script and its assembly.
Beside(j, k) ==
  job[j].step \in Scripted /\ job[k].step \in Assembling /\ job[k].kind # "night"

Alone ==
  \A j, k \in Jobs :
    j # k /\ job[j].step # "idle" /\ job[k].step # "idle" => Beside(j, k) \/ Beside(k, j)

Quiet == PolicyStopped => \A k \in Jobs : ~AtWork(k)

DreamsAsRecorded ==
  \A j \in Jobs :
    job[j].kind = "dream" /\ job[j].step = "loading" => current = job[j].pairs

Calm == Alone /\ \A j \in Jobs : Records(j)

RecordInv ==
  /\ TypeOK
  /\ Quiet
  /\ DreamsAsRecorded
  /\ "overlap" \notin troubles => Calm

LEMMA RecordInit == Init => RecordInv
<1> SUFFICES ASSUME Init PROVE RecordInv
  OBVIOUS
<1>1. \A j \in Jobs : job[j].step = "idle"
  BY DEF Init, Rest
<1>2. Quiet /\ DreamsAsRecorded /\ Calm
  BY <1>1 DEF Quiet, PolicyStopped, DreamsAsRecorded, Calm, Alone, Records, Scripted
<1> QED
  BY <1>2, InitType DEF RecordInv

LEMMA RecordImplies == RecordInv => TrainedAsRecorded
<1> SUFFICES ASSUME RecordInv, NEW j \in Jobs, job[j].step = "loading"
             PROVE  /\ job[j].kind = "dream" \/ "overlap" \notin troubles =>
                         current = job[j].pairs
                    /\ "overlap" \notin troubles /\ j \notin cut => WholeAndRecent
  BY DEF TrainedAsRecorded
<1>1. job[j].kind = "dream" \/ "overlap" \notin troubles => current = job[j].pairs
  BY DEF RecordInv, DreamsAsRecorded, Calm, Records
<1>2. ASSUME "overlap" \notin troubles, j \notin cut PROVE WholeAndRecent
  <2>1. current = Collected
    BY <1>2 DEF RecordInv, Calm, Records
  <2>2. current.state = "whole" /\ current.sessions = Recent(Stored)
    BY <2>1 DEF Collected
  <2>3. Recent(Stored) \subseteq Stored
    BY DEF Recent
  <2> QED
    BY <2>2, <2>3, RecentOfStored DEF WholeAndRecent
<1> QED
  BY <1>1, <1>2

\* Where a job's own work takes it.
LEMMA WorkShape ==
  ASSUME TypeOK, NEW j \in Jobs, Distils(j) \/ Assembles(j)
  PROVE  /\ AtWork(j)
         /\ UNCHANGED <<troubles, cut>>
         /\ \A k \in Jobs \ {j} : job'[k] = job[k]
         /\ job'[j].step \notin {"loading", "waiting", "stopping"}
         /\ job'[j].step = "hashing" => job'[j].kind = "night"
         /\ Distils(j) => /\ job[j].step \notin Assembling
                          /\ job'[j].step \in Steps \ {"testing", "renaming",
                                                       "opening", "filling", "hashing"}
<1> USE DEF history
<1>0. job \in [Jobs -> JobRecords]
  BY DEF TypeOK, JobRecords
<1>1. /\ UNCHANGED <<troubles, cut>>
      /\ AtWork(j)
      /\ Distils(j) => job[j].step \notin Assembling
  BY DEF Distils, Syncs, Lists, AsksInVain, Asks, AsksNoMore, Appends, Consults,
         Truncates, Indexes, Assembles, Collects, Tests, Renames, Opens, Fills,
         AtWork, Outside, Assembling
<1> DEFINE Early == {"listing", "collecting", "asking", "consulting", "appending",
                     "truncating", "indexing"}
           Shape == /\ \A k \in Jobs \ {j} : job'[k] = job[k]
                    /\ job'[j].step \notin {"loading", "waiting", "stopping"}
                    /\ job'[j].step = "hashing" => job'[j].kind = "night"
           Before == job'[j].step \in Early
<1>2. CASE Distils(j)
  <2>1. ASSUME NEW s \in Early, Goes(j, s) PROVE Shape /\ Before
    BY <2>1, GoesOthers
  <2>2. ASSUME Syncs(j) \/ AsksNoMore(j) \/ Truncates(j) PROVE Shape /\ Before
    BY <2>1, <2>2 DEF Syncs, AsksNoMore, Truncates
  <2>3. ASSUME Lists(j) PROVE Shape /\ Before
    BY <1>0, <2>3 DEF Lists, JobRecords
  <2>4. ASSUME AsksInVain(j) PROVE Shape /\ Before
    <3>1. PICK s \in Oldest(j) : job' = [job EXCEPT ![j] = Unanswered(@, s)]
      BY <2>4 DEF AsksInVain
    <3>2. job'[j].step = "asking" /\ \A k \in Jobs \ {j} : job'[k] = job[k]
      BY <1>0, <2>4, <3>1 DEF AsksInVain, Unanswered, JobRecords
    <3> QED
      BY <3>2
  <2>5. ASSUME Asks(j) PROVE Shape /\ Before
    <3>1. PICK s \in Oldest(j) :
            LET answered == [job[j] EXCEPT !.todo = @ \ {s}, !.done = @ \cup {s}]
            IN \/ job' = [job EXCEPT ![j] = [answered EXCEPT !.found = @ \cup {s}]]
               \/ job' = [job EXCEPT ![j] = answered]
      BY <2>5 DEF Asks
    <3>2. job[j].step = "asking"
      BY <2>5 DEF Asks
    <3>3. job'[j].step = "asking" /\ \A k \in Jobs \ {j} : job'[k] = job[k]
      BY <1>0, <3>1, <3>2 DEF JobRecords
    <3> QED
      BY <3>3
  <2>6. ASSUME Appends(j) PROVE Shape /\ Before
    <3>1. PICK s \in job[j].found :
            job' = [job EXCEPT ![j].found = @ \ {s},
                               ![j].step = IF job[j].found = {s}
                                           THEN "consulting" ELSE "appending"]
      BY <2>6 DEF Appends
    <3>2. /\ \A k \in Jobs \ {j} : job'[k] = job[k]
          /\ job'[j].step \in {"consulting", "appending"}
      BY <1>0, <3>1 DEF JobRecords
    <3> QED
      BY <3>2
  <2>7. ASSUME Consults(j) PROVE Shape /\ Before
    BY <1>0, <2>7 DEF Consults, JobRecords
  <2>8. ASSUME Indexes(j) PROVE Shape /\ Before
    BY <1>0, <2>8 DEF Indexes, Rest, JobRecords
  <2>9. Shape /\ Before
    BY <1>2, <2>2, <2>3, <2>4, <2>5, <2>6, <2>7, <2>8 DEF Distils
  <2> QED
    BY <1>1, <2>9 DEF Steps
<1>3. CASE Assembles(j)
  <2>1. ASSUME Collects(j) PROVE Shape
    BY <1>0, <2>1 DEF Collects, JobRecords
  <2>2. ASSUME NEW s \in {"opening", "renaming", "filling"}, Goes(j, s) PROVE Shape
    BY <2>2, GoesOthers
  <2>3. ASSUME Ends(j) PROVE Shape
    <3>1. Rest.step = "idle"
      BY DEF Rest
    <3> QED
      BY <2>3, <3>1, EndsOthers
  <2>4. ASSUME Fills(j) /\ job[j].kind = "night" PROVE Shape
    BY <1>0, <2>4 DEF Fills, JobRecords
  <2>5. Shape
    BY <1>3, <2>1, <2>2, <2>3, <2>4 DEF Assembles, Tests, Renames, Opens, Fills
  <2>6. ~Distils(j)
    BY <1>1, <1>3 DEF Assembles, Collects, Tests, Renames, Opens, Fills, Assembling
  <2> QED
    BY <1>1, <2>5, <2>6
<1> QED
  BY <1>2, <1>3

\* No job comes to work while the policy is stopped, and a dream run's trainer
\* reads what it hashed.
LEMMA QuietWorks ==
  ASSUME RecordInv, NEW j \in Jobs, Works(j)
  PROVE  Quiet' /\ DreamsAsRecorded'
<1>0. TypeOK /\ Quiet /\ DreamsAsRecorded /\ job \in [Jobs -> JobRecords]
  BY DEF RecordInv, TypeOK, JobRecords
<1>1. CASE Distils(j) \/ Assembles(j)
  <2>1. ~PolicyStopped
    BY <1>0, <1>1, WorkShape DEF Quiet
  <2>2. /\ \A k \in Jobs \ {j} : job'[k] = job[k]
        /\ job'[j].kind = "dream" => job'[j].step \notin {"hashing", "loading"}
    BY <1>0, <1>1, WorkShape
  <2>3. ~PolicyStopped'
    BY <2>1, <2>2 DEF PolicyStopped
  <2> QED
    BY <2>3 DEF Quiet, DreamsAsRecorded, PolicyStopped
<1>2. CASE Trains(j)
  <2>1. /\ current' = current
        /\ job[j].step \in {"hashing", "loading"}
        /\ \A k \in Jobs \ {j} : job'[k] = job[k]
        /\ \/ job'[j] = Rest
           \/ /\ job'[j].step = "loading" /\ job'[j].kind = job[j].kind
              /\ job'[j].pairs = current
    BY <1>0, <1>2 DEF Trains, Hashes, Loads, Ends, stores, JobRecords
  <2>2. Rest.step = "idle"
    BY DEF Rest
  <2>3. ~AtWork(j)' /\ (PolicyStopped' => PolicyStopped)
    BY <2>1, <2>2 DEF AtWork, Outside, PolicyStopped
  <2>4. Quiet'
    BY <1>0, <2>1, <2>3 DEF Quiet, AtWork
  <2>5. DreamsAsRecorded'
    BY <1>0, <2>1, <2>2 DEF DreamsAsRecorded
  <2> QED
    BY <2>4, <2>5
<1> QED
  BY <1>1, <1>2 DEF Works

LEMMA QuietAround ==
  ASSUME RecordInv,
         Around
  PROVE  Quiet' /\ DreamsAsRecorded'
<1>0. TypeOK /\ Quiet /\ DreamsAsRecorded /\ job \in [Jobs -> JobRecords]
  BY DEF RecordInv, TypeOK, JobRecords
<1>1. current' = current
  BY <1>0, AroundShape DEF stores
<1>2. \A k \in Jobs : job'[k].step = "loading" => job'[k] = job[k]
  BY <1>0, AroundShape
<1>3. DreamsAsRecorded'
  BY <1>0, <1>1, <1>2 DEF DreamsAsRecorded
<1>4. ASSUME ~PolicyStopped,
             \A k \in Jobs : job'[k] = job[k] \/ job'[k].step \notin {"hashing", "loading"}
      PROVE  Quiet'
  BY <1>4 DEF PolicyStopped, Quiet
<1>5. ASSUME \A k \in Jobs : job'[k] = job[k] \/ job'[k].step \notin {"hashing", "loading"},
             \A k \in Jobs : AtWork(k)' => AtWork(k)
      PROVE  Quiet'
  BY <1>0, <1>5 DEF PolicyStopped, Quiet
<1>6. ASSUME NEW j \in Jobs, NEW kind \in Kinds, Starts(j, kind)
      PROVE  Quiet'
  <2>1. /\ ~PolicyStopped /\ \A k \in Jobs \ {j} : job'[k] = job[k]
        /\ job'[j].step \in {"syncing", "collecting"}
    BY <1>0, <1>6 DEF Starts, Rest, FirstStep
  <2> QED
    BY <1>4, <2>1
<1>7. ASSUME NEW j \in Jobs, NEW k \in Jobs, StartsDream(j, k)
      PROVE  Quiet'
  <2>1. /\ ~PolicyStopped
        /\ \A l \in Jobs \ {j, k} : job'[l] = job[l]
        /\ job'[j] = [Rest EXCEPT !.step = "waiting", !.kind = "dream"]
        /\ job'[k] = [Rest EXCEPT !.step = "collecting", !.kind = "assemble"]
    BY <1>0, <1>7 DEF StartsDream
  <2>2. job'[j].step = "waiting" /\ job'[k].step = "collecting"
    BY <2>1 DEF Rest
  <2> QED
    BY <1>4, <2>1, <2>2
<1>8. ASSUME NEW j \in Jobs, AsksToTrain(j) \/ Raises(j)
      PROVE  Quiet'
  <2>1. /\ \A k \in Jobs \ {j} : job'[k] = job[k]
        /\ job'[j].step \in {"stopping", "idle"}
    <3>1. Goes(j, "stopping") \/ Ends(j)
      BY <1>8 DEF AsksToTrain, Raises
    <3>2. Rest.step = "idle"
      BY DEF Rest
    <3>3. CASE Goes(j, "stopping")
      BY <1>0, <3>3, GoesOthers
    <3>4. CASE Ends(j)
      BY <1>0, <3>2, <3>4, EndsOthers
    <3> QED
      BY <3>1, <3>3, <3>4
  <2> QED
    BY <1>5, <2>1 DEF AtWork, Outside
<1>9. ASSUME NEW j \in Jobs, StopsPolicy(j)
      PROVE  Quiet'
  <2>1. \A k \in Jobs :
          IF k = j THEN job'[k] = [job[j] EXCEPT !.step = "hashing"]
          ELSE IF AtWork(k) THEN job'[k] = Rest ELSE job'[k] = job[k]
    BY <1>9 DEF StopsPolicy
  <2>2. job'[j].step = "hashing" /\ Rest.step = "idle"
    BY <1>0, <2>1 DEF JobRecords, Rest
  <2>3. \A k \in Jobs : ~AtWork(k)'
    BY <2>1, <2>2 DEF AtWork, Outside
  <2> QED
    BY <2>3 DEF Quiet
<1>10. ASSUME Crash
       PROVE  Quiet'
  <2>1. \A k \in Jobs : job'[k] = IF AtWork(k) THEN Rest ELSE job[k]
    BY <1>10 DEF Crash
  <2>2. Rest.step = "idle"
    BY DEF Rest
  <2>3. \A k \in Jobs : job'[k] = job[k] \/ job'[k].step = "idle"
    BY <2>1, <2>2
  <2>4. \A k \in Jobs : AtWork(k)' => AtWork(k)
    BY <2>3 DEF AtWork, Outside
  <2> QED
    BY <1>5, <2>3, <2>4
<1> QED
  BY <1>3, <1>6, <1>7, <1>8, <1>9, <1>10 DEF Around, Dreams

\* A job that works without overlap, beside nothing but a script that waits.
LEMMA CalmStep ==
  ASSUME TypeOK, Calm, NEW j \in Jobs, job[j].step # "idle",
         job[j].step \notin Scripted,
         UNCHANGED cut,
         \A k \in Jobs \ {j} : job'[k] = job[k],
         Records(j)', job'[j].step \notin Scripted,
         job[j].step \in Assembling /\ job[j].kind # "night" =>
           \/ job'[j].step = "idle" /\ current' = Collected'
           \/ job'[j].step \in Assembling /\ job'[j].kind # "night"
  PROVE  Calm'
<1>1. ASSUME NEW k \in Jobs \ {j}, job[k].step # "idle"
      PROVE  /\ Beside(k, j)
             /\ job'[j].step # "idle" => Beside(k, j)'
             /\ Records(k)'
  <2>1. Beside(k, j)
    BY <1>1 DEF Calm, Alone, Beside
  <2>2. job'[k] = job[k] /\ job[k].step \in Scripted
    BY <2>1 DEF Beside
  <2>3. job'[j].step # "idle" => Beside(k, j)'
    BY <2>1, <2>2 DEF Beside
  <2>4. Records(k)'
    <3>1. CASE current' = Collected'
      BY <2>2, <3>1 DEF Records, Scripted
    <3>2. CASE job'[j].step \in Assembling
      BY <2>2, <3>2 DEF Records, Scripted, Assembling, AtWork, Outside
    <3> QED
      BY <2>1, <3>1, <3>2 DEF Beside
  <2> QED
    BY <2>1, <2>3, <2>4
<1>2. ASSUME NEW k \in Jobs \ {j}, job[k].step = "idle"
      PROVE  job'[k].step = "idle" /\ Records(k)'
  BY <1>2 DEF Records, Scripted
<1>3. \A k \in Jobs : Records(k)'
  BY <1>1, <1>2
<1>4. ASSUME NEW k \in Jobs, NEW l \in Jobs, k # l,
             job'[k].step # "idle", job'[l].step # "idle"
      PROVE  (Beside(k, l) \/ Beside(l, k))'
  <2>1. CASE k = j
    BY <1>1, <1>4, <2>1
  <2>2. CASE l = j
    BY <1>1, <1>4, <2>2
  <2>3. CASE k # j /\ l # j
    <3>1. Beside(k, j) /\ Beside(l, j) /\ job'[k] = job[k] /\ job'[l] = job[l]
      BY <1>1, <1>4, <2>3
    <3>2. Beside(k, l) \/ Beside(l, k)
      BY <1>4, <3>1 DEF Calm, Alone
    <3> QED
      BY <3>1, <3>2 DEF Beside
  <2> QED
    BY <2>1, <2>2, <2>3
<1> QED
  BY <1>3, <1>4 DEF Calm, Alone

\* A distillation writes to the store, and leaves the corpus for later.
LEMMA CalmDistils ==
  ASSUME RecordInv, TypeOK', NEW j \in Jobs, Distils(j), "overlap" \notin troubles
  PROVE  Calm'
<1>0. TypeOK /\ Calm
  BY DEF RecordInv
<1>1. /\ AtWork(j) /\ UNCHANGED <<troubles, cut>>
      /\ \A k \in Jobs \ {j} : job'[k] = job[k]
      /\ job[j].step \notin Assembling
      /\ job'[j].step \notin {"testing", "renaming", "opening", "filling", "hashing",
                             "loading", "waiting", "stopping"}
  BY <1>0, WorkShape
<1>2. Records(j)'
  BY <1>1 DEF Records, Scripted
<1> QED
  BY <1>0, <1>1, <1>2, CalmStep DEF AtWork, Outside, Scripted

LEMMA CalmAssembles ==
  ASSUME RecordInv, TypeOK', NEW j \in Jobs, Assembles(j), "overlap" \notin troubles
  PROVE  Calm'
<1> USE DEF stores, history
<1>0. TypeOK /\ Calm /\ job \in [Jobs -> JobRecords] /\ Records(j)
  BY DEF RecordInv, TypeOK, JobRecords, Calm
<1>1. /\ AtWork(j) /\ UNCHANGED <<episodes, cut>>
      /\ \A k \in Jobs \ {j} : job'[k] = job[k]
      /\ job[j].step \in Assembling
  BY <1>0, WorkShape DEF Assembles, Collects, Tests, Renames, Opens, Fills, Assembling
<1>2. Collected' = Collected
  BY <1>1 DEF Collected, Stored
<1> DEFINE Result ==
             /\ Records(j)' /\ job'[j].step \notin Scripted
             /\ job[j].kind # "night" =>
                  \/ job'[j].step = "idle" /\ current' = Collected
                  \/ job'[j].step \in Assembling /\ job'[j].kind # "night"
<1>3. ASSUME NEW s \in {"renaming", "opening", "filling"}, Goes(j, s)
      PROVE  /\ job'[j].step = s /\ job'[j].pairs = job[j].pairs
             /\ job'[j].kind = job[j].kind
             /\ s \in Assembling /\ s \notin Scripted
  BY <1>0, <1>3 DEF Goes, JobRecords, Assembling, Scripted
<1>4. CASE Collects(j)
  <2>1. /\ job'[j].step = "testing" /\ job'[j].pairs = Collected
        /\ job'[j].kind = job[j].kind
    BY <1>0, <1>4 DEF Collects, JobRecords, Collected
  <2>2. Result
    BY <1>2, <2>1 DEF Records, Scripted, Assembling
  <2> QED
    BY <1>0, <1>1, <1>2, <2>2, CalmStep DEF AtWork, Outside, Scripted
<1>5. CASE Tests(j)
  <2>1. Result
    BY <1>0, <1>2, <1>3, <1>5 DEF Tests, Records, Scripted
  <2> QED
    BY <1>0, <1>1, <1>2, <2>1, CalmStep DEF AtWork, Outside, Scripted
<1>6. CASE Renames(j)
  <2>1. Goes(j, "opening") /\ job[j].pairs = Collected
    BY <1>0, <1>6 DEF Renames, Records
  <2>2. Result
    BY <1>2, <1>3, <2>1 DEF Records, Scripted
  <2> QED
    BY <1>0, <1>1, <1>2, <2>2, CalmStep DEF AtWork, Outside, Scripted
<1>7. CASE Opens(j)
  <2>1. Goes(j, "filling") /\ job[j].pairs = Collected
    BY <1>0, <1>7 DEF Opens, Records
  <2>2. Result
    BY <1>2, <1>3, <2>1 DEF Records, Scripted
  <2> QED
    BY <1>0, <1>1, <1>2, <2>2, CalmStep DEF AtWork, Outside, Scripted
<1>8. CASE Fills(j)
  <2>1. current' = Collected
    BY <1>0, <1>8 DEF Fills, Records
  <2>2. CASE job[j].kind = "night"
    <3>1. job'[j].step = "hashing"
      BY <1>0, <1>8, <2>2 DEF Fills, JobRecords
    <3>2. Result
      BY <1>2, <2>1, <2>2, <3>1 DEF Records, Scripted
    <3> QED
      BY <1>0, <1>1, <1>2, <3>2, CalmStep DEF AtWork, Outside, Scripted
  <2>3. CASE job[j].kind # "night"
    <3>1. job'[j].step = "idle"
      BY <1>0, <1>8, <2>3, EndsOthers DEF Fills, Rest
    <3>2. Result
      BY <1>2, <2>1, <3>1 DEF Records, Scripted
    <3> QED
      BY <1>0, <1>1, <1>2, <3>2, CalmStep DEF AtWork, Outside, Scripted
  <2> QED
    BY <2>2, <2>3
<1> QED
  BY <1>4, <1>5, <1>6, <1>7, <1>8 DEF Assembles

LEMMA CalmTrains ==
  ASSUME RecordInv, TypeOK', NEW j \in Jobs, Trains(j), "overlap" \notin troubles
  PROVE  Calm'
<1> USE DEF stores, history
<1>0. TypeOK /\ Calm /\ job \in [Jobs -> JobRecords] /\ Records(j)
  BY DEF RecordInv, TypeOK, JobRecords, Calm
<1>1. /\ UNCHANGED <<episodes, current, cut>>
      /\ job[j].step \in {"hashing", "loading"}
      /\ \A k \in Jobs \ {j} : job'[k] = job[k]
      /\ \/ job'[j] = Rest
         \/ job'[j].step = "loading" /\ job'[j].pairs = current
  BY <1>0 DEF Trains, Hashes, Loads, Ends, JobRecords
<1>2. Collected' = Collected
  BY <1>1 DEF Collected, Stored
<1>3. Records(j)' /\ job'[j].step \notin Scripted
  BY <1>0, <1>1, <1>2 DEF Records, Rest, Scripted
<1> QED
  BY <1>0, <1>1, <1>3, CalmStep DEF Scripted, Assembling

\* A job begins beside none.
LEMMA CalmBegins ==
  ASSUME Calm, NEW J \in SUBSET Jobs, OverlapOf(J), "overlap" \notin troubles',
         \A k \in J : job[k].step = "idle",
         \A k \in Jobs \ J : job'[k] = job[k]
  PROVE  /\ \A k \in Jobs \ J : job'[k].step = "idle" /\ Records(k)'
         /\ "overlap" \notin troubles
<1>1. "overlap" \notin troubles /\ \A k \in Jobs : job[k].step = "idle"
  BY DEF OverlapOf
<1> QED
  BY <1>1 DEF Records, Scripted

LEMMA CalmStarts ==
  ASSUME RecordInv, NEW j \in Jobs, NEW kind \in Kinds, Starts(j, kind),
         "overlap" \notin troubles'
  PROVE  Calm'
<1>0. TypeOK /\ job \in [Jobs -> JobRecords]
  BY DEF RecordInv, TypeOK, JobRecords
<1>1. /\ \A k \in Jobs \ {j} : job'[k] = job[k]
      /\ job'[j].step \in {"syncing", "collecting"}
      /\ job[j].step = "idle" /\ OverlapOf({j}) /\ {j} \in SUBSET Jobs
  BY <1>0 DEF Starts, Rest, FirstStep
<1>2. Calm
  BY <1>1 DEF RecordInv, OverlapOf
<1>3. \A k \in Jobs \ {j} : job'[k].step = "idle" /\ Records(k)'
  BY <1>1, <1>2, CalmBegins
<1>4. Records(j)'
  BY <1>1 DEF Records, Scripted
<1> QED
  BY <1>3, <1>4 DEF Calm, Alone

LEMMA CalmStartsDream ==
  ASSUME RecordInv, NEW j \in Jobs, NEW k \in Jobs, StartsDream(j, k),
         "overlap" \notin troubles'
  PROVE  Calm'
<1>0. TypeOK /\ job \in [Jobs -> JobRecords]
  BY DEF RecordInv, TypeOK, JobRecords
<1>1. /\ \A l \in Jobs \ {j, k} : job'[l] = job[l]
      /\ job'[j] = [Rest EXCEPT !.step = "waiting", !.kind = "dream"]
      /\ job'[k] = [Rest EXCEPT !.step = "collecting", !.kind = "assemble"]
      /\ j # k
  BY <1>0 DEF StartsDream
<1>2. /\ job'[j].step = "waiting"
      /\ job'[k].step = "collecting" /\ job'[k].kind = "assemble"
  BY <1>1 DEF Rest
<1>3. /\ job[j].step = "idle" /\ job[k].step = "idle"
      /\ OverlapOf({j, k}) /\ {j, k} \in SUBSET Jobs
  BY DEF StartsDream
<1>4. Calm
  BY <1>3 DEF RecordInv, OverlapOf
<1>5. \A l \in Jobs \ {j, k} : job'[l].step = "idle" /\ Records(l)'
  BY <1>1, <1>3, <1>4, CalmBegins
<1>6. AtWork(k)'
  BY <1>2 DEF AtWork, Outside
<1>7. Records(j)' /\ Records(k)'
  BY <1>2, <1>6 DEF Records, Scripted
<1>8. Beside(j, k)'
  BY <1>2 DEF Beside, Scripted, Assembling
<1> QED
  BY <1>5, <1>7, <1>8 DEF Calm, Alone

\* A dream run's script moves on, or stops the policy.
LEMMA CalmDreams ==
  ASSUME RecordInv, NEW j \in Jobs, Dreams(j), "overlap" \notin troubles'
  PROVE  Calm'
<1> USE DEF stores, history
<1>0. TypeOK /\ job \in [Jobs -> JobRecords]
  BY DEF RecordInv, TypeOK, JobRecords
<1>1. "overlap" \notin troubles /\ UNCHANGED <<episodes, current>>
  BY DEF Dreams, AsksToTrain, StopsPolicy, CutOff
<1>2. Calm /\ Records(j) /\ Collected' = Collected
  BY <1>1 DEF RecordInv, Calm, Collected, Stored
<1>3. CASE AsksToTrain(j)
  <2>1. /\ job[j].step = "waiting" /\ cut' = cut
        /\ \A k \in Jobs \ {j} : job'[k] = job[k]
        /\ job'[j].step \in {"stopping", "idle"}
    <3>1. /\ job[j].step = "waiting" /\ cut' = cut
          /\ Goes(j, "stopping") \/ Ends(j)
      BY <1>3 DEF AsksToTrain
    <3>2. Rest.step = "idle"
      BY DEF Rest
    <3>3. CASE Goes(j, "stopping")
      BY <1>0, <3>1, <3>3, GoesOthers
    <3>4. CASE Ends(j)
      BY <1>0, <3>1, <3>2, <3>4, EndsOthers
    <3> QED
      BY <3>1, <3>3, <3>4
  <2>2. ~AtWork(j) /\ ~AtWork(j)' /\ \A k \in Jobs : AtWork(k)' <=> AtWork(k)
    BY <2>1 DEF AtWork, Outside
  <2>3. ASSUME NEW k \in Jobs PROVE Records(k)'
    <3>1. Records(k)
      BY <1>2 DEF Calm
    <3> QED
      BY <1>1, <1>2, <2>1, <2>2, <3>1 DEF Records, Scripted
  <2>4. Alone'
    BY <1>2, <2>1 DEF Calm, Alone, Beside, Scripted, Assembling
  <2> QED
    BY <2>3, <2>4 DEF Calm
<1>4. CASE StopsPolicy(j)
  <2>1. \A k \in Jobs :
          IF k = j THEN job'[k] = [job[j] EXCEPT !.step = "hashing"]
          ELSE IF AtWork(k) THEN job'[k] = Rest ELSE job'[k] = job[k]
    BY <1>4 DEF StopsPolicy
  <2>2. job'[j].step = "hashing" /\ Rest.step = "idle" /\ job[j].step = "stopping"
    BY <1>0, <1>4, <2>1 DEF StopsPolicy, JobRecords, Rest
  <2>3. ASSUME NEW k \in Jobs \ {j} PROVE job'[k].step = "idle"
    <3>1. CASE AtWork(k)
      BY <2>1, <2>2, <3>1
    <3>2. CASE ~AtWork(k)
      <4>1. job[k].step \notin Assembling /\ job[j].step \notin Assembling
        BY <2>2, <3>2 DEF AtWork, Outside, Assembling
      <4>2. job[k].step = "idle"
        BY <1>2, <2>2, <4>1 DEF Calm, Alone, Beside
      <4> QED
        BY <2>1, <3>2, <4>2
    <3> QED
      BY <3>1, <3>2
  <2>4. j \notin cut' => current = Collected
    <3>1. CASE \E k \in Jobs : AtWork(k)
      BY <1>4, <3>1 DEF StopsPolicy, CutOff
    <3>2. CASE ~\E k \in Jobs : AtWork(k)
      BY <1>2, <1>4, <2>2, <3>2 DEF StopsPolicy, Records, Scripted
    <3> QED
      BY <3>1, <3>2
  <2>5. Records(j)'
    BY <1>1, <1>2, <2>2, <2>4 DEF Records, Scripted
  <2>6. \A k \in Jobs \ {j} : Records(k)'
    BY <2>3 DEF Records, Scripted
  <2> QED
    BY <2>3, <2>5, <2>6 DEF Calm, Alone
<1> QED
  BY <1>3, <1>4 DEF Dreams

\* What is cut off leaves its files, and a dream run that knows nothing of them.
LEMMA CalmEnds ==
  ASSUME RecordInv, NEW J \in SUBSET Jobs, CutOff(Dreaming), UNCHANGED stores,
         \A k \in J : AtWork(k) /\ job'[k] = Rest,
         \A k \in Jobs \ J : job'[k] = job[k],
         "overlap" \notin troubles'
  PROVE  Calm'
<1> USE DEF stores
<1>1. Calm /\ UNCHANGED <<episodes, current>>
  BY DEF RecordInv, CutOff
<1>2. Collected' = Collected
  BY <1>1 DEF Collected, Stored
<1>3. ASSUME NEW k \in Jobs PROVE Records(k)'
  <2>1. CASE k \in J
    BY <2>1 DEF Records, Rest, Scripted
  <2>2. CASE k \notin J
    <3>1. Records(k) /\ job'[k] = job[k]
      BY <1>1, <2>2 DEF Calm
    <3>2. job[k].step \in Scripted => k \in cut'
      BY DEF CutOff, Dreaming, Scripted
    <3>3. cut \subseteq cut'
      BY DEF CutOff
    <3> QED
      BY <1>1, <1>2, <3>1, <3>2, <3>3 DEF Records
  <2> QED
    BY <2>1, <2>2
<1>4. \A k \in Jobs : job'[k] = job[k] \/ job'[k].step = "idle"
  BY DEF Rest
<1>5. Alone'
  BY <1>1, <1>4 DEF Calm, Alone, Beside
<1> QED
  BY <1>3, <1>5 DEF Calm

LEMMA RecordNext ==
  ASSUME RecordInv, [Next]_vars
  PROVE  RecordInv'
<1>0. TypeOK /\ TypeOK' /\ job \in [Jobs -> JobRecords]
  BY NextType DEF RecordInv, TypeOK, JobRecords
<1>1. ASSUME NEW j \in Jobs, NEW kind \in Kinds, Starts(j, kind)
      PROVE  RecordInv'
  BY <1>0, <1>1, QuietAround, CalmStarts DEF Around, RecordInv
<1>2. ASSUME NEW j \in Jobs, NEW k \in Jobs, StartsDream(j, k)
      PROVE  RecordInv'
  BY <1>0, <1>2, QuietAround, CalmStartsDream DEF Around, RecordInv
<1>3. ASSUME NEW j \in Jobs, Works(j)
      PROVE  RecordInv'
  <2>1. Quiet' /\ DreamsAsRecorded'
    BY <1>3, QuietWorks
  <2>2. troubles' = troubles
    BY <1>0, <1>3, WorkShape DEF Works, Trains, Hashes, Loads, history
  <2>3. "overlap" \notin troubles => Calm'
    BY <1>0, <1>3, CalmDistils, CalmAssembles, CalmTrains DEF Works
  <2> QED
    BY <1>0, <2>1, <2>2, <2>3 DEF RecordInv
<1>4. ASSUME NEW j \in Jobs, Dreams(j)
      PROVE  RecordInv'
  BY <1>0, <1>4, QuietAround, CalmDreams DEF Around, RecordInv
<1>5. ASSUME NEW j \in Jobs, Raises(j)
      PROVE  RecordInv'
  <2>1. /\ CutOff(Dreaming) /\ UNCHANGED stores /\ {j} \in SUBSET Jobs
        /\ AtWork(j) /\ job'[j] = Rest /\ \A k \in Jobs \ {j} : job'[k] = job[k]
    BY <1>0, <1>5, EndsOthers DEF Raises
  <2>2. "overlap" \notin troubles' => Calm'
    BY <2>1, CalmEnds
  <2> QED
    BY <1>0, <1>5, <2>2, QuietAround DEF Around, RecordInv
<1>6. CASE Crash
  <2> DEFINE J == {j \in Jobs : AtWork(j)}
  <2>1. /\ CutOff(Dreaming) /\ UNCHANGED stores /\ J \in SUBSET Jobs
        /\ \A k \in J : AtWork(k) /\ job'[k] = Rest
        /\ \A k \in Jobs \ J : job'[k] = job[k]
    BY <1>6 DEF Crash
  <2>2. "overlap" \notin troubles' => Calm'
    BY <2>1, CalmEnds
  <2> QED
    BY <1>0, <1>6, <2>2, QuietAround DEF Around, RecordInv
<1>7. CASE UNCHANGED vars
  <2>1. UNCHANGED <<current, job, troubles, cut>> /\ Collected' = Collected
    BY <1>7 DEF vars, stores, history, Collected, Stored
  <2> QED
    BY <1>0, <2>1 DEF RecordInv, Quiet, PolicyStopped, DreamsAsRecorded, Calm, Alone,
                      Beside, Records, AtWork
<1> QED
  BY <1>1, <1>2, <1>3, <1>4, <1>5, <1>6, <1>7 DEF Next

(***************************************************************************)
(* The trainer trains on what it recorded, at night unless another job ran *)
(* beside, in a dream run whatever ran before; and that is the newest days *)
(* of the store, as many as the window allows, whatever an earlier crash   *)
(* left half written: except by overlapping jobs, or in a dream run whose  *)
(* own assembly was cut off.                                               *)
(***************************************************************************)
THEOREM TrainedTheorem == Spec => []TrainedAsRecorded
<1>1. RecordInv /\ [Next]_vars => RecordInv'
  BY RecordNext
<1> QED
  BY <1>1, RecordInit, RecordImplies, PTL DEF Spec
=============================================================================
