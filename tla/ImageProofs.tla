------------------------------ MODULE ImageProofs ------------------------------
(***************************************************************************)
(* Safety of the image worker: of its calls (ImageWorker), for any calls,  *)
(* ids, number of denoising steps and crashes, and of its start            *)
(* (WorkerLoad), for any sections and any memory.                          *)
(***************************************************************************)
EXTENDS ImageWorker, WorkerLoad, TLAPS

CallRecords ==
  [step : CallSteps, id : Ids \cup {None}, op : Operations \cup {None},
   done : 0 .. MaxSteps, image : BOOLEAN]

\* A call that is under way has an id and an operation, and until its last
\* denoising step it has one to go.
Shaped(c) ==
  /\ call[c].step \notin {"idle", "done"} =>
       call[c].id \in Ids /\ call[c].op \in Operations
  /\ call[c].step \in {"leasing", "sent", "weighing", "preparing", "queued",
                       "computing", "previewing", "publishing"} =>
       call[c].done < MaxSteps

ShapeInv == ImageTypeOK /\ \A c \in Calls : Shaped(c)

LEMMA RestCall == Rest \in CallRecords /\ [Rest EXCEPT !.step = "done"] \in CallRecords
<1>1. 0 \in 0 .. MaxSteps /\ {"idle", "done"} \subseteq CallSteps
  BY ImageConstantsOK DEF CallSteps
<1> QED
  BY <1>1 DEF Rest, CallRecords

LEMMA ShapeInit == ImageInit => ShapeInv
<1> SUFFICES ASSUME ImageInit PROVE ShapeInv
  OBVIOUS
<1>1. call \in [Calls -> CallRecords]
  BY RestCall DEF ImageInit
<1>2. \A c \in Calls : Shaped(c)
  BY DEF ImageInit, Rest, Shaped
<1>3. progress \in [Ids -> Statuses]
  BY DEF ImageInit, Statuses
<1> QED
  BY <1>1, <1>2, <1>3, ImageConstantsOK DEF ImageInit, ImageTypeOK, CallRecords, ShapeInv

\* A call that goes on, ends, or has its record replaced: nobody else's changes.
LEMMA GoesShape ==
  ASSUME ShapeInv, NEW c \in Calls, NEW s \in CallSteps, Goes(c, s)
  PROVE  /\ call' \in [Calls -> CallRecords]
         /\ \A d \in Calls \ {c} : call'[d] = call[d]
         /\ call'[c].step = s
         /\ call'[c].id = call[c].id /\ call'[c].op = call[c].op
         /\ call'[c].done = call[c].done /\ call'[c].image = call[c].image
BY DEF ShapeInv, ImageTypeOK, Goes, CallRecords

LEMMA EndsShape ==
  ASSUME ShapeInv, NEW c \in Calls, Ends(c)
  PROVE  /\ call' \in [Calls -> CallRecords]
         /\ \A d \in Calls \ {c} : call'[d] = call[d]
         /\ call'[c].step = "done"
BY RestCall DEF ShapeInv, ImageTypeOK, Ends, CallRecords, Rest

LEMMA PutShape ==
  ASSUME ShapeInv, NEW c \in Calls, NEW r \in CallRecords,
         call' = [call EXCEPT ![c] = r]
  PROVE  /\ call' \in [Calls -> CallRecords]
         /\ \A d \in Calls \ {c} : call'[d] = call[d]
         /\ call'[c] = r
BY DEF ShapeInv, ImageTypeOK, CallRecords

\* The steps of a call that end in Goes.
LEMMA GoesStays ==
  ASSUME ShapeInv, NEW c \in Calls, NEW s \in CallSteps, Goes(c, s),
         call[c].step \notin {"idle", "done"},
         s \in {"leasing", "sent", "weighing", "preparing", "queued", "computing",
                "previewing", "publishing"} => call[c].done < MaxSteps
  PROVE  \A d \in Calls : Shaped(d)'
<1>1. \A d \in Calls \ {c} : Shaped(d)'
  BY GoesShape DEF Shaped, ShapeInv
<1>2. Shaped(c)'
  BY GoesShape DEF Shaped, ShapeInv
<1> QED
  BY <1>1, <1>2

LEMMA EndsStays ==
  ASSUME ShapeInv, NEW c \in Calls, Ends(c)
  PROVE  \A d \in Calls : Shaped(d)'
BY EndsShape DEF Shaped, ShapeInv

\* What the tables' operations leave behind.
LEMMA WritesType ==
  ASSUME ShapeInv, NEW id \in Ids, NEW status \in Statuses, Writes(id, status)
  PROVE  progress' \in [Ids -> Statuses] /\ old' \subseteq Ids
BY DEF ShapeInv, ImageTypeOK, Writes

LEMMA PruneType ==
  ASSUME ShapeInv, NEW p \in [Ids -> Statuses], Prune(p, preview, cancelled)
  PROVE  /\ progress' \in [Ids -> Statuses]
         /\ preview' \in [Ids -> Calls \cup {None}]
         /\ cancelled' \subseteq Ids /\ old' \subseteq Ids
<1>1. "none" \in Statuses
  BY DEF Statuses
<1> QED
  BY <1>1 DEF ShapeInv, ImageTypeOK, Prune

\* The steps of the clients and of the image API.
LEMMA ApiShape ==
  ASSUME ShapeInv, NEW c \in Calls,
         \/ \E ask \in MayAsk[c] : Begins(c, ask[1], ask[2])
         \/ Leases(c)
         \/ Returns(c)
         \/ Refuses(c)
  PROVE  ShapeInv'
<1> USE DEF tables, told
<1>0. {"sent", "answered", "leasing", "done"} \subseteq CallSteps
  BY DEF CallSteps
<1>1. ASSUME NEW ask \in MayAsk[c], Begins(c, ask[1], ask[2])
      PROVE  ShapeInv'
  <2>1. ask[1] \in Ids /\ ask[2] \in Operations
    BY ImageConstantsOK DEF Operations
  <2> DEFINE r == [Rest EXCEPT !.step = "leasing", !.id = ask[1], !.op = ask[2]]
  <2>2. r \in CallRecords
    BY <1>0, <2>1, RestCall DEF CallRecords, Rest
  <2>3. /\ r.step = "leasing" /\ r.id = ask[1] /\ r.op = ask[2] /\ r.done = 0
    BY DEF Rest
  <2>4. call' = [call EXCEPT ![c] = r]
    BY <1>1 DEF Begins
  <2> HIDE DEF r
  <2>5. call' \in [Calls -> CallRecords] /\ \A d \in Calls : Shaped(d)'
    <3>1. 0 < MaxSteps
      BY ImageConstantsOK
    <3>2. \A d \in Calls \ {c} : call'[d] = call[d]
      BY <2>2, <2>4, PutShape
    <3>3. call'[c] = r /\ call' \in [Calls -> CallRecords]
      BY <2>2, <2>4, PutShape
    <3>4. Shaped(c)'
      BY <2>1, <2>3, <3>1, <3>3 DEF Shaped
    <3>5. \A d \in Calls \ {c} : Shaped(d)'
      BY <3>2 DEF Shaped, ShapeInv
    <3> QED
      BY <3>3, <3>4, <3>5
  <2> QED
    BY <1>1, <2>5 DEF Begins, ShapeInv, ImageTypeOK, CallRecords
<1>2. CASE Leases(c)
  <2>1. call' \in [Calls -> CallRecords] /\ \A d \in Calls : Shaped(d)'
    <3>1. CASE Goes(c, "sent")
      BY <1>0, <1>2, <3>1, GoesShape, GoesStays DEF Leases, Shaped, ShapeInv
    <3>2. CASE Ends(c)
      BY <3>2, EndsShape, EndsStays
    <3> QED
      BY <1>2, <3>1, <3>2 DEF Leases
  <2> QED
    BY <1>2, <2>1 DEF Leases, ShapeInv, ImageTypeOK, CallRecords
<1>3. CASE Returns(c)
  <2>1. call' \in [Calls -> CallRecords] /\ \A d \in Calls : Shaped(d)'
    BY <1>3, EndsShape, EndsStays DEF Returns
  <2> QED
    BY <1>3, <2>1 DEF Returns, ShapeInv, ImageTypeOK, CallRecords
<1>5. CASE Refuses(c)
  <2>1. call' \in [Calls -> CallRecords] /\ \A d \in Calls : Shaped(d)'
    BY <1>0, <1>5, GoesShape, GoesStays DEF Refuses
  <2> QED
    BY <1>5, <2>1 DEF Refuses, ShapeInv, ImageTypeOK, CallRecords
<1> QED
  BY <1>1, <1>2, <1>3, <1>5

\* The steps that touch no call.
LEMMA TableShape ==
  ASSUME ShapeInv,
         \/ \E id \in Ids : Cancel(id) \/ Ages(id)
         \/ Polls
  PROVE  ShapeInv'
<1> USE DEF tables, told
<1>0. call' = call /\ \A d \in Calls : Shaped(d)'
  BY DEF Cancel, Ages, Polls, ShapeInv, Shaped
<1>1. ASSUME NEW id \in Ids, Cancel(id) PROVE ShapeInv'
  <2>1. {"none", "cancel_requested"} \subseteq Statuses
    BY DEF Statuses
  <2>2. progress' \in [Ids -> Statuses]
    BY <1>1, <2>1 DEF Cancel, ShapeInv, ImageTypeOK
  <2>3. asked' \subseteq Calls
    BY <1>1 DEF Cancel, Holders, ShapeInv, ImageTypeOK
  <2> QED
    BY <1>0, <1>1, <2>2, <2>3 DEF Cancel, ShapeInv, ImageTypeOK
<1>2. ASSUME NEW id \in Ids, Ages(id) PROVE ShapeInv'
  BY <1>0, <1>2 DEF Ages, ShapeInv, ImageTypeOK
<1>3. CASE Polls
  BY <1>0, <1>3, PruneType DEF Polls, ShapeInv, ImageTypeOK
<1> QED
  BY <1>1, <1>2, <1>3

\* The worker up to the pipeline's lock.
LEMMA GateShape ==
  ASSUME ShapeInv, NEW c \in Calls,
         AnswersAtOnce(c) \/ Gates(c) \/ Rejects(c) \/ Passes(c) \/ SetsUp(c)
         \/ Enters(c)
  PROVE  ShapeInv'
<1> USE DEF tables, told
<1>0. /\ {"answered", "weighing", "preparing", "queued", "computing"} \subseteq CallSteps
      /\ {"succeeded", "cancelled", "resource_check", "failed"} \subseteq Statuses
      /\ call[c].step \in {"sent", "weighing", "preparing", "queued"}
  BY DEF CallSteps, Admitted, Busy, Statuses, Terminal, AnswersAtOnce, Gates,
         Rejects, Passes, SetsUp, Enters
<1>1. call[c].id \in Ids /\ call[c].done < MaxSteps
  BY <1>0 DEF ShapeInv, Shaped
<1>2. PICK s \in CallSteps : Goes(c, s)
  BY <1>0 DEF AnswersAtOnce, Gates, Rejects, Passes, SetsUp, Enters
<1>3. call' \in [Calls -> CallRecords] /\ \A d \in Calls : Shaped(d)'
  BY <1>0, <1>1, <1>2, GoesShape, GoesStays
<1>4. Meets(call[c].id) \subseteq Ids
  BY <1>1 DEF Meets, ShapeInv, ImageTypeOK
<1>5. CASE AnswersAtOnce(c)
  BY <1>0, <1>1, <1>3, <1>4, <1>5, WritesType
     DEF AnswersAtOnce, ShapeInv, ImageTypeOK, CallRecords
<1>6. CASE Gates(c)
  <2>1. preview' \in [Ids -> Calls \cup {None}]
    BY <1>1, <1>6 DEF Gates, Unseen, ShapeInv, ImageTypeOK
  <2>2. progress' \in [Ids -> Statuses] /\ old' \subseteq Ids
    BY <1>0, <1>1, <1>6, WritesType DEF Gates
  <2> QED
    BY <1>3, <1>4, <1>6, <2>1, <2>2 DEF Gates, ShapeInv, ImageTypeOK, CallRecords
<1>7. CASE Rejects(c)
  BY <1>0, <1>1, <1>3, <1>7, WritesType
     DEF Rejects, ShapeInv, ImageTypeOK, CallRecords
<1>8. CASE Passes(c) \/ SetsUp(c)
  BY <1>3, <1>8 DEF Passes, SetsUp, ShapeInv, ImageTypeOK, CallRecords
<1>9. CASE Enters(c)
  <2>1. late' \in [Calls -> Nat]
    BY <1>9 DEF Enters, Computes, ShapeInv, ImageTypeOK
  <2> QED
    BY <1>3, <1>9, <2>1 DEF Enters, ShapeInv, ImageTypeOK, CallRecords
<1> QED
  BY <1>5, <1>6, <1>7, <1>8, <1>9

\* The inference.
LEMMA BusyShape ==
  ASSUME ShapeInv, NEW c \in Calls,
         StepEnds(c) \/ Previews(c) \/ Publishes(c) \/ Composites(c) \/ Fails(c)
         \/ Finishes(c)
  PROVE  ShapeInv'
<1> USE DEF tables, told
<1>0. /\ Busy \cup {"answered"} \subseteq CallSteps
      /\ Terminal \cup {"running", "compositing"} \subseteq Statuses
      /\ call[c].step \in Busy
  BY DEF CallSteps, Admitted, Busy, Statuses, StepEnds, Previews, Publishes,
         Composites, Fails, Finishes
<1>1. call[c].id \in Ids /\ call[c] \in CallRecords
  BY <1>0 DEF ShapeInv, Shaped, Busy, ImageTypeOK, CallRecords
<1>2. CASE StepEnds(c)
  <2>1. call[c].done < MaxSteps
    BY <1>2 DEF StepEnds, ShapeInv, Shaped
  <2>2. PICK s \in CallSteps : Goes(c, s)
    BY <1>0, <1>2 DEF StepEnds, Busy
  <2>3. call' \in [Calls -> CallRecords] /\ \A d \in Calls : Shaped(d)'
    BY <1>0, <2>1, <2>2, GoesShape, GoesStays DEF Busy
  <2> QED
    BY <1>2, <2>3 DEF StepEnds, ShapeInv, ImageTypeOK, CallRecords
<1>3. CASE Previews(c)
  <2>1. call[c].done < MaxSteps
    BY <1>3 DEF Previews, ShapeInv, Shaped
  <2>2. call' \in [Calls -> CallRecords] /\ \A d \in Calls : Shaped(d)'
    <3>1. CASE Goes(c, "cancelling")
      BY <1>0, <2>1, <3>1, GoesShape, GoesStays DEF Busy
    <3>2. ASSUME NEW image \in BOOLEAN,
                 call' = [call EXCEPT ![c].step = "publishing", ![c].image = image]
          PROVE  call' \in [Calls -> CallRecords] /\ \A d \in Calls : Shaped(d)'
      <4> DEFINE r == [call[c] EXCEPT !.step = "publishing", !.image = image]
      <4>1. r \in CallRecords
        BY <1>0, <1>1 DEF CallRecords, Busy
      <4>2. /\ r.step = "publishing" /\ r.id = call[c].id
            /\ r.op = call[c].op /\ r.done = call[c].done
        BY <1>1 DEF CallRecords
      <4>3. call' = [call EXCEPT ![c] = r]
        BY <1>1, <3>2 DEF ShapeInv, ImageTypeOK
      <4>4. call[c].op \in Operations
        BY <1>3 DEF Previews, ShapeInv, Shaped
      <4> HIDE DEF r
      <4> QED
        BY <1>1, <2>1, <4>1, <4>2, <4>3, <4>4, PutShape DEF Shaped, ShapeInv
    <3> QED
      BY <1>3, <3>1, <3>2 DEF Previews
  <2> QED
    BY <1>3, <2>2 DEF Previews, ShapeInv, ImageTypeOK, CallRecords
<1>4. CASE Publishes(c)
  <2>1. call[c].done < MaxSteps /\ call[c].op \in Operations
    BY <1>4 DEF Publishes, ShapeInv, Shaped
  <2> DEFINE last == call[c].done + 1 = MaxSteps
             s == IF last THEN "returned" ELSE "computing"
             r == [call[c] EXCEPT !.step = s, !.done = @ + 1, !.image = FALSE]
  <2>2. call[c].done \in Nat /\ MaxSteps \in Nat
    BY <1>1, ImageConstantsOK DEF CallRecords
  <2>3. r \in CallRecords
    <3>1. s \in CallSteps /\ call[c].done + 1 \in 0 .. MaxSteps
      BY <1>0, <2>1, <2>2 DEF Busy
    <3> HIDE DEF s
    <3> QED
      BY <1>1, <3>1 DEF CallRecords
  <2>4. r.step = s /\ r.id = call[c].id /\ r.op = call[c].op
        /\ r.done = call[c].done + 1
    BY <1>1 DEF CallRecords
  <2>5. call' = [call EXCEPT ![c] = r]
    BY <1>1, <1>4 DEF Publishes, ShapeInv, ImageTypeOK
  <2>6. s = "computing" => call[c].done + 1 < MaxSteps
    BY <2>1, <2>2
  <2>7. s \in {"returned", "computing"}
    OBVIOUS
  <2> HIDE DEF r, s
  <2>8. call' \in [Calls -> CallRecords] /\ \A d \in Calls : Shaped(d)'
    BY <1>1, <2>1, <2>3, <2>4, <2>5, <2>6, <2>7, PutShape DEF Shaped, ShapeInv
  <2>9. late' \in [Calls -> Nat]
    BY <1>4 DEF Publishes, Computes, ShapeInv, ImageTypeOK
  <2>10. preview' \in [Ids -> Calls \cup {None}]
    BY <1>1, <1>4 DEF Publishes, ShapeInv, ImageTypeOK
  <2>11. progress' \in [Ids -> Statuses] /\ old' \subseteq Ids
    BY <1>0, <1>1, <1>4, WritesType DEF Publishes
  <2> QED
    BY <1>4, <2>8, <2>9, <2>10, <2>11 DEF Publishes, ShapeInv, ImageTypeOK, CallRecords
<1>5. CASE Composites(c)
  <2>1. call' \in [Calls -> CallRecords] /\ \A d \in Calls : Shaped(d)'
    BY <1>0, <1>5, GoesShape, GoesStays DEF Composites, Busy
  <2>2. [progress EXCEPT ![call[c].id] = "compositing"] \in [Ids -> Statuses]
    BY <1>0, <1>1 DEF ShapeInv, ImageTypeOK
  <2> QED
    BY <1>5, <2>1, <2>2, PruneType DEF Composites, ShapeInv, ImageTypeOK, CallRecords
<1>6. CASE Fails(c)
  <2>1. call' \in [Calls -> CallRecords] /\ \A d \in Calls : Shaped(d)'
    BY <1>0, <1>6, GoesShape, GoesStays DEF Fails, Busy
  <2> QED
    BY <1>6, <2>1 DEF Fails, ShapeInv, ImageTypeOK, CallRecords
<1>7. CASE Finishes(c)
  <2>1. call' \in [Calls -> CallRecords] /\ \A d \in Calls : Shaped(d)'
    BY <1>0, <1>7, GoesShape, GoesStays DEF Finishes
  <2>2. Outcome(c) \in Statuses
    BY <1>0 DEF Outcome, Terminal
  <2>3. progress' \in [Ids -> Statuses] /\ old' \subseteq Ids
    BY <1>1, <1>7, <2>2, WritesType DEF Finishes
  <2> QED
    BY <1>7, <2>1, <2>3 DEF Finishes, Left, ShapeInv, ImageTypeOK, CallRecords
<1> QED
  BY <1>2, <1>3, <1>4, <1>5, <1>6, <1>7

LEMMA CrashShape ==
  ASSUME ShapeInv, Crash
  PROVE  ShapeInv'
<1>1. ASSUME NEW c \in Calls
      PROVE  /\ call'[c] \in CallRecords
             /\ Shaped(c)'
  <2>1. call[c] \in CallRecords /\ Shaped(c)
    BY DEF ShapeInv, ImageTypeOK, CallRecords
  <2>2. CASE call[c].step \in Admitted
    <3>1. call'[c] = [call[c] EXCEPT !.step = "answered"]
      BY <2>2 DEF Crash
    <3> QED
      BY <2>1, <2>2, <3>1 DEF Shaped, CallRecords, CallSteps, Admitted, Busy
  <2>3. CASE call[c].step \notin Admitted
    BY <2>1, <2>3 DEF Crash, Shaped
  <2> QED
    BY <2>2, <2>3
<1>2. call' \in [Calls -> CallRecords]
  BY <1>1 DEF Crash
<1>3. progress' \in [Ids -> Statuses] /\ preview' \in [Ids -> Calls \cup {None}]
  BY DEF Crash, Statuses
<1>4. crashes' \in 0 .. MaxCrashes
  BY ImageConstantsOK DEF Crash, ShapeInv, ImageTypeOK
<1> QED
  BY <1>1, <1>2, <1>3, <1>4
     DEF Crash, told, ShapeInv, ImageTypeOK, CallRecords

LEMMA ShapeNext ==
  ASSUME ShapeInv, [ImageNext]_imageVars
  PROVE  ShapeInv'
<1>1. ASSUME NEW c \in Calls,
             (\E ask \in MayAsk[c] : Begins(c, ask[1], ask[2]))
             \/ Proceeds(c) \/ Fails(c)
      PROVE  ShapeInv'
  BY <1>1, ApiShape, GateShape, BusyShape DEF Proceeds
<1>2. CASE UNCHANGED imageVars
  BY <1>2 DEF imageVars, tables, told, ShapeInv, ImageTypeOK, Shaped
<1> QED
  BY <1>1, <1>2, TableShape, CrashShape DEF ImageNext

(***************************************************************************)
(* Every reachable state has the shapes the code writes.                   *)
(***************************************************************************)
THEOREM ImageTypeCorrect == ImageSpec => []ImageTypeOK
<1>1. ShapeInv /\ [ImageNext]_imageVars => ShapeInv'
  BY ShapeNext
<1>2. ShapeInv => ImageTypeOK
  BY DEF ShapeInv
<1> QED
  BY <1>1, <1>2, ShapeInit, PTL DEF ImageSpec

-----------------------------------------------------------------------------
(***************************************************************************)
(* A cancel binds.  A call that was told to stop stays among the cancelled *)
(* requests until its thread has looked, since an entry in use is never    *)
(* old enough to be pruned; and the one denoising step it may begin after  *)
(* that ends in a look, or in an error.                                    *)
(***************************************************************************)
Fresh == \A c \in Calls : call[c].step \in Admitted => call[c].id \notin old

ToldKnown(c) ==
  c \in asked =>
    /\ call[c].step \in Admitted \cup {"answered"}
    /\ call[c].step \in Admitted => call[c].id \in cancelled

LateOnce(c) ==
  \/ late[c] = 0
  \/ /\ late[c] = 1
     /\ c \in asked
     /\ call[c].step \in {"computing", "cancelling", "failing", "answered"}

ToldInv ==
  /\ ShapeInv
  /\ Fresh
  /\ \A c \in Calls : ToldKnown(c) /\ LateOnce(c)

LEMMA ToldInit == ImageInit => ToldInv
<1> SUFFICES ASSUME ImageInit PROVE ToldInv
  OBVIOUS
<1>1. ShapeInv
  BY ShapeInit
<1>2. Fresh /\ \A c \in Calls : ToldKnown(c) /\ LateOnce(c)
  BY DEF ImageInit, Fresh, ToldKnown, LateOnce
<1> QED
  BY <1>1, <1>2 DEF ToldInv

LEMMA ToldImplies == ToldInv => CancelBinds
BY DEF ToldInv, LateOnce, CancelBinds

\* One call moves; the others are told what they were told.
LEMMA ToldStep ==
  ASSUME ToldInv, ShapeInv', NEW c \in Calls,
         \A d \in Calls \ {c} : call'[d] = call[d] /\ late'[d] = late[d],
         asked' \ {c} = asked \ {c},
         cancelled \ old \subseteq cancelled',
         old' \subseteq old,
         call'[c].step \in Admitted => call'[c].id \notin old',
         ToldKnown(c)', LateOnce(c)'
  PROVE  ToldInv'
<1>1. ASSUME NEW d \in Calls \ {c} PROVE ToldKnown(d)' /\ LateOnce(d)'
  <2>1. ToldKnown(d) /\ LateOnce(d)
        /\ (call[d].step \in Admitted => call[d].id \notin old)
    BY DEF ToldInv, Fresh
  <2> QED
    BY <2>1 DEF ToldKnown, LateOnce
<1>2. Fresh'
  BY DEF ToldInv, Fresh
<1> QED
  BY <1>1, <1>2 DEF ToldInv

\* A call in the worker changes its step, or more, and not its id.
LEMMA InsideMoves ==
  ASSUME ShapeInv, NEW c \in Calls,
         \/ AnswersAtOnce(c) \/ Gates(c) \/ Rejects(c) \/ Passes(c) \/ SetsUp(c)
         \/ Enters(c) \/ StepEnds(c) \/ Previews(c) \/ Publishes(c)
         \/ Composites(c) \/ Fails(c) \/ Finishes(c) \/ Refuses(c)
  PROVE  /\ \A d \in Calls \ {c} : call'[d] = call[d]
         /\ call'[c].id = call[c].id
         /\ call[c].id \in Ids
         /\ call[c].step \in Admitted \cup {"sent"}
<1>1. call[c].step \in Admitted \cup {"sent"}
  BY DEF AnswersAtOnce, Gates, Rejects, Passes, SetsUp, Enters, StepEnds,
         Previews, Publishes, Composites, Fails, Finishes, Refuses, Admitted, Busy
<1>2. call[c].id \in Ids
  BY <1>1 DEF ShapeInv, Shaped, Admitted, Busy
<1>3. CASE Previews(c)
  BY <1>1, <1>2, <1>3 DEF Previews, Goes, ShapeInv, ImageTypeOK
<1>4. CASE Publishes(c)
  BY <1>1, <1>2, <1>4 DEF Publishes, ShapeInv, ImageTypeOK
<1>5. CASE ~Previews(c) /\ ~Publishes(c)
  <2>1. PICK s : Goes(c, s)
    BY <1>5 DEF AnswersAtOnce, Gates, Rejects, Passes, SetsUp, Enters, StepEnds,
                Composites, Fails, Finishes, Refuses
  <2> QED
    BY <1>1, <1>2, <2>1 DEF Goes, ShapeInv, ImageTypeOK
<1> QED
  BY <1>3, <1>4, <1>5

\* Where each of these steps takes the call.
LEMMA InsideSteps ==
  ASSUME ShapeInv, NEW c \in Calls
  PROVE  /\ AnswersAtOnce(c) \/ Rejects(c) \/ Finishes(c) \/ Refuses(c)
              => call'[c].step = "answered"
         /\ Gates(c) => call'[c].step \in {"answered", "weighing"}
         /\ Passes(c) => call'[c].step = "preparing"
         /\ SetsUp(c) => call'[c].step \in {"queued", "answered"}
         /\ Enters(c) => call'[c].step = "computing"
         /\ StepEnds(c) => call'[c].step = IF RequestCancelled(c) THEN "cancelling"
                                           ELSE "previewing"
         /\ Previews(c) => call'[c].step \in {"cancelling", "publishing"}
         /\ Publishes(c) => call'[c].step \in {"returned", "computing"}
         /\ Composites(c) => call'[c].step = "compositing"
         /\ Fails(c) => call'[c].step = "failing"
<1> USE DEF ShapeInv, ImageTypeOK, Goes
<1>1. AnswersAtOnce(c) \/ Rejects(c) \/ Finishes(c) \/ Refuses(c)
        => call'[c].step = "answered"
  BY DEF AnswersAtOnce, Rejects, Finishes, Refuses
<1>2. Gates(c) => call'[c].step \in {"answered", "weighing"}
  BY DEF Gates
<1>3. Passes(c) => call'[c].step = "preparing"
  BY DEF Passes
<1>4. SetsUp(c) => call'[c].step \in {"queued", "answered"}
  BY DEF SetsUp
<1>5. Enters(c) => call'[c].step = "computing"
  BY DEF Enters
<1>6. StepEnds(c) => call'[c].step = IF RequestCancelled(c) THEN "cancelling"
                                     ELSE "previewing"
  BY DEF StepEnds
<1>7. Previews(c) => call'[c].step \in {"cancelling", "publishing"}
  BY DEF Previews
<1>8. Publishes(c) => call'[c].step \in {"returned", "computing"}
  BY DEF Publishes
<1>9. Composites(c) => call'[c].step = "compositing"
  BY DEF Composites
<1>10. Fails(c) => call'[c].step = "failing"
  BY DEF Fails
<1> QED
  BY <1>1, <1>2, <1>3, <1>4, <1>5, <1>6, <1>7, <1>8, <1>9, <1>10

LEMMA ToldInside ==
  ASSUME ToldInv, ShapeInv', NEW c \in Calls,
         \/ AnswersAtOnce(c) \/ Gates(c) \/ Rejects(c) \/ Passes(c) \/ SetsUp(c)
         \/ Enters(c) \/ StepEnds(c) \/ Previews(c) \/ Publishes(c)
         \/ Composites(c) \/ Fails(c) \/ Finishes(c) \/ Refuses(c)
  PROVE  ToldInv'
<1> USE DEF tables, told
<1>0. ShapeInv /\ ToldKnown(c) /\ LateOnce(c)
      /\ (call[c].step \in Admitted => call[c].id \notin old)
  BY DEF ToldInv, Fresh
<1>1. /\ \A d \in Calls \ {c} : call'[d] = call[d]
      /\ call'[c].id = call[c].id
      /\ call[c].step \in Admitted \cup {"sent"}
  BY <1>0, InsideMoves
<1>2. asked' = asked /\ old' \subseteq old /\ cancelled \ old \subseteq cancelled'
  BY DEF AnswersAtOnce, Gates, Rejects, Passes, SetsUp, Enters, StepEnds,
         Previews, Publishes, Composites, Fails, Finishes, Refuses, Writes, Prune
<1>3. \A d \in Calls \ {c} : late'[d] = late[d]
  BY <1>0 DEF AnswersAtOnce, Gates, Rejects, Passes, SetsUp, Enters, StepEnds,
         Previews, Publishes, Composites, Fails, Finishes, Refuses, Computes,
         ShapeInv, ImageTypeOK
<1>4. "sent" \notin Admitted \cup {"answered"}
  BY DEF Admitted, Busy
<1>5. c \in asked => call[c].step \in Admitted /\ call[c].id \in cancelled \ old
  BY <1>0, <1>1, <1>4 DEF ToldKnown
<1>6. call'[c].step \in Admitted => call'[c].id \notin old'
  <2>1. CASE call[c].step \in Admitted
    BY <1>0, <1>1, <1>2, <2>1
  <2>2. CASE AnswersAtOnce(c) \/ Gates(c)
    BY <1>1, <2>2 DEF AnswersAtOnce, Gates, Writes
  <2>3. CASE Refuses(c)
    <3>1. call'[c].step = "answered"
      BY <1>0, <2>3, InsideSteps
    <3> QED
      BY <3>1 DEF Admitted, Busy
  <2>4. call[c].step = "sent" => AnswersAtOnce(c) \/ Gates(c) \/ Refuses(c)
    BY DEF Rejects, Passes, SetsUp, Enters, StepEnds, Previews, Publishes,
           Composites, Fails, Finishes
  <2> QED
    BY <1>1, <2>1, <2>2, <2>3, <2>4
<1>7. call'[c].step \in Admitted \cup {"answered"}
  <2>1. {"weighing", "preparing", "queued", "computing", "cancelling", "previewing",
         "publishing", "returned", "compositing", "failing"} = Admitted
    BY DEF Admitted, Busy
  <2> QED
    BY <1>0, <2>1, InsideSteps
<1>8. ToldKnown(c)'
  BY <1>1, <1>2, <1>5, <1>7 DEF ToldKnown
<1>9. LateOnce(c)'
  <2>1. CASE Enters(c) \/ Publishes(c)
    <3>1. call[c].step \in {"queued", "publishing"}
      BY <2>1 DEF Enters, Publishes
    <3>2. late[c] = 0
      BY <1>0, <3>1 DEF LateOnce
    <3>3. late'[c] = 0 \/ (late'[c] = 1 /\ c \in asked /\ Computes(c))
      BY <1>0, <2>1, <3>2 DEF Enters, Publishes, Computes, ShapeInv, ImageTypeOK
    <3>4. late'[c] = 1 => call'[c].step = "computing"
      <4>1. CASE Enters(c)
        BY <1>0, <4>1, InsideSteps
      <4>2. CASE Publishes(c)
        BY <1>0, <3>2, <4>2 DEF Publishes, ShapeInv, ImageTypeOK
      <4> QED
        BY <2>1, <4>1, <4>2
    <3> QED
      BY <1>2, <3>3, <3>4 DEF LateOnce
  <2>2. CASE ~Enters(c) /\ ~Publishes(c)
    <3>1. late'[c] = late[c]
      BY <2>2 DEF AnswersAtOnce, Gates, Rejects, Passes, SetsUp, StepEnds,
         Previews, Composites, Fails, Finishes, Refuses
    <3>2. CASE late[c] = 0
      BY <3>1, <3>2 DEF LateOnce
    <3>3. CASE late[c] # 0
      <4>1. late[c] = 1 /\ c \in asked
            /\ call[c].step \in {"computing", "cancelling", "failing"}
        BY <1>0, <1>1, <1>5, <3>3 DEF LateOnce, Admitted, Busy
      <4>2. RequestCancelled(c)
        BY <1>5, <4>1 DEF RequestCancelled
      <4>3. StepEnds(c) \/ Fails(c) \/ Finishes(c)
        BY <2>2, <4>1 DEF AnswersAtOnce, Gates, Rejects, Passes, SetsUp,
           Previews, Composites, Refuses
      <4>4. call'[c].step \in {"cancelling", "failing", "answered"}
        BY <1>0, <4>2, <4>3, InsideSteps
      <4> QED
        BY <1>2, <3>1, <4>1, <4>4 DEF LateOnce
    <3> QED
      BY <3>2, <3>3
  <2> QED
    BY <2>1, <2>2
<1> QED
  BY <1>1, <1>2, <1>3, <1>6, <1>8, <1>9, ToldStep

LEMMA ToldNext ==
  ASSUME ToldInv, [ImageNext]_imageVars
  PROVE  ToldInv'
<1> USE DEF tables, told
<1>0. ShapeInv /\ ShapeInv'
  BY ShapeNext DEF ToldInv
<1>1. ASSUME NEW c \in Calls,
             \/ \E ask \in MayAsk[c] : Begins(c, ask[1], ask[2])
             \/ Leases(c)
      PROVE  ToldInv'
  <2>1. /\ \A d \in Calls \ {c} : call'[d] = call[d]
        /\ call[c].step \in {"idle", "leasing"}
        /\ call'[c].step \in {"leasing", "sent", "done"}
    <3>1. CASE \E ask \in MayAsk[c] : Begins(c, ask[1], ask[2])
      BY <1>0, <3>1 DEF Begins, Rest, ShapeInv, ImageTypeOK
    <3>2. CASE Leases(c) /\ Goes(c, "sent")
      BY <1>0, <3>2 DEF Leases, Goes, ShapeInv, ImageTypeOK
    <3>3. CASE Leases(c) /\ Ends(c)
      BY <1>0, <3>3, EndsShape DEF Leases
    <3> QED
      BY <1>1, <3>1, <3>2, <3>3 DEF Leases
  <2>2. UNCHANGED <<late, asked, cancelled, old>>
    BY <1>1 DEF Begins, Leases
  <2>3. ToldKnown(c) /\ LateOnce(c)
    BY DEF ToldInv
  <2>4. c \notin asked /\ call'[c].step \notin Admitted
    BY <2>1, <2>3 DEF ToldKnown, Admitted, Busy
  <2>5. ToldKnown(c)' /\ LateOnce(c)'
    BY <2>2, <2>3, <2>4 DEF ToldKnown, LateOnce
  <2> QED
    BY <1>0, <2>1, <2>2, <2>4, <2>5, ToldStep
<1>2. ASSUME NEW c \in Calls, Returns(c) PROVE ToldInv'
  <2>1. /\ \A d \in Calls \ {c} : call'[d] = call[d]
        /\ call'[c].step = "done"
    BY <1>0, <1>2, EndsShape DEF Returns
  <2>2. /\ UNCHANGED <<cancelled, old>>
        /\ asked' = asked \ {c}
        /\ late'[c] = 0 /\ \A d \in Calls \ {c} : late'[d] = late[d]
    BY <1>0, <1>2 DEF Returns, ShapeInv, ImageTypeOK
  <2>3. ToldKnown(c)' /\ LateOnce(c)' /\ call'[c].step \notin Admitted
    BY <2>1, <2>2 DEF ToldKnown, LateOnce, Admitted, Busy
  <2> QED
    BY <1>0, <2>1, <2>2, <2>3, ToldStep
<1>4. ASSUME NEW c \in Calls,
         \/ AnswersAtOnce(c) \/ Gates(c) \/ Rejects(c) \/ Passes(c) \/ SetsUp(c)
         \/ Enters(c) \/ StepEnds(c) \/ Previews(c) \/ Publishes(c)
         \/ Composites(c) \/ Fails(c) \/ Finishes(c) \/ Refuses(c)
      PROVE ToldInv'
  BY <1>0, <1>4, ToldInside
<1>5. ASSUME NEW id \in Ids, Cancel(id) PROVE ToldInv'
  <2>1. /\ call' = call /\ late' = late /\ old' = {}
        /\ asked' = asked \cup Holders(id)
        /\ cancelled' = (cancelled \ old) \cup {id}
    BY <1>5 DEF Cancel
  <2>2. ASSUME NEW c \in Calls PROVE ToldKnown(c)' /\ LateOnce(c)'
    <3>1. ToldKnown(c) /\ LateOnce(c)
          /\ (call[c].step \in Admitted => call[c].id \notin old)
      BY DEF ToldInv, Fresh
    <3> QED
      BY <2>1, <3>1 DEF ToldKnown, LateOnce, Holders
  <2> QED
    BY <1>0, <2>1, <2>2 DEF ToldInv, Fresh
<1>6. ASSUME NEW id \in Ids, Ages(id) PROVE ToldInv'
  <2>1. UNCHANGED <<call, late, asked, cancelled>> /\ old' = old \cup {id}
        /\ Holders(id) = {}
    BY <1>6 DEF Ages
  <2>2. Fresh'
    BY <2>1 DEF ToldInv, Fresh, Holders
  <2> QED
    BY <1>0, <2>1, <2>2 DEF ToldInv, ToldKnown, LateOnce
<1>7. CASE Polls
  <2>1. UNCHANGED <<call, late, asked>> /\ old' = {} /\ cancelled' = cancelled \ old
    BY <1>7 DEF Polls, Prune
  <2> QED
    BY <1>0, <2>1 DEF ToldInv, Fresh, ToldKnown, LateOnce
<1>8. CASE Crash
  <2>1. /\ UNCHANGED <<late, asked>> /\ old' = {}
        /\ \A c \in Calls : call'[c] = IF call[c].step \in Admitted
                                       THEN [call[c] EXCEPT !.step = "answered"]
                                       ELSE call[c]
    BY <1>8 DEF Crash
  <2>2. ASSUME NEW c \in Calls
        PROVE  /\ call'[c].step \notin Admitted
               /\ call[c].step \in Admitted => call'[c].step = "answered"
               /\ call[c].step \notin Admitted => call'[c] = call[c]
    BY <1>0, <2>1 DEF Admitted, Busy, ShapeInv, ImageTypeOK
  <2>3. ASSUME NEW c \in Calls PROVE ToldKnown(c)' /\ LateOnce(c)'
    <3>1. ToldKnown(c) /\ LateOnce(c)
      BY DEF ToldInv
    <3> QED
      BY <2>1, <2>2, <3>1 DEF ToldKnown, LateOnce
  <2> QED
    BY <1>0, <2>1, <2>3 DEF ToldInv, Fresh
<1>9. CASE UNCHANGED imageVars
  BY <1>0, <1>9 DEF imageVars, ToldInv, Fresh, ToldKnown, LateOnce
<1> QED
  BY <1>1, <1>2, <1>4, <1>5, <1>6, <1>7, <1>8, <1>9 DEF ImageNext, Proceeds

(***************************************************************************)
(* For any number of denoising steps and wherever a cancel finds a call,   *)
(* at most one step begins after it.                                       *)
(***************************************************************************)
THEOREM CancelTheorem == ImageSpec => []CancelBinds
<1>1. ToldInv /\ [ImageNext]_imageVars => ToldInv'
  BY ToldNext
<1> QED
  BY <1>1, ToldInit, ToldImplies, PTL DEF ImageSpec

-----------------------------------------------------------------------------
(***************************************************************************)
(* What the endpoints tell of an id that one call at a time uses: its own  *)
(* preview, and no end before its end.                                     *)
(***************************************************************************)
Apart == \A c, d \in Calls :
  /\ call[c].step \in Admitted /\ call[d].step \in Admitted
  /\ call[c].id = call[d].id /\ c # d
  => call[c].id \in shared

OwnTables(c) ==
  call[c].step \in Admitted /\ call[c].id \notin shared =>
    /\ preview[call[c].id] \in {c, None}
    /\ progress[call[c].id] \notin Terminal

OwnInv ==
  /\ ShapeInv
  /\ Fresh
  /\ Apart
  /\ \A c \in Calls : OwnTables(c)

LEMMA OwnInit == ImageInit => OwnInv
<1> SUFFICES ASSUME ImageInit PROVE OwnInv
  OBVIOUS
<1>1. \A c \in Calls : call[c].step \notin Admitted
  BY DEF ImageInit, Rest, Admitted, Busy
<1> QED
  BY <1>1, ShapeInit DEF OwnInv, Fresh, Apart, OwnTables

LEMMA OwnImplies == OwnInv => PreviewIsOwn
BY DEF OwnInv, OwnTables, PreviewIsOwn, Holders

\* One call moves, or none, and nobody comes in.
LEMMA OwnStep ==
  ASSUME OwnInv, ShapeInv', Fresh', shared \subseteq shared',
         \A d \in Calls : call'[d].step \in Admitted =>
           call[d].step \in Admitted /\ call'[d].id = call[d].id,
         \A d \in Calls : call'[d].step \in Admitted /\ call[d].id \notin shared =>
           /\ preview'[call[d].id] \in {preview[call[d].id], d, None}
           /\ \/ progress'[call[d].id] = progress[call[d].id]
              \/ progress'[call[d].id] \notin Terminal
  PROVE  OwnInv'
<1>1. Apart'
  BY DEF OwnInv, Apart
<1>2. \A d \in Calls : OwnTables(d)'
  BY DEF OwnInv, OwnTables
<1> QED
  BY <1>1, <1>2 DEF OwnInv

LEMMA OwnInside ==
  ASSUME OwnInv, ShapeInv', Fresh', NEW c \in Calls,
         \/ AnswersAtOnce(c) \/ Gates(c) \/ Rejects(c) \/ Passes(c) \/ SetsUp(c)
         \/ Enters(c) \/ StepEnds(c) \/ Previews(c) \/ Publishes(c)
         \/ Composites(c) \/ Fails(c) \/ Finishes(c) \/ Refuses(c)
  PROVE  OwnInv'
<1> USE DEF tables, told
<1>0. ShapeInv /\ Fresh /\ Apart
      /\ progress \in [Ids -> Statuses] /\ preview \in [Ids -> Calls \cup {None}]
  BY DEF OwnInv, ShapeInv, ImageTypeOK
<1>1. /\ \A d \in Calls \ {c} : call'[d] = call[d]
      /\ call'[c].id = call[c].id
      /\ call[c].id \in Ids
      /\ call[c].step \in Admitted \cup {"sent"}
  BY <1>0, InsideMoves
<1>2. \A d \in Calls : call[d].step \in Admitted => call[d].id \in Ids
  BY <1>0 DEF ShapeInv, Shaped, Admitted, Busy
<1>3. CASE Gates(c)
  <2>1. /\ shared' = Meets(call[c].id)
        /\ preview' = [preview EXCEPT ![call[c].id] = None]
        /\ call[c].step = "sent"
        /\ progress' = [progress EXCEPT ![call[c].id] =
                          IF call[c].id \in cancelled THEN "cancelled"
                          ELSE "resource_check"]
        /\ call[c].id \in cancelled <=> call'[c].step = "answered"
    BY <1>0, <1>3 DEF Gates, Unseen, Writes, Goes, ShapeInv, ImageTypeOK
  <2>2. \A d \in Calls \ {c} : call[d].step \in Admitted /\ call[d].id = call[c].id
                               => call[c].id \in shared'
    BY <2>1 DEF Meets, Holders
  <2>3. shared \subseteq shared'
    BY <2>1 DEF Meets
  <2>4. Apart'
    BY <1>0, <1>1, <2>2, <2>3 DEF Apart
  <2>5. ASSUME NEW d \in Calls \ {c} PROVE OwnTables(d)'
    BY <1>0, <1>1, <1>2, <2>1, <2>2, <2>3 DEF OwnInv, OwnTables
  <2>6. OwnTables(c)'
    <3>1. call'[c].step \in Admitted => call[c].id \notin cancelled
      BY <2>1 DEF Admitted, Busy
    <3> QED
      BY <1>0, <1>1, <2>1, <3>1 DEF OwnTables, Terminal
  <2> QED
    BY <2>4, <2>5, <2>6 DEF OwnInv
<1>4. CASE AnswersAtOnce(c)
  <2>1. /\ shared' = Meets(call[c].id)
        /\ preview' = preview
        /\ call[c].step = "sent"
        /\ progress' = [progress EXCEPT ![call[c].id] = "succeeded"]
        /\ call'[c].step \notin Admitted
    BY <1>0, <1>4, InsideSteps DEF AnswersAtOnce, Writes, Admitted, Busy
  <2>2. \A d \in Calls \ {c} : call[d].step \in Admitted /\ call[d].id = call[c].id
                               => call[c].id \in shared'
    BY <2>1 DEF Meets, Holders
  <2>3. shared \subseteq shared'
    BY <2>1 DEF Meets
  <2>4. Apart'
    BY <1>0, <1>1, <2>1, <2>3 DEF Apart
  <2>5. ASSUME NEW d \in Calls PROVE OwnTables(d)'
    BY <1>0, <1>1, <1>2, <2>1, <2>2, <2>3 DEF OwnInv, OwnTables
  <2> QED
    BY <2>4, <2>5 DEF OwnInv
<1>5. CASE Refuses(c)
  <2>1. UNCHANGED <<shared, preview, progress>> /\ call'[c].step \notin Admitted
    BY <1>0, <1>5, InsideSteps DEF Refuses, Admitted, Busy
  <2> QED
    BY <1>1, <2>1, OwnStep
<1>6. CASE ~Gates(c) /\ ~AnswersAtOnce(c) /\ ~Refuses(c)
  <2>1. call[c].step \in Admitted /\ shared' = shared
    BY <1>6 DEF Rejects, Passes, SetsUp, Enters, StepEnds, Previews, Publishes,
                Composites, Fails, Finishes, Admitted, Busy
  <2>2. \A d \in Calls \ {c} :
          call[d].step \in Admitted /\ call[d].id \notin shared
          => call[d].id # call[c].id
    BY <1>0, <2>1 DEF Apart
  <2>3. \A d \in Calls : call[d].step \in Admitted => call[d].id \notin old
    BY <1>0 DEF Fresh
  <2>4. \A id \in Ids \ {call[c].id} : id \notin old =>
          progress'[id] = progress[id] /\ preview'[id] = preview[id]
    BY <1>0, <1>6 DEF Rejects, Passes, SetsUp, Enters, StepEnds, Previews, Publishes,
                Composites, Fails, Finishes, Writes, Prune
  <2>5. preview'[call[c].id] \in {preview[call[c].id], c, None}
    BY <1>0, <1>1, <1>6 DEF Rejects, Passes, SetsUp, Enters, StepEnds, Previews, Publishes,
                Composites, Fails, Finishes, Prune
  <2>6. call'[c].step \in Admitted =>
          \/ progress'[call[c].id] = progress[call[c].id]
          \/ progress'[call[c].id] \notin Terminal
    <3>1. CASE Rejects(c) \/ Finishes(c)
      <4>1. call'[c].step = "answered"
        BY <1>0, <3>1, InsideSteps
      <4> QED
        BY <4>1 DEF Admitted, Busy
    <3>2. CASE Publishes(c)
      BY <1>0, <1>1, <3>2 DEF Publishes, Writes, Terminal
    <3>3. CASE Composites(c)
      BY <1>0, <1>1, <3>3 DEF Composites, Prune, Terminal
    <3>4. CASE ~Rejects(c) /\ ~Finishes(c) /\ ~Publishes(c) /\ ~Composites(c)
      BY <1>6, <3>4 DEF Passes, SetsUp, Enters, StepEnds, Previews, Fails
    <3> QED
      BY <3>1, <3>2, <3>3, <3>4
  <2>7. ASSUME NEW d \in Calls, call'[d].step \in Admitted, call[d].id \notin shared
        PROVE  /\ preview'[call[d].id] \in {preview[call[d].id], d, None}
               /\ \/ progress'[call[d].id] = progress[call[d].id]
                  \/ progress'[call[d].id] \notin Terminal
    <3>1. CASE d = c
      BY <2>5, <2>6, <2>7, <3>1
    <3>2. CASE d # c
      BY <1>1, <1>2, <2>2, <2>3, <2>4, <2>7, <3>2
    <3> QED
      BY <3>1, <3>2
  <2> QED
    BY <1>1, <2>1, <2>7, OwnStep
<1> QED
  BY <1>3, <1>4, <1>5, <1>6

LEMMA OwnNext ==
  ASSUME OwnInv, Fresh', [ImageNext]_imageVars
  PROVE  OwnInv'
<1> USE DEF tables, told
<1>0. ShapeInv /\ ShapeInv' /\ Fresh
  BY ShapeNext DEF OwnInv
<1>1. ASSUME NEW c \in Calls,
             \/ \E ask \in MayAsk[c] : Begins(c, ask[1], ask[2])
             \/ Leases(c)
             \/ Returns(c)
      PROVE  OwnInv'
  <2>1. /\ \A d \in Calls \ {c} : call'[d] = call[d]
        /\ call'[c].step \in {"leasing", "sent", "done"}
    <3>1. CASE \E ask \in MayAsk[c] : Begins(c, ask[1], ask[2])
      BY <1>0, <3>1 DEF Begins, Rest, ShapeInv, ImageTypeOK
    <3>2. CASE Leases(c) /\ Goes(c, "sent")
      BY <1>0, <3>2 DEF Leases, Goes, ShapeInv, ImageTypeOK
    <3>3. CASE (Leases(c) /\ Ends(c)) \/ Returns(c)
      BY <1>0, <3>3, EndsShape DEF Leases, Returns
    <3> QED
      BY <1>1, <3>1, <3>2, <3>3 DEF Leases
  <2>2. call'[c].step \notin Admitted /\ UNCHANGED <<progress, preview, shared>>
    BY <1>1, <2>1 DEF Begins, Leases, Returns, Admitted, Busy
  <2> QED
    BY <1>0, <2>1, <2>2, OwnStep
<1>3. ASSUME NEW c \in Calls,
         \/ AnswersAtOnce(c) \/ Gates(c) \/ Rejects(c) \/ Passes(c) \/ SetsUp(c)
         \/ Enters(c) \/ StepEnds(c) \/ Previews(c) \/ Publishes(c)
         \/ Composites(c) \/ Fails(c) \/ Finishes(c) \/ Refuses(c)
      PROVE OwnInv'
  BY <1>0, <1>3, OwnInside
<1>4. ASSUME NEW d \in Calls, call[d].step \in Admitted
      PROVE  call[d].id \in Ids /\ call[d].id \notin old
  BY <1>0, <1>4 DEF ShapeInv, Shaped, Admitted, Busy, Fresh
<1>5. ASSUME NEW id \in Ids, Cancel(id) PROVE OwnInv'
  <2>1. call' = call /\ shared' = shared
    BY <1>5 DEF Cancel
  <2>2. ASSUME NEW d \in Calls, call[d].step \in Admitted
        PROVE  /\ preview'[call[d].id] = preview[call[d].id]
               /\ progress'[call[d].id] \in {progress[call[d].id], "cancel_requested"}
    BY <1>4, <1>5, <2>2 DEF Cancel
  <2> QED
    BY <1>0, <2>1, <2>2, OwnStep DEF Terminal
<1>6. ASSUME NEW id \in Ids, Ages(id) PROVE OwnInv'
  BY <1>0, <1>6, OwnStep DEF Ages
<1>7. CASE Polls
  <2>1. call' = call /\ shared' = shared
    BY <1>7 DEF Polls
  <2>2. ASSUME NEW d \in Calls, call[d].step \in Admitted
        PROVE  /\ preview'[call[d].id] = preview[call[d].id]
               /\ progress'[call[d].id] = progress[call[d].id]
    BY <1>4, <1>7, <2>2 DEF Polls, Prune
  <2> QED
    BY <1>0, <2>1, <2>2, OwnStep
<1>8. CASE Crash
  <2>1. \A d \in Calls : call'[d].step \notin Admitted
    BY <1>0, <1>8 DEF Crash, Admitted, Busy, ShapeInv, ImageTypeOK
  <2> QED
    BY <1>0, <1>8, <2>1, OwnStep DEF Crash
<1>9. CASE UNCHANGED imageVars
  BY <1>0, <1>9, OwnStep DEF imageVars
<1> QED
  BY <1>1, <1>3, <1>5, <1>6, <1>7, <1>8, <1>9 DEF ImageNext, Proceeds

(***************************************************************************)
(* No call is ever shown the preview of an earlier one.                    *)
(***************************************************************************)
THEOREM PreviewTheorem == ImageSpec => []PreviewIsOwn
<1>1. ToldInv /\ [ImageNext]_imageVars => ToldInv'
  BY ToldNext
<1>2. ToldInv /\ ToldInv' /\ OwnInv /\ [ImageNext]_imageVars => OwnInv'
  BY OwnNext DEF ToldInv
<1> QED
  BY <1>1, <1>2, ToldInit, OwnInit, OwnImplies, PTL DEF ImageSpec

\* Only a call that is in the worker, and has not ended, writes an entry that
\* is not its first; the endpoints write none that ended.
LEMMA FinalStep ==
  ASSUME OwnInv, [ImageNext]_imageVars, NEW id \in Ids
  PROVE  ~Reopens(id)
<1> SUFFICES ASSUME progress[id] \in Terminal, progress'[id] # progress[id],
                    progress'[id] # "none", id \notin old, id \notin shared
             PROVE  \E c \in Calls :
                      /\ call[c].id = id
                      /\ call[c].step = "sent" /\ call'[c].step # "sent"
  BY DEF Reopens
<1> USE DEF tables, told
<1>0. ShapeInv
  BY DEF OwnInv
<1>1. ASSUME NEW c \in Calls, call[c].step \in Admitted, call[c].id = id
      PROVE  FALSE
  BY <1>1 DEF OwnInv, OwnTables
<1>2. ASSUME NEW c \in Calls, AnswersAtOnce(c) \/ Gates(c)
      PROVE  /\ call[c].id = id
             /\ call[c].step = "sent" /\ call'[c].step # "sent"
  <2>1. call[c].step = "sent" /\ call'[c].step # "sent"
    BY <1>0, <1>2, InsideSteps DEF AnswersAtOnce, Gates
  <2>2. \E s : Writes(call[c].id, s)
    BY <1>2 DEF AnswersAtOnce, Gates
  <2>3. call[c].id = id
    BY <1>0, <2>2 DEF Writes, ShapeInv, ImageTypeOK
  <2> QED
    BY <2>1, <2>3
<1>3. ASSUME NEW c \in Calls, Rejects(c) \/ Publishes(c) \/ Finishes(c)
      PROVE  FALSE
  <2>1. call[c].step \in Admitted
    BY <1>3 DEF Rejects, Publishes, Finishes, Admitted, Busy
  <2>2. \E s : Writes(call[c].id, s)
    BY <1>3 DEF Rejects, Publishes, Finishes
  <2>3. call[c].id = id
    BY <1>0, <2>2 DEF Writes, ShapeInv, ImageTypeOK
  <2> QED
    BY <1>1, <2>1, <2>3
<1>4. ASSUME NEW c \in Calls, Composites(c)
      PROVE  FALSE
  <2>1. call[c].step \in Admitted
    BY <1>4 DEF Composites, Admitted, Busy
  <2>2. call[c].id = id
    BY <1>0, <1>4 DEF Composites, Prune, ShapeInv, ImageTypeOK
  <2> QED
    BY <1>1, <2>1, <2>2
<1>5. ASSUME NEW i \in Ids, Cancel(i) PROVE FALSE
  BY <1>0, <1>5 DEF Cancel, Cancellable, ShapeInv, ImageTypeOK
<1>6. ~Polls /\ ~Crash
  BY <1>0 DEF Polls, Prune, Crash, ShapeInv, ImageTypeOK
<1>7. PICK c \in Calls : progress' # progress =>
        \/ AnswersAtOnce(c) \/ Gates(c) \/ Rejects(c) \/ Publishes(c)
        \/ Finishes(c) \/ Composites(c)
  <2>1. progress' # progress
    OBVIOUS
  <2> QED
    BY <1>5, <1>6, <2>1
       DEF ImageNext, Proceeds, Begins, Leases, Returns, Refuses,
           Passes, SetsUp, Enters, StepEnds, Previews, Fails, Ages, imageVars
<1> QED
  BY <1>2, <1>3, <1>4, <1>7

(***************************************************************************)
(* Once a request is seen to have ended, it is not reopened.               *)
(***************************************************************************)
THEOREM FinalTheorem == ImageSpec => TerminalIsFinal
<1>1. ToldInv /\ [ImageNext]_imageVars => ToldInv'
  BY ToldNext
<1>2. ToldInv /\ ToldInv' /\ OwnInv /\ [ImageNext]_imageVars => OwnInv'
  BY OwnNext DEF ToldInv
<1>3. OwnInv /\ [ImageNext]_imageVars => [\A id \in Ids : ~Reopens(id)]_imageVars
  BY FinalStep
<1> QED
  BY <1>1, <1>2, <1>3, ToldInit, OwnInit, PTL DEF ImageSpec, TerminalIsFinal

-----------------------------------------------------------------------------
(***************************************************************************)
(* The start of the worker (WorkerLoad).  What the status file says goes   *)
(* with where the process is, and so do the pipelines it has.              *)
(***************************************************************************)
StatusInv ==
  /\ process \in {"loading", "saving"} =>
       statusFile \in {"starting", "loading", "loaded"}
  /\ process = "assigning" => statusFile = "ready"
  /\ process = "serving" =>
       \/ statusFile = "ready" /\ models = Pipelines
       \/ statusFile = "aborted" /\ models = {}
  /\ process \in {"down", "booting", "loading", "saving"} => models = {}

PlaceInv ==
  /\ gated => section \in 1 .. Sections
  /\ process \in {"down", "booting"} => section = 1 /\ ~gated
  /\ process = "saving" => gated

LoadTypeInv == LoadTypeOK /\ StatusInv /\ PlaceInv

LEMMA LoadTypeInit == LoadInit => LoadTypeInv
<1>1. 1 \in 1 .. Sections + 1 /\ 0 \in 0 .. MaxDeaths
  BY LoadConstantsOK
<1> QED
  BY <1>1 DEF LoadInit, LoadTypeInv, LoadTypeOK, StatusInv, PlaceInv

LEMMA SectionTaken ==
  ASSUME LoadTypeInv, gated, Takes
  PROVE  /\ section' \in 1 .. Sections + 1
         /\ gated' = FALSE /\ statusFile' = "loaded"
<1>1. section \in 1 .. Sections /\ Sections \in Nat
  BY LoadConstantsOK DEF LoadTypeInv, PlaceInv
<1> QED
  BY <1>1 DEF Takes

LEMMA LoadTypeNext ==
  ASSUME LoadTypeInv, [LoadNext]_loadVars PROVE LoadTypeInv'
<1> USE DEF LoadTypeInv, LoadTypeOK, StatusInv, PlaceInv
<1>0. /\ Sections \in Nat /\ 1 \in 1 .. Sections + 1 /\ MaxDeaths \in Nat
      /\ \A n \in 1 .. Sections + 1 : n <= Sections => n \in 1 .. Sections
  BY LoadConstantsOK
<1>1. CASE Boots \/ StartsLoading
  BY <1>1 DEF Boots, StartsLoading, StatusAtStart
<1>2. CASE GateOpens
  BY <1>0, <1>2 DEF GateOpens
<1>3. CASE GateAborts
  BY <1>0, <1>3 DEF GateAborts
<1>4. CASE LoadsFromCache \/ Saves \/ LoadsSection
  <2>1. /\ process' = "loading" /\ models' = models /\ models = {}
        /\ deaths' = deaths /\ cache' \in {cache, "whole"} /\ Takes /\ gated
    BY <1>4 DEF LoadsFromCache, Saves, LoadsSection
  <2>2. /\ section' \in 1 .. Sections + 1
        /\ gated' = FALSE /\ statusFile' = "loaded"
    BY <2>1, SectionTaken
  <2> QED
    BY <2>1, <2>2
<1>5. CASE Quantizes
  BY <1>5 DEF Quantizes
<1>6. CASE CacheBroken
  BY <1>0, <1>6 DEF CacheBroken, Exits
<1>7. CASE WorkerDies
  <2>1. deaths' \in 0 .. MaxDeaths
    BY <1>0, <1>7 DEF WorkerDies
  <2> QED
    BY <1>0, <1>7, <2>1 DEF WorkerDies, Exits
<1>8. CASE WritesReady
  <2>1. section' = section /\ process' = "assigning" /\ statusFile' = "ready"
        /\ UNCHANGED <<gated, models, cache, deaths>>
    BY <1>8 DEF WritesReady
  <2> QED
    BY <2>1
<1>11. CASE AssignsPipeline
  BY <1>11 DEF AssignsPipeline, Pipelines
<1>9. CASE MakesGenerator
  BY <1>9 DEF MakesGenerator
<1>10. CASE UNCHANGED loadVars
  BY <1>10 DEF loadVars
<1> QED
  BY <1>1, <1>2, <1>3, <1>4, <1>5, <1>6, <1>7, <1>8, <1>9, <1>10, <1>11
     DEF LoadNext, LoadGoesOn

(***************************************************************************)
(* The worker's start keeps its shapes, through its deaths and restarts.   *)
(***************************************************************************)
THEOREM LoadTypeCorrect == LoadSpec => []LoadTypeOK
<1>1. LoadTypeInv /\ [LoadNext]_loadVars => LoadTypeInv'
  BY LoadTypeNext
<1>2. LoadTypeInv => LoadTypeOK
  BY DEF LoadTypeInv
<1> QED
  BY <1>1, <1>2, LoadTypeInit, PTL DEF LoadSpec

(***************************************************************************)
(* What outlives the process is true of the process that serves.           *)
(***************************************************************************)
THEOREM StatusTheorem == LoadSpec => []StatusIsTrue
<1>1. LoadTypeInv /\ [LoadNext]_loadVars => LoadTypeInv'
  BY LoadTypeNext
<1>2. LoadTypeInv => StatusIsTrue
  BY DEF LoadTypeInv, StatusInv, StatusIsTrue, Pipelines
<1> QED
  BY <1>1, <1>2, LoadTypeInit, PTL DEF LoadSpec
==============================================================================
