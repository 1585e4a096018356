----------------------------- MODULE ImageWorker -----------------------------
(***************************************************************************)
(* An image edit from the image API to the worker and back:                *)
(* invoke_edit (image-api/app.py), WorkerClient (rpc.py) and the worker's  *)
(* /v1/invoke with its progress, preview and cancel endpoints              *)
(* (qwen-image-edit/api.py).                                               *)
(*                                                                         *)
(* A call is one client's request.  Its id is the client's to choose, so   *)
(* a retry may reuse it.  The worker runs each inference in a thread, one  *)
(* at a time under _pipeline_lock, and calls back after every denoising    *)
(* step; the tables of progress, previews and cancellations are read and   *)
(* written under a lock of their own, one access at a time.                *)
(***************************************************************************)
EXTENDS Naturals, FiniteSets

CONSTANTS
  Calls,
  Ids,
  MayAsk,       \* the ids and operations each call may choose from
  None,
  MaxSteps,     \* denoising steps of an inference
  MaxCrashes    \* bound on the worker's restarts

ASSUME ImageConstantsOK ==
  /\ None \notin Calls \cup Ids
  /\ MayAsk \in [Calls -> SUBSET (Ids \X {"edit", "inpaint"})]
  /\ MaxSteps \in Nat \ {0}
  /\ MaxCrashes \in Nat

VARIABLES
  call,        \* where each call stands
  pipe,        \* the call whose thread holds _pipeline_lock, or None
  progress,    \* _invoke_progress: the status of each id
  preview,     \* _invoke_previews: the call whose preview an id has, or None
  cancelled,   \* _cancelled_requests
  old,         \* ids not updated for PROGRESS_RETENTION_SECONDS
  crashes,     \* the worker's restarts
  asked,       \* history: calls told to stop that are still in the worker
  late,        \* history: denoising steps a call began since then
  shared       \* history: ids two calls had in the worker at once

tables == <<progress, preview, cancelled, old>>
told == <<asked, late, shared>>
imageVars == <<call, pipe, tables, crashes, told>>

Operations == {"edit", "inpaint"}
Terminal == {"succeeded", "failed", "cancelled"}
Statuses == Terminal \cup {"none", "resource_check", "running", "compositing",
                           "cancel_requested"}

\* Steps of a call inside the worker; an inference holds the pipeline in Busy.
Busy == {"computing", "previewing", "publishing", "returned", "compositing",
         "cancelling", "failing"}
Admitted == {"weighing", "preparing", "queued"} \cup Busy
CallSteps == {"idle", "leasing", "sent", "answered", "done"} \cup Admitted

Rest == [step |-> "idle", id |-> None, op |-> None, done |-> 0, image |-> FALSE]

Goes(c, s) == call' = [call EXCEPT ![c].step = s]

Ends(c) == call' = [call EXCEPT ![c] = [Rest EXCEPT !.step = "done"]]

Holders(id) == {c \in Calls : call[c].id = id /\ call[c].step \in Admitted}

Meets(id) == IF Holders(id) # {} THEN shared \cup {id} ELSE shared

-----------------------------------------------------------------------------
(***************************************************************************)
(* The tables.                                                             *)
(***************************************************************************)
\* _prune_progress, at the start of every stage and of every poll.
Prune(p, v, x) ==
  /\ progress' = [id \in Ids |-> IF id \in old THEN "none" ELSE p[id]]
  /\ preview' = [id \in Ids |-> IF id \in old THEN None ELSE v[id]]
  /\ cancelled' = x \ old
  /\ old' = {}

\* A status is written: whatever it was, the entry is fresh again.
Writes(id, status) ==
  /\ progress' = [progress EXCEPT ![id] = status]
  /\ old' = old \ {id}

\* A day passes over an entry; no call is in the worker for that long.
Ages(id) ==
  /\ progress[id] # "none"
  /\ Holders(id) = {}
  /\ old' = old \cup {id}
  /\ UNCHANGED <<call, pipe, progress, preview, cancelled, crashes, told>>

\* invoke_progress and invoke_preview
Polls ==
  /\ old # {}
  /\ Prune(progress, preview, cancelled)
  /\ UNCHANGED <<call, pipe, crashes, told>>

\* A bug the runs must detect: a finished request can still be cancelled.
CancellableAlways(id) == TRUE

Cancellable(id) == id \in old \/ progress[id] \notin Terminal

\* cancel_invoke: any id, known or not, unless it is known to have ended.
Cancel(id) ==
  /\ Cancellable(id)
  /\ progress' = [i \in Ids |-> IF i = id THEN "cancel_requested"
                                ELSE IF i \in old THEN "none" ELSE progress[i]]
  /\ preview' = [i \in Ids |-> IF i \in old THEN None ELSE preview[i]]
  /\ cancelled' = (cancelled \ old) \cup {id}
  /\ old' = {}
  /\ asked' = asked \cup Holders(id)
  /\ UNCHANGED <<call, pipe, crashes, late, shared>>

-----------------------------------------------------------------------------
(***************************************************************************)
(* The image API: invoke_edit takes a lease if it must, and posts.  What   *)
(* the lease does to vLLM is ImageLease's; the worker knows nothing of it, *)
(* nor of a client, or a lease, whose time is over.                        *)
(***************************************************************************)
Begins(c, id, op) ==
  /\ call[c].step = "idle"
  /\ call' = [call EXCEPT ![c] = [Rest EXCEPT !.step = "leasing", !.id = id,
                                             !.op = op]]
  /\ UNCHANGED <<pipe, tables, crashes, told>>

\* image_edit_lease: nothing to ask for, unless EXCLUSIVE_VLLM is set; then a
\* lease, or 409 or no answer from the coordinator, which ends the call.
Leases(c) ==
  /\ call[c].step = "leasing"
  /\ Goes(c, "sent") \/ Ends(c)
  /\ UNCHANGED <<pipe, tables, crashes, told>>

\* The answer, an error or an image, is back.
Returns(c) ==
  /\ call[c].step = "answered"
  /\ Ends(c)
  /\ asked' = asked \ {c}
  /\ late' = [late EXCEPT ![c] = 0]
  /\ UNCHANGED <<pipe, tables, crashes, shared>>

-----------------------------------------------------------------------------
(***************************************************************************)
(* The worker: edit and inpaint up to the pipeline's lock.                 *)
(***************************************************************************)
\* The model is not loaded, or the manifest, the image, the mask or the prompt
\* is no good: nothing is recorded.
Refuses(c) ==
  /\ call[c].step = "sent"
  /\ Goes(c, "answered")
  /\ UNCHANGED <<pipe, tables, crashes, told>>

\* inpaint with strength 0 has nothing to do, nor to ask.
AnswersAtOnce(c) ==
  /\ call[c].step = "sent"
  /\ call[c].op = "inpaint"
  /\ Writes(call[c].id, "succeeded")
  /\ Goes(c, "answered")
  /\ shared' = Meets(call[c].id)
  /\ UNCHANGED <<pipe, preview, cancelled, crashes, asked, late>>

\* A bug the runs must detect: the last call's preview stays.
UnseenKept(id) == preview

Unseen(id) == [preview EXCEPT ![id] = None]

\* _gate_inference: the headroom is measured, then the entry made afresh, ...
Gates(c) ==
  LET id == call[c].id
      stop == id \in cancelled
  IN /\ call[c].step = "sent"
     /\ Writes(id, IF stop THEN "cancelled" ELSE "resource_check")
     /\ preview' = Unseen(id)
     /\ Goes(c, IF stop THEN "answered" ELSE "weighing")
     /\ shared' = Meets(id)
     /\ UNCHANGED <<pipe, cancelled, crashes, asked, late>>

\* ... and the request rejected if there is too little, ...
Rejects(c) ==
  /\ call[c].step = "weighing"
  /\ Writes(call[c].id, "failed")
  /\ Goes(c, "answered")
  /\ UNCHANGED <<pipe, preview, cancelled, crashes, told>>

\* ... or let in.
Passes(c) ==
  /\ call[c].step = "weighing"
  /\ Goes(c, "preparing")
  /\ UNCHANGED <<pipe, tables, crashes, told>>

\* Only now are an edit's references read, an inpainting's box cropped, the
\* generator seeded: what fails ends the call, and its progress stays at
\* resource_check.
SetsUp(c) ==
  /\ call[c].step = "preparing"
  /\ \E s \in {"queued", "answered"} : Goes(c, s)
  /\ UNCHANGED <<pipe, tables, crashes, told>>

\* A denoising step begins.
Computes(c) == late' = IF c \in asked THEN [late EXCEPT ![c] = @ + 1] ELSE late

Enters(c) ==
  /\ call[c].step = "queued"
  /\ pipe = None
  /\ pipe' = c
  /\ Goes(c, "computing")
  /\ Computes(c)
  /\ UNCHANGED <<tables, crashes, asked, shared>>

-----------------------------------------------------------------------------
(***************************************************************************)
(* The inference: _make_step_callback after every step.                    *)
(***************************************************************************)
\* A bug the runs must detect: the callback asks the progress, which its own
\* "running" has overwritten.
RequestCancelledShown(c) == progress[call[c].id] = "cancel_requested"

RequestCancelled(c) == call[c].id \in cancelled

StepEnds(c) ==
  /\ call[c].step = "computing"
  /\ Goes(c, IF RequestCancelled(c) THEN "cancelling" ELSE "previewing")
  /\ UNCHANGED <<pipe, tables, crashes, told>>

\* A preview is decoded, or fails to be; the request is looked up again.
Previews(c) ==
  /\ call[c].step = "previewing"
  /\ IF RequestCancelled(c) THEN Goes(c, "cancelling")
     ELSE \E image \in BOOLEAN :
            call' = [call EXCEPT ![c].step = "publishing", ![c].image = image]
  /\ UNCHANGED <<pipe, tables, crashes, told>>

\* The step is published, over a "cancel_requested" too; the next one begins.
Publishes(c) ==
  LET last == call[c].done + 1 = MaxSteps
  IN /\ call[c].step = "publishing"
     /\ Writes(call[c].id, "running")
     /\ preview' = IF call[c].image THEN [preview EXCEPT ![call[c].id] = c]
                                    ELSE preview
     /\ call' = [call EXCEPT ![c].step = IF last THEN "returned" ELSE "computing",
                             ![c].done = @ + 1, ![c].image = FALSE]
     /\ IF last THEN UNCHANGED late ELSE Computes(c)
     /\ UNCHANGED <<pipe, cancelled, crashes, asked, shared>>

\* _set_progress_stage: an inpainting is put into its picture.
Composites(c) ==
  LET id == call[c].id
  IN /\ call[c].step = "returned"
     /\ call[c].op = "inpaint"
     /\ Prune([progress EXCEPT ![id] = "compositing"], preview, cancelled)
     /\ Goes(c, "compositing")
     /\ UNCHANGED <<pipe, crashes, told>>

\* The pipeline raises: out of memory, say.
Fails(c) ==
  /\ call[c].step \in {"computing", "returned", "compositing"}
  /\ Goes(c, "failing")
  /\ UNCHANGED <<pipe, tables, crashes, told>>

\* A bug the runs must detect: what was raised is recorded as it is.
OutcomeRaised(c) == call[c].step

Outcome(c) ==
  CASE call[c].step = "cancelling" -> "cancelled"
    [] call[c].step = "failing" -> "failed"
    [] OTHER -> "succeeded"

\* A bug the runs must detect: a cancelled inference keeps the pipeline.
LeftByHand(c) == IF call[c].step = "cancelling" THEN pipe ELSE None

Left(c) == None

\* _finish_progress or _record_cancelled, and the thread leaves the lock.
Finishes(c) ==
  /\ \/ call[c].step \in {"cancelling", "failing", "compositing"}
     \/ call[c].step = "returned" /\ call[c].op = "edit"
  /\ Writes(call[c].id, Outcome(c))
  /\ pipe' = Left(c)
  /\ Goes(c, "answered")
  /\ UNCHANGED <<preview, cancelled, crashes, told>>

\* The worker dies: its tables go, and its calls are answered 503.
Crash ==
  /\ crashes < MaxCrashes
  /\ crashes' = crashes + 1
  /\ call' = [c \in Calls |-> IF call[c].step \in Admitted
                              THEN [call[c] EXCEPT !.step = "answered"]
                              ELSE call[c]]
  /\ pipe' = None
  /\ progress' = [id \in Ids |-> "none"]
  /\ preview' = [id \in Ids |-> None]
  /\ cancelled' = {}
  /\ old' = {}
  /\ UNCHANGED told

-----------------------------------------------------------------------------
ImageInit ==
  /\ call = [c \in Calls |-> Rest]
  /\ pipe = None
  /\ progress = [id \in Ids |-> "none"]
  /\ preview = [id \in Ids |-> None]
  /\ cancelled = {}
  /\ old = {}
  /\ crashes = 0
  /\ asked = {}
  /\ late = [c \in Calls |-> 0]
  /\ shared = {}

\* What the API's task and the worker's thread of a call do by themselves.
Proceeds(c) ==
  \/ Leases(c)
  \/ Returns(c)
  \/ Refuses(c)
  \/ AnswersAtOnce(c)
  \/ Gates(c)
  \/ Rejects(c)
  \/ Passes(c)
  \/ SetsUp(c)
  \/ Enters(c)
  \/ StepEnds(c)
  \/ Previews(c)
  \/ Publishes(c)
  \/ Composites(c)
  \/ Finishes(c)

ImageNext ==
  \/ \E c \in Calls : \E ask \in MayAsk[c] : Begins(c, ask[1], ask[2])
  \/ \E c \in Calls : Proceeds(c)
  \/ \E c \in Calls : Fails(c)
  \/ \E id \in Ids : Cancel(id)
  \/ \E id \in Ids : Ages(id)
  \/ Polls
  \/ Crash

ImageSpec == ImageInit /\ [][ImageNext]_imageVars

\* Threads and tasks go on; the pipeline's steps end.
ImageFairness == \A c \in Calls : WF_imageVars(Proceeds(c))

ImageFairSpec == ImageSpec /\ ImageFairness

-----------------------------------------------------------------------------
ImageTypeOK ==
  /\ call \in [Calls -> [step : CallSteps, id : Ids \cup {None},
                         op : Operations \cup {None}, done : 0 .. MaxSteps,
                         image : BOOLEAN]]
  /\ pipe \in Calls \cup {None}
  /\ progress \in [Ids -> Statuses]
  /\ preview \in [Ids -> Calls \cup {None}]
  /\ cancelled \subseteq Ids
  /\ old \subseteq Ids
  /\ crashes \in 0 .. MaxCrashes
  /\ asked \subseteq Calls
  /\ late \in [Calls -> Nat]
  /\ shared \subseteq Ids

(***************************************************************************)
(* A call begins at most one denoising step after it was told to stop,     *)
(* wherever the cancel finds it once it is in: waiting for the pipeline, in*)
(* a step, in its preview, or between the last look and the "running" that *)
(* hides it.  ("inference stops at the next diffusion-step boundary")      *)
(***************************************************************************)
CancelBinds == \A c \in Calls : late[c] <= 1

(***************************************************************************)
(* A preview is never one of an earlier call with the same id, once a new  *)
(* call is in; but for ids that two calls used at once.                    *)
(***************************************************************************)
PreviewIsOwn ==
  \A id \in Ids : id \notin shared =>
    \A c \in Holders(id) : preview[id] \in {c, None}

\* An end is overwritten, by something else than the call that uses the id anew.
Reopens(id) ==
  /\ progress[id] \in Terminal
  /\ progress'[id] \notin {progress[id], "none"}
  /\ id \notin old \cup shared
  /\ ~\E c \in Calls : /\ call[c].id = id
                      /\ call[c].step = "sent" /\ call'[c].step # "sent"

(***************************************************************************)
(* Whoever saw a request succeeded, failed or cancelled sees nothing else  *)
(* of it until it is forgotten or its id is used again: neither a late     *)
(* cancel nor a late callback reopens it.                                  *)
(***************************************************************************)
TerminalIsFinal == [][\A id \in Ids : ~Reopens(id)]_imageVars

(***************************************************************************)
(* Again and again no call is under way: whatever fails, is cancelled or   *)
(* crashes, one that was begun ends, and the lock it waits for was given   *)
(* back.                                                                   *)
(***************************************************************************)
EveryCallEnds == []<>(\A c \in Calls : call[c].step \in {"idle", "done"})
=============================================================================
