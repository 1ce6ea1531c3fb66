---------------------------- MODULE ModelLifecycle ----------------------------
(***************************************************************************)
(* The life of a model in one API process: background trainings publish    *)
(* into STATE, persist a run directory, move the LATEST pointer and        *)
(* register an ONNX runtime; predictions read STATE and the runtime        *)
(* registry at two different moments; the process may crash and load       *)
(* LATEST again.  Trainings run in threads, so any two of them interleave. *)
(*                                                                         *)
(* A training session, its run id, its run directory, its fitted estimator *)
(* and its ONNX export are all named by the job that made them.            *)
(***************************************************************************)
EXTENDS Naturals, FiniteSets, Sequences

CONSTANTS Jobs,        \* the training sessions ever started
          Kinds,       \* backend kinds
          Requests,    \* prediction requests
          None,        \* no model, no runtime, no active key
          Absent,      \* a file that does not exist
          Empty,       \* a pointer file of length zero
          MaxActive,   \* bound: trainings in flight at once
          MaxRows,     \* bound: rows answered by one streaming request
          MaxCrashes   \* bound: crashes of the process

ASSUME LifecycleAssumption == /\ {None, Absent, Empty, "new", "gone"} \cap (Jobs \cup Kinds) = {}
                              /\ Absent # Empty
                              /\ MaxActive \in Nat
                              /\ MaxRows \in Nat
                              /\ MaxCrashes \in Nat

VARIABLES up,        \* the process is running
          model,     \* STATE.model: the job whose handle is published, or None
          kindOf,    \* the backend kind each training is configured with
          status,    \* STATE.tasks[j].status
          cause,     \* what training j raised: the kind of STATE.tasks[j].error
          runtimes,  \* REGISTRY._runtimes: the job whose export each kind holds
          active,    \* REGISTRY._active_key
          pc,        \* where training j is
          fd,        \* which file training j holds open for writing its run id
          runDir,    \* what is on disk of runs/<run id>/
          latest,    \* the file runs/LATEST
          tmp,       \* the file runs/LATEST.tmp
          handle,    \* the model each request captured
          points,    \* the estimators that computed the points it was answered
          crashes,   \* crashes so far
          calm       \* history: trainings never overlapped and nothing failed
                     \* after its model was published

memory == <<model, status, cause, runtimes, active>>
disk == <<runDir, latest, tmp>>
requests == <<handle, points>>
vars == <<up, kindOf, memory, pc, fd, disk, requests, crashes, calm>>

\* A training is in flight from the first statement of its worker to the last.
InFlight == {"fit", "save", "writing", "open", "write", "rename", "emit", "export",
             "activate", "push", "succeed", "fail"}
Places == {"idle", "queued", "over"} \cup InFlight

Causes == {"none", "fit", "save", "artifact", "push"}

TrainingNow == {j \in Jobs : pc[j] \in InFlight}

Init == /\ up = FALSE
        /\ model = None
        /\ kindOf \in [Jobs -> Kinds]
        /\ status = [j \in Jobs |-> "unknown"]
        /\ cause = [j \in Jobs |-> "none"]
        /\ runtimes = [k \in Kinds |-> None]
        /\ active = None
        /\ pc = [j \in Jobs |-> "idle"]
        /\ fd = [j \in Jobs |-> "none"]
        /\ runDir = [j \in Jobs |-> "absent"]
        /\ latest = Absent
        /\ tmp = Absent
        /\ handle = [q \in Requests |-> "new"]
        /\ points = [q \in Requests |-> <<>>]
        /\ crashes = 0
        /\ calm = TRUE

\* As in Batcher, an operator named X_<fault> is a faulty variant of X that no action
\* uses.

Goto(j, place) == pc' = [pc EXCEPT ![j] = place]

\* Training j raises: the worker's `except` takes over.
Raise(j, why) == /\ Goto(j, "fail")
                 /\ cause' = [cause EXCEPT ![j] = why]

-----------------------------------------------------------------------------
(* The process.                                                            *)

\* The autoload that does not look whether there is a pointer.
Boot_unchecked == /\ ~up
                  /\ up' = TRUE
                  /\ model' = latest
                  /\ UNCHANGED <<kindOf, status, cause, runtimes, active, pc, fd, disk,
                                 requests, crashes, calm>>

\* The autoload that takes any finished run directory it finds.
Boot_any_run == /\ ~up
                /\ up' = TRUE
                /\ model' \in {j \in Jobs : runDir[j] = "complete"} \cup {None}
                /\ UNCHANGED <<kindOf, status, cause, runtimes, active, pc, fd, disk,
                               requests, crashes, calm>>

\* The lifespan's autoload: read LATEST, rebuild the handle from that directory.
\* No pointer, an empty one, or any exception leaves the process without a model;
\* of a half-written directory it may or may not make a handle.
Boot == /\ ~up
        /\ up' = TRUE
        /\ IF latest \in Jobs
             THEN \/ model' = latest /\ runDir[latest] # "absent"
                  \/ model' = None /\ runDir[latest] # "complete"
             ELSE model' = None
        /\ UNCHANGED <<kindOf, status, cause, runtimes, active, pc, fd, disk, requests, crashes, calm>>

\* Everything but the disk is lost: STATE, the registry, the task table, the
\* threads in flight and the requests.
Crash == /\ up
         /\ crashes < MaxCrashes
         /\ crashes' = crashes + 1
         /\ up' = FALSE
         /\ model' = None
         /\ status' = [j \in Jobs |-> "unknown"]
         /\ cause' = [j \in Jobs |-> "none"]
         /\ runtimes' = [k \in Kinds |-> None]
         /\ active' = None
         /\ pc' = [j \in Jobs |-> IF pc[j] = "idle" THEN "idle" ELSE "over"]
         /\ fd' = [j \in Jobs |-> "none"]
         /\ handle' = [q \in Requests |-> IF handle[q] = "new" THEN "new" ELSE "gone"]
         /\ UNCHANGED <<kindOf, disk, points, calm>>

-----------------------------------------------------------------------------
(* One training session.                                                   *)

\* POST /train: record the task, hand it to the background pool.
Enqueue(j) == /\ up
              /\ pc[j] = "idle"
              /\ status' = [status EXCEPT ![j] = "pending"]
              /\ Goto(j, "queued")
              /\ UNCHANGED <<up, kindOf, model, cause, runtimes, active, fd, disk, requests, crashes, calm>>

\* A pool thread picks the task up.
Begin(j) == /\ pc[j] = "queued"
            /\ Cardinality(TrainingNow) < MaxActive
            /\ status' = [status EXCEPT ![j] = "running"]
            /\ Goto(j, "fit")
            /\ calm' = (calm /\ TrainingNow = {})
            /\ UNCHANGED <<up, kindOf, model, cause, runtimes, active, fd, disk, requests, crashes>>

\* The worker without its `except`: the thread dies with the exception.
FitFails_uncaught(j) == /\ pc[j] = "fit"
                        /\ Goto(j, "over")
                        /\ UNCHANGED <<up, kindOf, memory, fd, disk, requests, crashes, calm>>

\* Reading the data, fitting, calibrating or opening the MLflow run raises.
FitFails(j) == /\ pc[j] = "fit"
               /\ Raise(j, "fit")
               /\ UNCHANGED <<up, kindOf, model, status, runtimes, active, fd, disk, requests, crashes, calm>>

\* _publish_to_state: the fitted handle is live before anything is persisted.
Publish(j) == /\ pc[j] = "fit"
              /\ model' = j
              /\ Goto(j, "save")
              /\ UNCHANGED <<up, kindOf, status, cause, runtimes, active, fd, disk, requests, crashes, calm>>

\* The pointer moves before the directory is finished.
BeginSave_pointer_first(j) == /\ pc[j] = "save"
                              /\ runDir' = [runDir EXCEPT ![j] = "partial"]
                              /\ Goto(j, "open")
                              /\ UNCHANGED <<up, kindOf, memory, fd, latest, tmp, requests,
                                             crashes, calm>>

\* save_full_state, 1-4: weights, manifest, background, calibration ...
BeginSave(j) == /\ pc[j] = "save"
                /\ runDir' = [runDir EXCEPT ![j] = "partial"]
                /\ Goto(j, "writing")
                /\ UNCHANGED <<up, kindOf, memory, fd, latest, tmp, requests, crashes, calm>>

EndSave(j) == /\ pc[j] = "writing"
              /\ runDir' = [runDir EXCEPT ![j] = "complete"]
              /\ Goto(j, "open")
              /\ UNCHANGED <<up, kindOf, memory, fd, latest, tmp, requests, crashes, calm>>

\* ... or the disk refuses, there or when the run id is written.
SaveFails(j) == /\ pc[j] \in {"writing", "write"}
                /\ Raise(j, "save")
                /\ fd' = [fd EXCEPT ![j] = "none"]
                /\ calm' = FALSE
                /\ UNCHANGED <<up, kindOf, model, status, runtimes, active, disk, requests, crashes>>

\* LATEST written in place.
OpenPointer_in_place(j) == /\ pc[j] = "open"
                           /\ latest' = Empty
                           /\ fd' = [fd EXCEPT ![j] = "latest"]
                           /\ Goto(j, "write")
                           /\ UNCHANGED <<up, kindOf, memory, runDir, tmp, requests, crashes, calm>>

\* save_full_state, 5: write_text opens LATEST.tmp, creating or truncating it.  The
\* name is shared by all trainings.
OpenPointer(j) == /\ pc[j] = "open"
                  /\ tmp' = Empty
                  /\ fd' = [fd EXCEPT ![j] = "tmp"]
                  /\ Goto(j, "write")
                  /\ UNCHANGED <<up, kindOf, memory, runDir, latest, requests, crashes, calm>>

\* The run id goes to the file that was opened, whatever its name is by now.
WritePointer(j) == /\ pc[j] = "write"
                   /\ tmp' = IF fd[j] = "tmp" THEN j ELSE tmp
                   /\ latest' = IF fd[j] = "latest" THEN j ELSE latest
                   /\ fd' = [fd EXCEPT ![j] = "none"]
                   /\ Goto(j, "rename")
                   /\ UNCHANGED <<up, kindOf, memory, runDir, requests, crashes, calm>>

\* tmp_pointer.replace(pointer): whoever has LATEST.tmp open has LATEST open now,
\* and whoever had the old LATEST open writes to a file without a name.
RenamePointer(j) == /\ pc[j] = "rename"
                    /\ tmp # Absent
                    /\ latest' = tmp
                    /\ tmp' = Absent
                    /\ fd' = [i \in Jobs |-> CASE fd[i] = "tmp" -> "latest"
                                               [] fd[i] = "latest" -> "orphan"
                                               [] OTHER -> fd[i]]
                    /\ Goto(j, "emit")
                    /\ UNCHANGED <<up, kindOf, memory, runDir, requests, crashes, calm>>

\* FileNotFoundError: another training renamed the shared name first.
RenameFails(j) == /\ pc[j] = "rename"
                  /\ tmp = Absent
                  /\ Raise(j, "save")
                  /\ calm' = FALSE
                  /\ UNCHANGED <<up, kindOf, model, status, runtimes, active, fd, disk, requests, crashes>>

\* The MLflow upload and provenance.json, both outside any try; the model card and
\* the lineage edge swallow their exceptions.
Emit(j) == /\ pc[j] = "emit"
           /\ Goto(j, "export")
           /\ UNCHANGED <<up, kindOf, memory, fd, disk, requests, crashes, calm>>

EmitFails(j) == /\ pc[j] = "emit"
                /\ Raise(j, "artifact")
                /\ calm' = FALSE
                /\ UNCHANGED <<up, kindOf, model, status, runtimes, active, fd, disk, requests, crashes>>

\* register() as setdefault: the first runtime of a kind stays.
Register_setdefault(j) ==
  /\ pc[j] = "export"
  /\ runtimes' = [runtimes EXCEPT ![kindOf[j]] = IF @ = None THEN j ELSE @]
  /\ active' = IF active = None THEN kindOf[j] ELSE active
  /\ Goto(j, "activate")
  /\ UNCHANGED <<up, kindOf, model, status, cause, fd, disk, requests, crashes, calm>>

\* Export and REGISTRY.register: the first runtime ever becomes the active one.
Register(j) == /\ pc[j] = "export"
               /\ runtimes' = [runtimes EXCEPT ![kindOf[j]] = j]
               /\ active' = IF active = None THEN kindOf[j] ELSE active
               /\ Goto(j, "activate")
               /\ UNCHANGED <<up, kindOf, model, status, cause, fd, disk, requests, crashes, calm>>

\* The converter is missing or refuses: logged, and training goes on.
ExportFails(j) == /\ pc[j] = "export"
                  /\ Goto(j, "push")
                  /\ calm' = FALSE
                  /\ UNCHANGED <<up, kindOf, memory, fd, disk, requests, crashes>>

Activate(j) == /\ pc[j] = "activate"
               /\ active' = kindOf[j]
               /\ Goto(j, "push")
               /\ UNCHANGED <<up, kindOf, model, status, cause, runtimes, fd, disk, requests, crashes, calm>>

\* The mirror to the bucket, when one is configured.
Push(j) == /\ pc[j] = "push"
           /\ Goto(j, "succeed")
           /\ UNCHANGED <<up, kindOf, memory, fd, disk, requests, crashes, calm>>

PushFails(j) == /\ pc[j] = "push"
                /\ Raise(j, "push")
                /\ calm' = FALSE
                /\ UNCHANGED <<up, kindOf, model, status, runtimes, active, fd, disk, requests, crashes>>

\* The worker reports into the task record.
Succeed(j) == /\ pc[j] = "succeed"
              /\ status' = [status EXCEPT ![j] = "succeeded"]
              /\ Goto(j, "over")
              /\ UNCHANGED <<up, kindOf, model, cause, runtimes, active, fd, disk, requests, crashes, calm>>

Fail(j) == /\ pc[j] = "fail"
           /\ status' = [status EXCEPT ![j] = "failed"]
           /\ Goto(j, "over")
           /\ UNCHANGED <<up, kindOf, model, cause, runtimes, active, fd, disk, requests, crashes, calm>>

Training(j) == \/ Begin(j) \/ FitFails(j) \/ Publish(j)
               \/ BeginSave(j) \/ EndSave(j) \/ SaveFails(j)
               \/ OpenPointer(j) \/ WritePointer(j) \/ RenamePointer(j) \/ RenameFails(j)
               \/ Emit(j) \/ EmitFails(j)
               \/ Register(j) \/ ExportFails(j) \/ Activate(j)
               \/ Push(j) \/ PushFails(j)
               \/ Succeed(j) \/ Fail(j)

-----------------------------------------------------------------------------
(* Predictions.                                                            *)

\* _point_predict: the active runtime if it is of the handle's kind, else the
\* handle's own estimator.
Point(h) == IF active # None /\ kindOf[runtimes[active]] = kindOf[h]
              THEN runtimes[active]
              ELSE h

\* The dependency captures STATE.model for the whole request.
Capture(q) == /\ up
              /\ handle[q] = "new"
              /\ handle' = [handle EXCEPT ![q] = model]
              /\ UNCHANGED <<up, kindOf, memory, pc, fd, disk, points, crashes, calm>>

\* One row is answered: the point from whatever Point() finds at this moment, the
\* interval from the captured handle.  A stream yields between rows.
Answer(q) == /\ handle[q] \in Jobs
             /\ Len(points[q]) < MaxRows
             /\ points' = [points EXCEPT ![q] = Append(@, Point(handle[q]))]
             /\ UNCHANGED <<up, kindOf, memory, pc, fd, disk, handle, crashes, calm>>

-----------------------------------------------------------------------------
Next == \/ Boot \/ Crash
        \/ \E j \in Jobs : Enqueue(j) \/ Training(j)
        \/ \E q \in Requests : Capture(q) \/ Answer(q)

\* The pool runs every task it was given, and a thread that runs makes progress.
Fairness == \A j \in Jobs : WF_vars(Training(j))

Spec == Init /\ [][Next]_vars /\ Fairness

-----------------------------------------------------------------------------
(* Properties.                                                             *)

TypeOK == /\ up \in BOOLEAN
          /\ model \in Jobs \cup {None}
          /\ kindOf \in [Jobs -> Kinds]
          /\ status \in [Jobs -> {"unknown", "pending", "running", "succeeded", "failed"}]
          /\ cause \in [Jobs -> Causes]
          /\ runtimes \in [Kinds -> Jobs \cup {None}]
          /\ active \in Kinds \cup {None}
          /\ pc \in [Jobs -> Places]
          /\ fd \in [Jobs -> {"none", "tmp", "latest", "orphan"}]
          /\ runDir \in [Jobs -> {"absent", "partial", "complete"}]
          /\ latest \in Jobs \cup {Absent, Empty}
          /\ tmp \in Jobs \cup {Absent, Empty}
          /\ handle \in [Requests -> Jobs \cup {None, "new", "gone"}]
          /\ points \in [Requests -> Seq(Jobs)]
          /\ crashes \in 0..MaxCrashes
          /\ calm \in BOOLEAN

\* Whatever the interleaving of savers sharing LATEST.tmp, and wherever the process
\* dies, LATEST never names a run that is not completely on disk: the next start
\* cannot load half a model (dispatcher.py:54-104, lifespan.py:50-77).
LatestComplete == latest \in Jobs => runDir[latest] = "complete"

\* A task that reports success can be served again after a crash: its directory is
\* complete, and some complete run has been named by LATEST or is about to be
\* (services/train.py:49-51).
SucceededIsDurable ==
  \A j \in Jobs : status[j] = "succeeded" => runDir[j] = "complete" /\ latest # Absent

\* Trainings one at a time, and nothing failing after publication: between
\* trainings a restart would load exactly what is served, and the ONNX point and
\* the calibration of an answer come from the same fit (train.py:135-161,
\* predict.py:74-86).
AtRestCoherent ==
  calm /\ up /\ TrainingNow = {} /\ model # None => latest = model /\ Point(model) = model

\* One saver at a time: a reader of LATEST never finds it empty, wherever the
\* savers before it crashed (dispatcher.py:97-101).
PointerAtomicWhenCalm == calm => latest # Empty

\* The process keeps the promises of ModelStore, whatever interleaves and wherever it
\* dies: a model is served before it is kept and kept before LATEST names it, a restart
\* serves what LATEST named and nothing else, and every report is made once, of a run
\* that is there; while trainings do not overlap, a success is exactly what a restart
\* would serve, and a failure leaves nothing behind (train.py:193-196, 308-312,
\* dispatcher.py:54-104, lifespan.py:50-77, services/train.py:46-62).
Store == INSTANCE ModelStore
           WITH serving <- up,
                served <- model,
                kept <- {j \in Jobs : runDir[j] = "complete"},
                back <- IF latest \in Jobs THEN latest ELSE None,
                outcome <- [j \in Jobs |-> IF status[j] \in {"succeeded", "failed"}
                                             THEN status[j] ELSE "open"]

StoreSpec == Store!SSpec

\* Every task that was accepted reports success or failure, unless the process
\* dies: no failure leaves it running for ever (services/train.py:46-62).
TaskSettles ==
  \A j \in Jobs : (status[j] \in {"pending", "running"})
                    ~> (status[j] \in {"succeeded", "failed", "unknown"})

\* dispatcher.py:55-56, "Updates the LATEST pointer atomically (write-then-rename)":
\* whenever LATEST changes, it changes to the name of a run.
PointerAtomic == [][latest' # latest => latest' \in Jobs]_vars

\* predict.py:78-80, "the ACI residual quantile is still valid against ONNX point
\* estimates": the point of an answer was computed by the very fit whose residuals
\* bracket it.
PointMatchesInterval ==
  \A q \in Requests : \A i \in DOMAIN points[q] :
    handle[q] \in Jobs => points[q][i] = handle[q]

\* train.py:140-141, "Each artifact hook is independently non-fatal": no training
\* fails because of one.
HooksNonFatal == \A j \in Jobs : status[j] = "failed" => cause[j] # "artifact"
=============================================================================
