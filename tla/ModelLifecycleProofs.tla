------------------------- MODULE ModelLifecycleProofs -------------------------
(***************************************************************************)
(* What holds of the model lifecycle for any number of trainings, kinds,   *)
(* requests and crashes, and for every interleaving of them.               *)
(***************************************************************************)
EXTENDS ModelLifecycle, TLAPS

USE LifecycleAssumption

-----------------------------------------------------------------------------
(* Types.  TypeOK is not inductive: a point could come from a runtime that *)
(* is not there.  The registry never has an active kind without a runtime. *)

Registered == /\ active # None => runtimes[active] # None
              /\ \A k \in Kinds : runtimes[k] # None => kindOf[runtimes[k]] = k
              /\ \A j \in Jobs : pc[j] = "activate" => runtimes[kindOf[j]] # None

\* A point is always computed by some training's estimator, of the handle's kind.
LEMMA PointOfKind ==
  ASSUME TypeOK, Registered, NEW h \in Jobs
  PROVE  Point(h) \in Jobs /\ kindOf[Point(h)] = kindOf[h]
  BY DEF Point, TypeOK, Registered

\* The types hold initially: nothing runs, nothing is on disk.
LEMMA InitTypes == Init => TypeOK
<1> SUFFICES ASSUME Init PROVE TypeOK
  OBVIOUS
<1> USE DEF Init
<1>1. up \in BOOLEAN /\ calm \in BOOLEAN
  OBVIOUS
<1>2. /\ model \in Jobs \cup {None}
      /\ active \in Kinds \cup {None}
      /\ kindOf \in [Jobs -> Kinds]
      /\ runtimes \in [Kinds -> Jobs \cup {None}]
  OBVIOUS
<1>3. /\ status \in [Jobs -> {"unknown", "pending", "running", "succeeded", "failed"}]
      /\ cause \in [Jobs -> Causes]
      /\ pc \in [Jobs -> Places]
      /\ fd \in [Jobs -> {"none", "tmp", "latest", "orphan"}]
  BY DEF Causes, Places
<1>4. /\ runDir \in [Jobs -> {"absent", "partial", "complete"}]
      /\ latest \in Jobs \cup {Absent, Empty}
      /\ tmp \in Jobs \cup {Absent, Empty}
  OBVIOUS
<1>5. handle \in [Requests -> Jobs \cup {None, "new", "gone"}]
  OBVIOUS
<1>6. points \in [Requests -> Seq(Jobs)]
  OBVIOUS
<1>7. crashes \in 0..MaxCrashes
  OBVIOUS
<1> QED
  BY <1>1, <1>2, <1>3, <1>4, <1>5, <1>6, <1>7 DEF TypeOK

\* Every step keeps the types; a crash and an answered row need a word more.
LEMMA StepTypes == TypeOK /\ Registered /\ [Next]_vars => TypeOK'
<1> SUFFICES ASSUME TypeOK, Registered, [Next]_vars PROVE TypeOK'
  OBVIOUS
<1> USE DEF TypeOK, Places, InFlight, Causes, memory, disk, requests
<1>1. CASE Boot
  BY <1>1 DEF Boot
<1>2. CASE Crash
  <2>1. status' \in [Jobs -> {"unknown", "pending", "running", "succeeded", "failed"}]
    BY <1>2 DEF Crash
  <2>2. pc' \in [Jobs -> Places]
    BY <1>2 DEF Crash
  <2>3. /\ cause' \in [Jobs -> Causes]
        /\ fd' \in [Jobs -> {"none", "tmp", "latest", "orphan"}]
    BY <1>2 DEF Crash
  <2>4. /\ runtimes' \in [Kinds -> Jobs \cup {None}]
        /\ handle' \in [Requests -> Jobs \cup {None, "new", "gone"}]
    BY <1>2 DEF Crash
  <2>5. crashes' \in 0..MaxCrashes
    BY <1>2 DEF Crash
  <2>6. up' \in BOOLEAN /\ model' = None /\ active' = None
    BY <1>2 DEF Crash
  <2>7. UNCHANGED <<kindOf, disk, points, calm>>
    BY <1>2 DEF Crash
  <2> QED
    BY <2>1, <2>2, <2>3, <2>4, <2>5, <2>6, <2>7
<1>3. ASSUME NEW j \in Jobs, Enqueue(j) PROVE TypeOK'
  BY <1>3 DEF Enqueue, Goto
<1>4. ASSUME NEW j \in Jobs, Begin(j) PROVE TypeOK'
  BY <1>4 DEF Begin, Goto
<1>5. ASSUME NEW j \in Jobs, FitFails(j) PROVE TypeOK'
  BY <1>5 DEF FitFails, Goto, Raise
<1>6. ASSUME NEW j \in Jobs, Publish(j) PROVE TypeOK'
  BY <1>6 DEF Publish, Goto
<1>7. ASSUME NEW j \in Jobs, BeginSave(j) PROVE TypeOK'
  BY <1>7 DEF BeginSave, Goto
<1>8. ASSUME NEW j \in Jobs, EndSave(j) PROVE TypeOK'
  BY <1>8 DEF EndSave, Goto
<1>9. ASSUME NEW j \in Jobs, SaveFails(j) PROVE TypeOK'
  BY <1>9 DEF SaveFails, Goto, Raise
<1>10. ASSUME NEW j \in Jobs, OpenPointer(j) PROVE TypeOK'
  BY <1>10 DEF OpenPointer, Goto
<1>11. ASSUME NEW j \in Jobs, WritePointer(j) PROVE TypeOK'
  BY <1>11 DEF WritePointer, Goto
<1>12. ASSUME NEW j \in Jobs, RenamePointer(j) PROVE TypeOK'
  BY <1>12 DEF RenamePointer, Goto
<1>13. ASSUME NEW j \in Jobs, RenameFails(j) PROVE TypeOK'
  BY <1>13 DEF RenameFails, Goto, Raise
<1>14. ASSUME NEW j \in Jobs, Emit(j) PROVE TypeOK'
  BY <1>14 DEF Emit, Goto
<1>15. ASSUME NEW j \in Jobs, EmitFails(j) PROVE TypeOK'
  BY <1>15 DEF EmitFails, Goto, Raise
<1>16. ASSUME NEW j \in Jobs, Register(j) PROVE TypeOK'
  BY <1>16 DEF Register, Goto
<1>17. ASSUME NEW j \in Jobs, ExportFails(j) PROVE TypeOK'
  BY <1>17 DEF ExportFails, Goto
<1>18. ASSUME NEW j \in Jobs, Activate(j) PROVE TypeOK'
  BY <1>18 DEF Activate, Goto
<1>19. ASSUME NEW j \in Jobs, Push(j) PROVE TypeOK'
  BY <1>19 DEF Push, Goto
<1>20. ASSUME NEW j \in Jobs, PushFails(j) PROVE TypeOK'
  BY <1>20 DEF PushFails, Goto, Raise
<1>21. ASSUME NEW j \in Jobs, Succeed(j) PROVE TypeOK'
  BY <1>21 DEF Succeed, Goto
<1>22. ASSUME NEW j \in Jobs, Fail(j) PROVE TypeOK'
  BY <1>22 DEF Fail, Goto
<1>23. ASSUME NEW q \in Requests, Capture(q) PROVE TypeOK'
  BY <1>23 DEF Capture
<1>24. ASSUME NEW q \in Requests, Answer(q) PROVE TypeOK'
  <2>1. Point(handle[q]) \in Jobs
    BY <1>24, PointOfKind DEF Answer
  <2> HIDE DEF Places, InFlight, Causes
  <2>2. points' \in [Requests -> Seq(Jobs)]
    BY <1>24, <2>1 DEF Answer
  <2> QED
    BY <1>24, <2>2 DEF Answer
<1>25. CASE UNCHANGED vars
  BY <1>25 DEF vars
<1> QED
  BY <1>1, <1>2, <1>3, <1>4, <1>5, <1>6, <1>7, <1>8, <1>9, <1>10, <1>11, <1>12,
     <1>13, <1>14, <1>15, <1>16, <1>17, <1>18, <1>19, <1>20, <1>21, <1>22, <1>23,
     <1>24, <1>25 DEF Next, Training

\* The registry keeps its promise, and the training that registered a runtime finds it
\* there when it activates the kind (runtime.py:66-76).
LEMMA StepRegistered == TypeOK /\ Registered /\ [Next]_vars => Registered'
<1> SUFFICES ASSUME TypeOK, Registered, [Next]_vars PROVE Registered'
  OBVIOUS
<1> USE DEF TypeOK, Registered, memory
<1>1. CASE Boot
  BY <1>1 DEF Boot
<1>2. CASE Crash
  BY <1>2 DEF Crash
<1>3. ASSUME NEW j \in Jobs, Enqueue(j) PROVE Registered'
  BY <1>3 DEF Enqueue, Goto
<1>4. ASSUME NEW j \in Jobs, Begin(j) PROVE Registered'
  BY <1>4 DEF Begin, Goto
<1>5. ASSUME NEW j \in Jobs, FitFails(j) PROVE Registered'
  BY <1>5 DEF FitFails, Goto, Raise
<1>6. ASSUME NEW j \in Jobs, Publish(j) PROVE Registered'
  BY <1>6 DEF Publish, Goto
<1>7. ASSUME NEW j \in Jobs, BeginSave(j) PROVE Registered'
  BY <1>7 DEF BeginSave, Goto
<1>8. ASSUME NEW j \in Jobs, EndSave(j) PROVE Registered'
  BY <1>8 DEF EndSave, Goto
<1>9. ASSUME NEW j \in Jobs, SaveFails(j) PROVE Registered'
  BY <1>9 DEF SaveFails, Goto, Raise
<1>10. ASSUME NEW j \in Jobs, OpenPointer(j) PROVE Registered'
  BY <1>10 DEF OpenPointer, Goto
<1>11. ASSUME NEW j \in Jobs, WritePointer(j) PROVE Registered'
  BY <1>11 DEF WritePointer, Goto
<1>12. ASSUME NEW j \in Jobs, RenamePointer(j) PROVE Registered'
  BY <1>12 DEF RenamePointer, Goto
<1>13. ASSUME NEW j \in Jobs, RenameFails(j) PROVE Registered'
  BY <1>13 DEF RenameFails, Goto, Raise
<1>14. ASSUME NEW j \in Jobs, Emit(j) PROVE Registered'
  BY <1>14 DEF Emit, Goto
<1>15. ASSUME NEW j \in Jobs, EmitFails(j) PROVE Registered'
  BY <1>15 DEF EmitFails, Goto, Raise
<1>16. ASSUME NEW j \in Jobs, Register(j) PROVE Registered'
  BY <1>16 DEF Register, Goto
<1>17. ASSUME NEW j \in Jobs, ExportFails(j) PROVE Registered'
  BY <1>17 DEF ExportFails, Goto
<1>18. ASSUME NEW j \in Jobs, Activate(j) PROVE Registered'
  BY <1>18 DEF Activate, Goto
<1>19. ASSUME NEW j \in Jobs, Push(j) PROVE Registered'
  BY <1>19 DEF Push, Goto
<1>20. ASSUME NEW j \in Jobs, PushFails(j) PROVE Registered'
  BY <1>20 DEF PushFails, Goto, Raise
<1>21. ASSUME NEW j \in Jobs, Succeed(j) PROVE Registered'
  BY <1>21 DEF Succeed, Goto
<1>22. ASSUME NEW j \in Jobs, Fail(j) PROVE Registered'
  BY <1>22 DEF Fail, Goto
<1>23. ASSUME NEW q \in Requests, Capture(q) PROVE Registered'
  BY <1>23 DEF Capture
<1>24. ASSUME NEW q \in Requests, Answer(q) PROVE Registered'
  BY <1>24 DEF Answer
<1>25. CASE UNCHANGED vars
  BY <1>25 DEF vars
<1> QED
  BY <1>1, <1>2, <1>3, <1>4, <1>5, <1>6, <1>7, <1>8, <1>9, <1>10, <1>11, <1>12,
     <1>13, <1>14, <1>15, <1>16, <1>17, <1>18, <1>19, <1>20, <1>21, <1>22, <1>23,
     <1>24, <1>25 DEF Next, Training

\* Every reachable state has the right types (state.py:14-45, runtime.py:57-80).
THEOREM TypeCorrect == Spec => []TypeOK
<1>1. Init => TypeOK /\ Registered
  BY InitTypes DEF Init, Registered
<1>2. TypeOK /\ Registered /\ [Next]_vars => TypeOK' /\ Registered'
  BY StepTypes, StepRegistered
<1> QED
  BY <1>1, <1>2, PTL DEF Spec

-----------------------------------------------------------------------------
(* Persistence.  A run directory is finished before anything that names it *)
(* is written, so no interleaving of savers on the shared LATEST.tmp can   *)
(* make the pointer name an unfinished one.                                *)

\* A training that has got past EndSave without failing.
PastSave == {"open", "write", "rename", "emit", "export", "activate", "push", "succeed"}

\* ... and past RenamePointer.
PastRename == {"emit", "export", "activate", "push", "succeed"}

Persisted ==
  /\ \A j \in Jobs : pc[j] \in {"idle", "queued", "fit", "save"} => runDir[j] = "absent"
  /\ \A j \in Jobs : pc[j] \in PastSave => runDir[j] = "complete"
  /\ \A j \in Jobs : pc[j] \in PastRename => latest # Absent
  /\ latest \in Jobs => runDir[latest] = "complete"
  /\ tmp \in Jobs => runDir[tmp] = "complete"
  /\ \A j \in Jobs : status[j] = "succeeded" => runDir[j] = "complete" /\ latest # Absent

\* The order of save_full_state keeps it, whoever else is saving (dispatcher.py:57-101).
LEMMA StepPersisted == TypeOK /\ Persisted /\ [Next]_vars => Persisted'
<1> SUFFICES ASSUME TypeOK, Persisted, [Next]_vars PROVE Persisted'
  OBVIOUS
<1> USE DEF TypeOK, Persisted, PastSave, PastRename, memory, disk
<1>1. CASE Boot
  BY <1>1 DEF Boot
<1>2. CASE Crash
  BY <1>2 DEF Crash
<1>3. ASSUME NEW j \in Jobs, Enqueue(j) PROVE Persisted'
  BY <1>3 DEF Enqueue, Goto
<1>4. ASSUME NEW j \in Jobs, Begin(j) PROVE Persisted'
  BY <1>4 DEF Begin, Goto
<1>5. ASSUME NEW j \in Jobs, FitFails(j) PROVE Persisted'
  BY <1>5 DEF FitFails, Goto, Raise
<1>6. ASSUME NEW j \in Jobs, Publish(j) PROVE Persisted'
  BY <1>6 DEF Publish, Goto
<1>7. ASSUME NEW j \in Jobs, BeginSave(j) PROVE Persisted'
  BY <1>7 DEF BeginSave, Goto
<1>8. ASSUME NEW j \in Jobs, EndSave(j) PROVE Persisted'
  BY <1>8 DEF EndSave, Goto
<1>9. ASSUME NEW j \in Jobs, SaveFails(j) PROVE Persisted'
  BY <1>9 DEF SaveFails, Goto, Raise
<1>10. ASSUME NEW j \in Jobs, OpenPointer(j) PROVE Persisted'
  BY <1>10 DEF OpenPointer, Goto
<1>11. ASSUME NEW j \in Jobs, WritePointer(j) PROVE Persisted'
  BY <1>11 DEF WritePointer, Goto
<1>12. ASSUME NEW j \in Jobs, RenamePointer(j) PROVE Persisted'
  BY <1>12 DEF RenamePointer, Goto
<1>13. ASSUME NEW j \in Jobs, RenameFails(j) PROVE Persisted'
  BY <1>13 DEF RenameFails, Goto, Raise
<1>14. ASSUME NEW j \in Jobs, Emit(j) PROVE Persisted'
  BY <1>14 DEF Emit, Goto
<1>15. ASSUME NEW j \in Jobs, EmitFails(j) PROVE Persisted'
  BY <1>15 DEF EmitFails, Goto, Raise
<1>16. ASSUME NEW j \in Jobs, Register(j) PROVE Persisted'
  BY <1>16 DEF Register, Goto
<1>17. ASSUME NEW j \in Jobs, ExportFails(j) PROVE Persisted'
  BY <1>17 DEF ExportFails, Goto
<1>18. ASSUME NEW j \in Jobs, Activate(j) PROVE Persisted'
  BY <1>18 DEF Activate, Goto
<1>19. ASSUME NEW j \in Jobs, Push(j) PROVE Persisted'
  BY <1>19 DEF Push, Goto
<1>20. ASSUME NEW j \in Jobs, PushFails(j) PROVE Persisted'
  BY <1>20 DEF PushFails, Goto, Raise
<1>21. ASSUME NEW j \in Jobs, Succeed(j) PROVE Persisted'
  BY <1>21 DEF Succeed, Goto
<1>22. ASSUME NEW j \in Jobs, Fail(j) PROVE Persisted'
  BY <1>22 DEF Fail, Goto
<1>23. ASSUME NEW q \in Requests, Capture(q) PROVE Persisted'
  BY <1>23 DEF Capture
<1>24. ASSUME NEW q \in Requests, Answer(q) PROVE Persisted'
  BY <1>24 DEF Answer
<1>25. CASE UNCHANGED vars
  BY <1>25 DEF vars
<1> QED
  BY <1>1, <1>2, <1>3, <1>4, <1>5, <1>6, <1>7, <1>8, <1>9, <1>10, <1>11, <1>12,
     <1>13, <1>14, <1>15, <1>16, <1>17, <1>18, <1>19, <1>20, <1>21, <1>22, <1>23,
     <1>24, <1>25 DEF Next, Training

\* Whatever the interleaving, LATEST never names a run that is not completely on disk.
THEOREM PointerNamesCompleteRun == Spec => []LatestComplete
<1>1. Init => Persisted
  BY DEF Init, Persisted, PastSave, PastRename
<1>2. Persisted => LatestComplete
  BY DEF Persisted, LatestComplete
<1> QED
  BY <1>1, <1>2, TypeCorrect, StepPersisted, PTL DEF Spec

\* A training that reported success can be served again after a crash.
THEOREM SuccessIsDurable == Spec => []SucceededIsDurable
<1>1. Init => Persisted
  BY DEF Init, Persisted, PastSave, PastRename
<1>2. Persisted => SucceededIsDurable
  BY DEF Persisted, SucceededIsDurable
<1> QED
  BY <1>1, <1>2, TypeCorrect, StepPersisted, PTL DEF Spec

-----------------------------------------------------------------------------
(* Trainings one at a time.                                                *)

\* Between Publish and Activate what is served and what is on disk or in the registry
\* differ; each phase of the one training in flight says how.
Unsettled == {"save", "writing", "open", "write", "rename", "emit", "export", "activate"}

Alone ==
  calm =>
    /\ \A i, j \in Jobs : pc[i] \in InFlight /\ pc[j] \in InFlight => i = j
    /\ \A j \in Jobs : fd[j] = IF pc[j] = "write" THEN "tmp" ELSE "none"
    /\ \A j \in Jobs : pc[j] = "rename" => tmp = j
    /\ latest # Empty

Coherent ==
  calm =>
    /\ \A j \in Jobs : pc[j] \in {"queued"} \cup InFlight => up
    /\ \A j \in Jobs : pc[j] \in Unsettled => model = j
    /\ \A j \in Jobs : pc[j] \in {"emit", "export", "activate"} => latest = j
    /\ \A j \in Jobs : pc[j] = "activate" => runtimes[kindOf[j]] = j
    /\ ~up => active = None
    /\ up /\ model # None /\ (\A j \in Jobs : pc[j] \notin Unsettled)
         => latest = model /\ Point(model) = model

\* A second training gives up calm; a single one owns LATEST.tmp (dispatcher.py:97-101).
LEMMA StepAlone == TypeOK /\ Alone /\ [Next]_vars => Alone'
<1> SUFFICES ASSUME TypeOK, Alone, [Next]_vars PROVE Alone'
  OBVIOUS
<1> USE DEF TypeOK, Alone, TrainingNow, InFlight, disk
<1>1. CASE Boot
  BY <1>1 DEF Boot
<1>2. CASE Crash
  BY <1>2 DEF Crash
<1>3. ASSUME NEW j \in Jobs, Enqueue(j) PROVE Alone'
  BY <1>3 DEF Enqueue, Goto
<1>4. ASSUME NEW j \in Jobs, Begin(j) PROVE Alone'
  <2>1. calm' => calm /\ \A i \in Jobs : pc[i] \notin InFlight
    BY <1>4 DEF Begin
  <2>2. pc[j] = "queued" /\ pc' = [pc EXCEPT ![j] = "fit"]
    BY <1>4 DEF Begin, Goto
  <2>3. UNCHANGED <<up, model, kindOf, runtimes, active, fd, latest, tmp>>
    BY <1>4 DEF Begin
  <2> QED
    BY <2>1, <2>2, <2>3
<1>5. ASSUME NEW j \in Jobs, FitFails(j) PROVE Alone'
  BY <1>5 DEF FitFails, Goto, Raise
<1>6. ASSUME NEW j \in Jobs, Publish(j) PROVE Alone'
  BY <1>6 DEF Publish, Goto
<1>7. ASSUME NEW j \in Jobs, BeginSave(j) PROVE Alone'
  BY <1>7 DEF BeginSave, Goto
<1>8. ASSUME NEW j \in Jobs, EndSave(j) PROVE Alone'
  BY <1>8 DEF EndSave, Goto
<1>9. ASSUME NEW j \in Jobs, SaveFails(j) PROVE Alone'
  BY <1>9 DEF SaveFails, Goto, Raise
<1>10. ASSUME NEW j \in Jobs, OpenPointer(j) PROVE Alone'
  BY <1>10 DEF OpenPointer, Goto
<1>11. ASSUME NEW j \in Jobs, WritePointer(j) PROVE Alone'
  BY <1>11 DEF WritePointer, Goto
<1>12. ASSUME NEW j \in Jobs, RenamePointer(j) PROVE Alone'
  BY <1>12 DEF RenamePointer, Goto
<1>13. ASSUME NEW j \in Jobs, RenameFails(j) PROVE Alone'
  BY <1>13 DEF RenameFails, Goto, Raise
<1>14. ASSUME NEW j \in Jobs, Emit(j) PROVE Alone'
  BY <1>14 DEF Emit, Goto
<1>15. ASSUME NEW j \in Jobs, EmitFails(j) PROVE Alone'
  BY <1>15 DEF EmitFails, Goto, Raise
<1>16. ASSUME NEW j \in Jobs, Register(j) PROVE Alone'
  BY <1>16 DEF Register, Goto
<1>17. ASSUME NEW j \in Jobs, ExportFails(j) PROVE Alone'
  BY <1>17 DEF ExportFails, Goto
<1>18. ASSUME NEW j \in Jobs, Activate(j) PROVE Alone'
  BY <1>18 DEF Activate, Goto
<1>19. ASSUME NEW j \in Jobs, Push(j) PROVE Alone'
  BY <1>19 DEF Push, Goto
<1>20. ASSUME NEW j \in Jobs, PushFails(j) PROVE Alone'
  BY <1>20 DEF PushFails, Goto, Raise
<1>21. ASSUME NEW j \in Jobs, Succeed(j) PROVE Alone'
  BY <1>21 DEF Succeed, Goto
<1>22. ASSUME NEW j \in Jobs, Fail(j) PROVE Alone'
  BY <1>22 DEF Fail, Goto
<1>23. ASSUME NEW q \in Requests, Capture(q) PROVE Alone'
  BY <1>23 DEF Capture
<1>24. ASSUME NEW q \in Requests, Answer(q) PROVE Alone'
  BY <1>24 DEF Answer
<1>25. CASE UNCHANGED vars
  BY <1>25 DEF vars
<1> QED
  BY <1>1, <1>2, <1>3, <1>4, <1>5, <1>6, <1>7, <1>8, <1>9, <1>10, <1>11, <1>12,
     <1>13, <1>14, <1>15, <1>16, <1>17, <1>18, <1>19, <1>20, <1>21, <1>22, <1>23,
     <1>24, <1>25 DEF Next, Training

\* Each phase hands over to the next, and a crash in any of them leaves a pointer
\* that the next start can follow (train.py:193-196, 308-312).
LEMMA StepCoherent == TypeOK /\ Registered /\ Alone /\ Coherent /\ [Next]_vars => Coherent'
<1> SUFFICES ASSUME TypeOK, Registered, Alone, Coherent, [Next]_vars PROVE Coherent'
  OBVIOUS
<1> USE DEF TypeOK, Registered, Alone, Coherent, Unsettled, TrainingNow, InFlight, Point, memory, disk
<1>1. CASE Boot
  BY <1>1 DEF Boot
<1>2. CASE Crash
  BY <1>2 DEF Crash
<1>3. ASSUME NEW j \in Jobs, Enqueue(j) PROVE Coherent'
  BY <1>3 DEF Enqueue, Goto
<1>4. ASSUME NEW j \in Jobs, Begin(j) PROVE Coherent'
  <2>1. calm' => calm /\ \A i \in Jobs : pc[i] \notin InFlight
    BY <1>4 DEF Begin
  <2>2. pc[j] = "queued" /\ pc' = [pc EXCEPT ![j] = "fit"]
    BY <1>4 DEF Begin, Goto
  <2>3. UNCHANGED <<up, model, kindOf, runtimes, active, fd, latest, tmp>>
    BY <1>4 DEF Begin
  <2> QED
    BY <2>1, <2>2, <2>3
<1>5. ASSUME NEW j \in Jobs, FitFails(j) PROVE Coherent'
  BY <1>5 DEF FitFails, Goto, Raise
<1>6. ASSUME NEW j \in Jobs, Publish(j) PROVE Coherent'
  BY <1>6 DEF Publish, Goto
<1>7. ASSUME NEW j \in Jobs, BeginSave(j) PROVE Coherent'
  BY <1>7 DEF BeginSave, Goto
<1>8. ASSUME NEW j \in Jobs, EndSave(j) PROVE Coherent'
  BY <1>8 DEF EndSave, Goto
<1>9. ASSUME NEW j \in Jobs, SaveFails(j) PROVE Coherent'
  BY <1>9 DEF SaveFails, Goto, Raise
<1>10. ASSUME NEW j \in Jobs, OpenPointer(j) PROVE Coherent'
  BY <1>10 DEF OpenPointer, Goto
<1>11. ASSUME NEW j \in Jobs, WritePointer(j) PROVE Coherent'
  BY <1>11 DEF WritePointer, Goto
<1>12. ASSUME NEW j \in Jobs, RenamePointer(j) PROVE Coherent'
  BY <1>12 DEF RenamePointer, Goto
<1>13. ASSUME NEW j \in Jobs, RenameFails(j) PROVE Coherent'
  BY <1>13 DEF RenameFails, Goto, Raise
<1>14. ASSUME NEW j \in Jobs, Emit(j) PROVE Coherent'
  BY <1>14 DEF Emit, Goto
<1>15. ASSUME NEW j \in Jobs, EmitFails(j) PROVE Coherent'
  BY <1>15 DEF EmitFails, Goto, Raise
<1>16. ASSUME NEW j \in Jobs, Register(j) PROVE Coherent'
  BY <1>16 DEF Register, Goto
<1>17. ASSUME NEW j \in Jobs, ExportFails(j) PROVE Coherent'
  BY <1>17 DEF ExportFails, Goto
<1>18. ASSUME NEW j \in Jobs, Activate(j) PROVE Coherent'
  BY <1>18 DEF Activate, Goto
<1>19. ASSUME NEW j \in Jobs, Push(j) PROVE Coherent'
  BY <1>19 DEF Push, Goto
<1>20. ASSUME NEW j \in Jobs, PushFails(j) PROVE Coherent'
  BY <1>20 DEF PushFails, Goto, Raise
<1>21. ASSUME NEW j \in Jobs, Succeed(j) PROVE Coherent'
  BY <1>21 DEF Succeed, Goto
<1>22. ASSUME NEW j \in Jobs, Fail(j) PROVE Coherent'
  BY <1>22 DEF Fail, Goto
<1>23. ASSUME NEW q \in Requests, Capture(q) PROVE Coherent'
  BY <1>23 DEF Capture
<1>24. ASSUME NEW q \in Requests, Answer(q) PROVE Coherent'
  BY <1>24 DEF Answer
<1>25. CASE UNCHANGED vars
  BY <1>25 DEF vars
<1> QED
  BY <1>1, <1>2, <1>3, <1>4, <1>5, <1>6, <1>7, <1>8, <1>9, <1>10, <1>11, <1>12,
     <1>13, <1>14, <1>15, <1>16, <1>17, <1>18, <1>19, <1>20, <1>21, <1>22, <1>23,
     <1>24, <1>25 DEF Next, Training

\* Together they hold in every reachable state.
LEMMA CalmInvariant == Spec => [](TypeOK /\ Registered /\ Alone /\ Coherent)
<1>1. Init => TypeOK /\ Registered /\ Alone /\ Coherent
  BY InitTypes DEF Init, Registered, Alone, Coherent, Unsettled, InFlight
<1>2. TypeOK /\ Registered /\ Alone /\ Coherent /\ [Next]_vars
        => (TypeOK /\ Registered /\ Alone /\ Coherent)'
  BY StepTypes, StepRegistered, StepAlone, StepCoherent
<1> QED
  BY <1>1, <1>2, PTL DEF Spec

\* One saver at a time: a reader of LATEST never finds it empty.
THEOREM PointerAtomicOneByOne == Spec => []PointerAtomicWhenCalm
<1>1. Alone => PointerAtomicWhenCalm
  BY DEF Alone, PointerAtomicWhenCalm
<1> QED
  BY <1>1, CalmInvariant, PTL

\* One training at a time and nothing failing after publication: between trainings
\* a restart would load what is served, and point and interval are of one fit.
THEOREM CoherentAtRest == Spec => []AtRestCoherent
<1>1. Coherent => AtRestCoherent
  BY DEF Coherent, AtRestCoherent, TrainingNow, InFlight, Unsettled
<1> QED
  BY <1>1, CalmInvariant, PTL

-----------------------------------------------------------------------------
(* The store.  What a restart would serve is what LATEST names, so the     *)
(* steps of the store are found in the phases of a training; what is left  *)
(* over of a training that is not under way must not be in their way.      *)

\* What each phase says of a training's reports, of its directory and of what is served.
Held ==
  /\ \A j \in Jobs : pc[j] \notin {"idle", "over"} => up
  /\ \A j \in Jobs : pc[j] # "over" => status[j] \notin {"succeeded", "failed"}
  /\ \A j \in Jobs : pc[j] \in {"idle", "queued", "fit"} => model # j
  /\ \A j \in Jobs : pc[j] = "writing" => runDir[j] # "complete"
  /\ calm => /\ \A j \in Jobs : pc[j] \in {"push", "succeed"} => model = j /\ latest = j
             /\ \A j \in Jobs : pc[j] = "fail" => model # j /\ runDir[j] # "complete"

\* Each step leaves the training in a phase that says the truth (train.py:135-161).
LEMMA StepHeld ==
  TypeOK /\ Persisted /\ Alone /\ Coherent /\ Held /\ [Next]_vars => Held'
<1> SUFFICES ASSUME TypeOK, Persisted, Alone, Coherent, Held, [Next]_vars PROVE Held'
  OBVIOUS
<1> USE DEF TypeOK, Persisted, Alone, Coherent, Held, Unsettled, PastSave, PastRename,
            TrainingNow, InFlight, memory, disk
<1>1. CASE Boot
  BY <1>1 DEF Boot
<1>2. CASE Crash
  BY <1>2 DEF Crash
<1>3. ASSUME NEW j \in Jobs, Enqueue(j) PROVE Held'
  BY <1>3 DEF Enqueue, Goto
<1>4. ASSUME NEW j \in Jobs, Begin(j) PROVE Held'
  BY <1>4 DEF Begin, Goto
<1>5. ASSUME NEW j \in Jobs, FitFails(j) PROVE Held'
  BY <1>5 DEF FitFails, Goto, Raise
<1>6. ASSUME NEW j \in Jobs, Publish(j) PROVE Held'
  BY <1>6 DEF Publish, Goto
<1>7. ASSUME NEW j \in Jobs, BeginSave(j) PROVE Held'
  BY <1>7 DEF BeginSave, Goto
<1>8. ASSUME NEW j \in Jobs, EndSave(j) PROVE Held'
  BY <1>8 DEF EndSave, Goto
<1>9. ASSUME NEW j \in Jobs, SaveFails(j) PROVE Held'
  BY <1>9 DEF SaveFails, Goto, Raise
<1>10. ASSUME NEW j \in Jobs, OpenPointer(j) PROVE Held'
  BY <1>10 DEF OpenPointer, Goto
<1>11. ASSUME NEW j \in Jobs, WritePointer(j) PROVE Held'
  BY <1>11 DEF WritePointer, Goto
<1>12. ASSUME NEW j \in Jobs, RenamePointer(j) PROVE Held'
  BY <1>12 DEF RenamePointer, Goto
<1>13. ASSUME NEW j \in Jobs, RenameFails(j) PROVE Held'
  BY <1>13 DEF RenameFails, Goto, Raise
<1>14. ASSUME NEW j \in Jobs, Emit(j) PROVE Held'
  BY <1>14 DEF Emit, Goto
<1>15. ASSUME NEW j \in Jobs, EmitFails(j) PROVE Held'
  BY <1>15 DEF EmitFails, Goto, Raise
<1>16. ASSUME NEW j \in Jobs, Register(j) PROVE Held'
  BY <1>16 DEF Register, Goto
<1>17. ASSUME NEW j \in Jobs, ExportFails(j) PROVE Held'
  BY <1>17 DEF ExportFails, Goto
<1>18. ASSUME NEW j \in Jobs, Activate(j) PROVE Held'
  BY <1>18 DEF Activate, Goto
<1>19. ASSUME NEW j \in Jobs, Push(j) PROVE Held'
  BY <1>19 DEF Push, Goto
<1>20. ASSUME NEW j \in Jobs, PushFails(j) PROVE Held'
  BY <1>20 DEF PushFails, Goto, Raise
<1>21. ASSUME NEW j \in Jobs, Succeed(j) PROVE Held'
  BY <1>21 DEF Succeed, Goto
<1>22. ASSUME NEW j \in Jobs, Fail(j) PROVE Held'
  BY <1>22 DEF Fail, Goto
<1>23. ASSUME NEW q \in Requests, Capture(q) PROVE Held'
  BY <1>23 DEF Capture
<1>24. ASSUME NEW q \in Requests, Answer(q) PROVE Held'
  BY <1>24 DEF Answer
<1>25. CASE UNCHANGED vars
  BY <1>25 DEF vars
<1> QED
  BY <1>1, <1>2, <1>3, <1>4, <1>5, <1>6, <1>7, <1>8, <1>9, <1>10, <1>11, <1>12,
     <1>13, <1>14, <1>15, <1>16, <1>17, <1>18, <1>19, <1>20, <1>21, <1>22, <1>23,
     <1>24, <1>25 DEF Next, Training

\* The models that would survive, what would come back, and what was reported, as the
\* store sees them.
Finished == {j \in Jobs : runDir[j] = "complete"}
ComesBack == IF latest \in Jobs THEN latest ELSE None
Reported == [j \in Jobs |-> IF status[j] \in {"succeeded", "failed"} THEN status[j] ELSE "open"]

\* Every step of the process is a step of the store, or leaves it as it is.
LEMMA StepStore ==
  TypeOK /\ Persisted /\ Alone /\ Coherent /\ Held /\ [Next]_vars
    => [Store!SNext]_(Store!svars)
<1> SUFFICES ASSUME TypeOK, Persisted, Alone, Coherent, Held, [Next]_vars
             PROVE  Store!SNext \/ UNCHANGED <<up, model, Finished, ComesBack, Reported, calm>>
  BY DEF Store!svars, Finished, ComesBack, Reported
<1> DEFINE same == UNCHANGED <<up, model, Finished, ComesBack, Reported>>
<1>a. (latest \in Jobs => latest \in Finished) /\ None \notin Jobs /\ Empty \notin Jobs
  BY DEF Persisted, Finished
<1>b. ASSUME same, calm' = FALSE, up PROVE Store!SNext \/ (same /\ calm' = calm)
  <2>1. CASE calm = TRUE
    <3>1. Store!Disturb
      BY <1>b, <2>1 DEF Store!Disturb, Finished, ComesBack, Reported
    <3> QED
      BY <3>1 DEF Store!SNext
  <2>2. CASE calm = FALSE
    BY <1>b, <2>2
  <2> QED
    BY <2>1, <2>2 DEF TypeOK
<1>1. CASE Boot
  <2>1. model' = ComesBack
    BY <1>1, <1>a DEF Boot, ComesBack, Finished
  <2>2. ~up /\ up' = TRUE /\ UNCHANGED <<Finished, ComesBack, Reported, calm>>
    BY <1>1 DEF Boot, disk, Finished, ComesBack, Reported
  <2> QED
    BY <2>1, <2>2 DEF Store!SNext, Store!Return, Finished, ComesBack, Reported, TypeOK
<1>2. CASE Crash
  <2>1. up /\ up' = FALSE /\ model' = None /\ UNCHANGED <<Finished, ComesBack, calm>>
    BY <1>2 DEF Crash, disk, Finished, ComesBack
  <2>2. Reported' = [j \in Jobs |-> "open"]
    BY <1>2 DEF Crash, Reported
  <2> QED
    BY <2>1, <2>2 DEF Store!SNext, Store!Die, Finished, ComesBack, Reported
<1>3. ASSUME NEW j \in Jobs, Publish(j) PROVE Store!SNext
  <2>1. /\ up /\ Reported[j] = "open" /\ model # j /\ j \notin Finished /\ model' = j
        /\ UNCHANGED <<up, Finished, ComesBack, Reported, calm>>
    BY <1>3 DEF Publish, Held, Persisted, disk, Finished, ComesBack, Reported
  <2> QED
    BY <2>1 DEF Store!SNext, Store!Serve, Finished, ComesBack, Reported
<1>4. ASSUME NEW j \in Jobs, EndSave(j) PROVE Store!SNext
  <2>1. /\ up /\ Reported[j] = "open" /\ j \notin Finished /\ (calm => model = j)
        /\ UNCHANGED <<up, model, ComesBack, Reported, calm>>
    BY <1>4 DEF EndSave, Held, Coherent, Unsettled, memory, Finished, ComesBack, Reported
  <2>2. Finished' = Finished \cup {j}
    BY <1>4 DEF EndSave, Finished, TypeOK
  <2> QED
    BY <2>1, <2>2 DEF Store!SNext, Store!Keep, Finished, ComesBack, Reported
<1>5. ASSUME NEW j \in Jobs, WritePointer(j) PROVE Store!SNext \/ (same /\ calm' = calm)
  <2>1. /\ up /\ j \in Finished /\ (calm => fd[j] # "latest")
        /\ UNCHANGED <<up, model, Finished, Reported, calm>>
    BY <1>5 DEF WritePointer, Held, Alone, Persisted, PastSave, memory, Finished, Reported
  <2>2. CASE fd[j] = "latest"
    <3>1. ComesBack' = j
      BY <1>5, <2>2 DEF WritePointer, ComesBack
    <3> QED
      BY <2>1, <2>2, <3>1 DEF Store!SNext, Store!PointBack, Finished, ComesBack, Reported
  <2>3. CASE fd[j] # "latest"
    BY <1>5, <2>1, <2>3 DEF WritePointer, ComesBack
  <2> QED
    BY <2>2, <2>3
<1>6. ASSUME NEW j \in Jobs, RenamePointer(j) PROVE Store!SNext
  <2>1. /\ up /\ UNCHANGED <<up, model, Finished, Reported, calm>>
        /\ calm => tmp = j /\ model = j
    BY <1>6 DEF RenamePointer, Held, Alone, Coherent, Unsettled, memory, Finished, Reported
  <2>2. /\ tmp \in Jobs => ComesBack' = tmp /\ tmp \in Finished
        /\ tmp \notin Jobs => ComesBack' = None
    BY <1>6 DEF RenamePointer, Persisted, ComesBack, Finished
  <2> QED
    BY <2>1, <2>2 DEF Store!SNext, Store!PointBack, Finished, ComesBack, Reported
<1>7. ASSUME NEW j \in Jobs, Succeed(j) PROVE Store!SNext
  <2>1. /\ up /\ Reported[j] = "open" /\ j \in Finished
        /\ calm => model = j /\ ComesBack = j
        /\ UNCHANGED <<up, model, Finished, ComesBack, calm>>
    BY <1>7 DEF Succeed, Held, Persisted, PastSave, disk, Finished, ComesBack, Reported
  <2>2. Reported' = [Reported EXCEPT ![j] = "succeeded"]
    BY <1>7 DEF Succeed, Reported, TypeOK
  <2> QED
    BY <2>1, <2>2 DEF Store!SNext, Store!Succeeded, Finished, ComesBack, Reported
<1>8. ASSUME NEW j \in Jobs, Fail(j) PROVE Store!SNext
  <2>1. /\ up /\ Reported[j] = "open"
        /\ calm => model # j /\ j \notin Finished
        /\ UNCHANGED <<up, model, Finished, ComesBack, calm>>
    BY <1>8 DEF Fail, Held, disk, Finished, ComesBack, Reported
  <2>2. Reported' = [Reported EXCEPT ![j] = "failed"]
    BY <1>8 DEF Fail, Reported, TypeOK
  <2> QED
    BY <2>1, <2>2 DEF Store!SNext, Store!Failed, Finished, ComesBack, Reported
<1>9. ASSUME NEW j \in Jobs, Enqueue(j) \/ Begin(j) PROVE same /\ up
  BY <1>9 DEF Enqueue, Begin, Held, disk, Finished, ComesBack, Reported, TypeOK
<1>10. ASSUME NEW j \in Jobs, BeginSave(j) PROVE same /\ calm' = calm
  BY <1>10 DEF BeginSave, Persisted, memory, Finished, ComesBack, Reported, TypeOK
<1>11. ASSUME NEW j \in Jobs,
              \/ SaveFails(j) \/ RenameFails(j) \/ EmitFails(j) \/ ExportFails(j) \/ PushFails(j)
       PROVE  same /\ up /\ calm' = FALSE
  BY <1>11 DEF SaveFails, RenameFails, EmitFails, ExportFails, PushFails, Held, memory, disk,
               Finished, ComesBack, Reported
<1>12. ASSUME NEW j \in Jobs,
              \/ FitFails(j) \/ OpenPointer(j) \/ Emit(j) \/ Register(j) \/ Activate(j) \/ Push(j)
       PROVE  same /\ calm' = calm
  BY <1>12 DEF FitFails, OpenPointer, Emit, Register, Activate, Push, memory, disk,
               Finished, ComesBack, Reported
<1>13. ASSUME NEW q \in Requests, Capture(q) \/ Answer(q) PROVE same /\ calm' = calm
  BY <1>13 DEF Capture, Answer, memory, disk, Finished, ComesBack, Reported
<1>14. CASE UNCHANGED vars
  BY <1>14 DEF vars, memory, disk, Finished, ComesBack, Reported
<1>15. ASSUME NEW j \in Jobs, Enqueue(j) \/ Begin(j)
       PROVE  calm' = calm \/ calm' = FALSE
  BY <1>15 DEF Enqueue, Begin, TypeOK
<1> HIDE DEF same
<1> QED
  BY <1>b, <1>1, <1>2, <1>3, <1>4, <1>5, <1>6, <1>7, <1>8, <1>9, <1>10, <1>11, <1>12, <1>13,
     <1>14, <1>15 DEF Next, Training, same

\* The lifecycle implements the store: a model is served before it is kept and kept
\* before LATEST names it, a restart serves what LATEST named, and while trainings do not
\* overlap a reported success is what a restart would serve (train.py:193-196, 308-312,
\* dispatcher.py:54-104, lifespan.py:50-77, services/train.py:46-62).
THEOREM ImplementsStore == Spec => StoreSpec
<1>1. Init => Persisted /\ Alone /\ Coherent /\ Held
  BY DEF Init, Persisted, PastSave, PastRename, Alone, Coherent, Held, Unsettled, InFlight
<1>2. Init => Store!SInit
  BY DEF Init, Store!SInit
<1> QED
  BY <1>1, <1>2, CalmInvariant, StepPersisted, StepHeld, StepStore, PTL
     DEF Spec, StoreSpec, Store!SSpec
=============================================================================
