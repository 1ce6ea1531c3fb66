----------------------------- MODULE ModelStore -----------------------------
(***************************************************************************)
(* What the trainings of one process promise to whoever is served by it,   *)
(* with no phases, files or threads in sight: a model is served, then      *)
(* kept, then it is the one that comes back after the process died; what   *)
(* is reported as a success is kept.  While calm - trainings one at a      *)
(* time, and nothing failing once its model is served - what comes back is *)
(* exactly the last success.  ModelLifecycle.tla implements this           *)
(* specification.                                                          *)
(***************************************************************************)
CONSTANTS Jobs,     \* the trainings, and the models they make
          None      \* no model

VARIABLES serving,  \* the process runs
          served,   \* the model it answers with
          kept,     \* the models that would survive the process
          back,     \* the model the next process would start with
          outcome,  \* what each training was reported as
          calm      \* trainings have been one at a time, and none failed late

svars == <<serving, served, kept, back, outcome, calm>>

SInit == /\ serving = FALSE
         /\ served = None
         /\ kept = {}
         /\ back = None
         /\ outcome = [j \in Jobs |-> "open"]
         /\ calm = TRUE

\* A process starts with what is to come back, and with nothing else.
Return == /\ ~serving
          /\ serving' = TRUE
          /\ served' = back
          /\ UNCHANGED <<kept, back, outcome, calm>>

\* It dies, and what it kept is still there.
Die == /\ serving
       /\ serving' = FALSE
       /\ served' = None
       /\ outcome' = [j \in Jobs |-> "open"]
       /\ UNCHANGED <<kept, back, calm>>

\* A new model is served, before it is kept.
Serve(j) == /\ serving /\ outcome[j] = "open"
            /\ served # j /\ j \notin kept
            /\ served' = j
            /\ UNCHANGED <<serving, kept, back, outcome, calm>>

\* The served model is kept; an overtaken training may still keep its own.
Keep(j) == /\ serving /\ outcome[j] = "open"
           /\ j \notin kept /\ (calm => served = j)
           /\ kept' = kept \cup {j}
           /\ UNCHANGED <<serving, served, back, outcome, calm>>

\* What comes back is a model that is kept, and while calm the one that is served.
\* Trainings in each other's way may leave nothing to come back.
PointBack == /\ serving
             /\ \/ back' \in kept /\ (calm => back' = served)
                \/ back' = None /\ ~calm
             /\ UNCHANGED <<serving, served, kept, outcome, calm>>

\* A success is reported once, of a model that is kept; while calm of the one that
\* is served and comes back.
Succeeded(j) == /\ serving /\ outcome[j] = "open"
                /\ j \in kept /\ (calm => served = j /\ back = j)
                /\ outcome' = [outcome EXCEPT ![j] = "succeeded"]
                /\ UNCHANGED <<serving, served, kept, back, calm>>

\* A failure is reported once; while calm nothing of that training is left.
Failed(j) == /\ serving /\ outcome[j] = "open"
             /\ calm => served # j /\ j \notin kept
             /\ outcome' = [outcome EXCEPT ![j] = "failed"]
             /\ UNCHANGED <<serving, served, kept, back, calm>>

\* A second training begins, or one fails after its model is served.
Disturb == /\ serving
           /\ calm /\ calm' = FALSE
           /\ UNCHANGED <<serving, served, kept, back, outcome>>

SNext == \/ Return \/ Die \/ PointBack \/ Disturb
         \/ \E j \in Jobs : Serve(j) \/ Keep(j) \/ Succeeded(j) \/ Failed(j)

SSpec == SInit /\ [][SNext]_svars
=============================================================================
