-------------------------------- MODULE Flows --------------------------------
(***************************************************************************)
(* deepCab/flow_v2: the flows that train outside the API, one process at a *)
(* time: the sliding-window bench (nightly.py), the simulation of a period *)
(* in chunks (simulate.py), which the bench calls with one chunk, on this  *)
(* machine or on a VM, and the retraining (retrain.py).  They meet in the  *)
(* MLflow experiment, where the bench keeps its cursor and where the run   *)
(* of a VM is looked up by name.                                           *)
(*                                                                         *)
(* Time is counted in units; a slice <<s, e>> is the half-open WHERE       *)
(* clause of chunk_where_clause.  Which rows load() reads is decided by    *)
(* DATA_SOURCE and DATA_BQ_WHERE: env is that slice, or Local for the      *)
(* Parquet store.                                                          *)
(***************************************************************************)
EXTENDS Integers, Sequences, FiniteSets, FiniteSetsExt

CONSTANTS Horizon,    \* _HORIZON; _FLOOR is 0
          Period,     \* --period-days of the bench
          Listed,     \* max_results of the cursor's search: the latest runs
          Spans,      \* the slices a simulation may be asked for
          ChunkPeriod, \* its chunk_period
          MaxFlows,   \* bound: how many flows are started
          Local,      \* the Parquet store
          None        \* no slice, no run, no tag

ASSUME FlowsAssumption ==
  /\ Horizon \in Nat \ {0} /\ Period \in Nat \ {0} /\ ChunkPeriod \in Nat \ {0}
  /\ Listed \in Nat \ {0} /\ MaxFlows \in Nat
  /\ Spans \subseteq {s \in Nat \X Nat : s[1] < s[2]}
  /\ Local \notin Nat \X Nat /\ None \notin (Nat \X Nat) \cup Nat \cup {Local}

Slices == Nat \X Nat
Kinds == {"nightly", "simulate", "retrain"}
Over == {"returned", "raised", "crashed"}
Busy == {"prepare", "train", "fit", "poll", "evaluate", "promote", "finish",
         "tag_start", "tag_end", "raising"}

VARIABLES runs,     \* the MLflow experiment, oldest first
          jobs,     \* VM trainings that were launched and did not show up yet
          visible,  \* the poll asks the experiment the VM writes to
          outer,    \* what the environment of the process selects
          env,      \* what it selects now
          saved,    \* `previous` of each _env_overlay that is entered
          pc, kind,
          vm,       \* the executor is VmTrainExecutor
          window,   \* time_window_start, time_window_end
          todo,     \* the chunks not handled yet
          run,      \* train_result.run_id: a place in runs
          model,    \* STATE.model of the process: the slice it was fitted on
          seen,     \* the slice the challenger was scored on
          done,     \* SimulateResult.chunks
          promotions, champion, \* SimulateResult
          said,     \* the last flow event that was posted
          flows     \* history: how many flows were started

mlflow == <<runs, jobs, visible>>
environ == <<outer, env, saved>>
request == <<kind, vm, window>>
result == <<done, promotions, champion>>
vars == <<mlflow, environ, pc, request, todo, run, model, seen, result, said, flows>>

Init == /\ runs = <<>> /\ jobs = {} /\ visible \in BOOLEAN
        /\ outer \in {Local, <<0, Horizon>>} /\ env = outer /\ saved = <<>>
        /\ pc = "idle" /\ kind = "retrain" /\ vm = FALSE /\ window = <<0, 0>>
        /\ todo = <<>> /\ run = None /\ model = None /\ seen = None
        /\ done = <<>> /\ promotions = 0 /\ champion = None
        /\ said = "nothing" /\ flows = 0

Step(from, to) == pc = from /\ pc' = to

\* As in Batcher, an operator named X_<fault> is a faulty variant of X that no action
\* uses.

Smaller(a, b) == IF a < b THEN a ELSE b

\* The held-out last part of the year.
Reference == <<Horizon - 1, Horizon>>

\* The last chunk is not cut at the end.
Chunks_whole(s, e, period) ==
  [i \in 1..((e - s + period - 1) \div period) |-> <<s + (i - 1) * period, s + i * period>>]

\* _chunks: from s to e by period, the last one cut at e.
Chunks(s, e, period) ==
  [i \in 1..((e - s + period - 1) \div period) |->
     <<s + (i - 1) * period, Smaller(s + i * period, e)>>]

\* _read_last_window_end: the greatest window_end among the latest runs of the experiment,
\* tagged or not; the runs of a VM are in another one unless the poll sees them.
Cursor ==
  LET mine == {r \in 1..Len(runs) : visible \/ runs[r].name = None}
      latest == {r \in mine : Cardinality({q \in mine : q > r}) < Listed}
      ends == {runs[r].upto : r \in latest} \ {None}
  IN IF ends = {} THEN None ELSE Max(ends)

\* The next window starts one unit late, as if the end were inclusive.
NextWindow_inclusive(last) ==
  LET start == IF last = None THEN 0 ELSE IF last + 1 >= Horizon THEN 0 ELSE last + 1
  IN <<start, Smaller(start + Period, Horizon)>>

\* next_window.
NextWindow(last) == LET start == IF last = None THEN 0 ELSE IF last >= Horizon THEN 0 ELSE last
                    IN <<start, Smaller(start + Period, Horizon)>>

\* _env_overlay: __enter__.
Overlay(slice) == env' = slice /\ saved' = Append(saved, env)

\* Only the happy path restores.
Restore_forgotten == /\ env' = (IF pc = "raising" THEN env ELSE saved[Len(saved)])
                     /\ saved' = SubSeq(saved, 1, Len(saved) - 1)

\* The finally of the innermost _env_overlay.
Restore == /\ env' = saved[Len(saved)]
           /\ saved' = SubSeq(saved, 1, Len(saved) - 1)

\* An exception leaves the statement at hand.
Raise == pc' = "raising"

-----------------------------------------------------------------------------
\* A flow is called in a process of its own; the result is empty.
Begin(k) == /\ pc \in Over \cup {"idle"}
            /\ flows < MaxFlows
            /\ flows' = flows + 1
            /\ kind' = k
            /\ run' = None /\ model' = None /\ seen' = None
            /\ done' = <<>> /\ promotions' = 0 /\ champion' = None
            /\ UNCHANGED <<mlflow, outer>>

\* run_nightly does nothing without a tracking URI, and raises when the server does not
\* answer.
NightlyIdle == /\ Begin("nightly")
               /\ pc' \in {"returned", "raised"}
               /\ said' = "nothing" /\ vm' = FALSE /\ window' = <<0, 0>> /\ todo' = <<>>
               /\ UNCHANGED <<env, saved>>

\* run_nightly reads the cursor, overlays the environment with the reference slice and
\* runs a simulation of one chunk, on this machine.
BeginNightly == LET w == NextWindow(Cursor) IN
  /\ Begin("nightly")
  /\ pc' = "train"
  /\ said' = "running" /\ vm' = FALSE
  /\ window' = w
  /\ todo' = Chunks(w[1], w[2], w[2] - w[1])
  /\ Overlay(Reference)

\* simulate_flow, from the command line.
BeginSimulate == /\ Begin("simulate")
                 /\ pc' = "train"
                 /\ said' = "running" /\ vm' \in BOOLEAN
                 /\ window' \in Spans
                 /\ todo' = Chunks(window'[1], window'[2], ChunkPeriod)
                 /\ UNCHANGED <<env, saved>>

\* retrain_flow; the schedule calls it every night with the default configuration.
BeginRetrain == /\ Begin("retrain")
                /\ pc' = "prepare"
                /\ said' = "running" /\ vm' = FALSE /\ window' = <<0, 0>> /\ todo' = <<>>
                /\ UNCHANGED <<env, saved>>

\* preprocess_task loads both splits.
Prepare == /\ pc = "prepare"
           /\ pc' = "fit" \/ Raise
           /\ UNCHANGED <<mlflow, environ, request, todo, run, model, seen, result, said, flows>>

\* The place of the chunk in the period, which names its run: sim-<i>-<kind>.
Name == Len(done)

\* The chunk's clause is not put into the environment.
EnterTrain_unselected == /\ pc = "train"
                         /\ Overlay(env)
                         /\ \/ pc' = (IF vm THEN "poll" ELSE "fit")
                               /\ jobs' = IF vm THEN jobs \cup {<<Name, Head(todo)>>} ELSE jobs
                            \/ vm /\ Raise /\ UNCHANGED jobs
                         /\ UNCHANGED <<runs, visible, outer, request, todo, run, model, seen,
                                        result, said, flows>>

\* train_chunk_task: the chunk's clause goes into the environment of this process, and
\* with the VM executor also to the job it launches, which may fail.
EnterTrain == /\ pc = "train"
              /\ Overlay(Head(todo))
              /\ \/ pc' = (IF vm THEN "poll" ELSE "fit")
                    /\ jobs' = IF vm THEN jobs \cup {<<Name, Head(todo)>>} ELSE jobs
                 \/ vm /\ Raise /\ UNCHANGED jobs
              /\ UNCHANGED <<runs, visible, outer, request, todo, run, model, seen,
                             result, said, flows>>

\* training.train.run in this process: it reads what the environment selects, publishes
\* the model and leaves a run, finished or failed (none without a tracking server, which
\* the bench has asked for); it may raise before all that, once it has published, or, in
\* the push, when the run is finished.
Fit == /\ pc = "fit"
       /\ \/ /\ pc' = "evaluate"
             /\ model' = env
             /\ \/ /\ runs' = Append(runs, [name |-> None, status |-> "FINISHED",
                                            slice |-> env, upto |-> None])
                   /\ run' = Len(runs')
                \/ kind # "nightly" /\ run' = None /\ UNCHANGED runs
             /\ IF kind = "retrain" THEN UNCHANGED <<env, saved>> ELSE Restore
          \/ /\ Raise
             /\ model' \in {model, env}
             /\ \/ \E status \in {"FAILED", "FINISHED"} :
                     /\ status = "FINISHED" => model' = env
                     /\ runs' = Append(runs, [name |-> None, status |-> status, slice |-> env,
                                             upto |-> None])
                \/ UNCHANGED runs
             /\ UNCHANGED <<run, env, saved>>
       /\ UNCHANGED <<jobs, visible, outer, request, todo, seen, result, said, flows>>

\* A VM that was launched writes its run ...
VmStarts == /\ \E j \in jobs :
                 /\ runs' = Append(runs, [name |-> j[1], status |-> "RUNNING", slice |-> j[2],
                                          upto |-> None])
                 /\ jobs' = jobs \ {j}
            /\ UNCHANGED <<visible, environ, pc, request, todo, run, model, seen, result, said,
                           flows>>

\* ... and finishes or fails it.
VmEnds == /\ \E r \in 1..Len(runs) :
               /\ runs[r].status = "RUNNING"
               /\ \E status \in {"FINISHED", "FAILED"} :
                    runs' = [runs EXCEPT ![r].status = status]
          /\ UNCHANGED <<jobs, visible, environ, pc, request, todo, run, model, seen, result,
                         said, flows>>

\* _poll_mlflow looks at the newest run of that name until it is FINISHED; a local fit has
\* no such name.
Poll == /\ Step("poll", "evaluate")
        /\ visible
        /\ LET named == {r \in 1..Len(runs) : runs[r].name = Name}
           IN /\ named # {}
              /\ runs[Max(named)].status = "FINISHED"
              /\ run' = Max(named)
        /\ Restore
        /\ UNCHANGED <<mlflow, outer, request, todo, model, seen, result, said, flows>>

\* Every look at MLflow sets the deadline anew.
PollTimesOut_never == /\ pc = "poll"
                      /\ UNCHANGED vars

\* ... or the deadline passes.
PollTimesOut == /\ pc = "poll"
                /\ Raise
                /\ UNCHANGED <<mlflow, environ, request, todo, run, model, seen, result, said,
                               flows>>

\* evaluate_chunk_task, evaluate_task: STATE.model of this process is scored on what the
\* environment selects.  A VM leaves no model here.
Evaluate == /\ pc = "evaluate"
            /\ \/ /\ model # None
                  /\ pc' = (IF kind = "retrain" THEN "finish" ELSE "promote")
                  /\ seen' = env
               \/ Raise /\ UNCHANGED seen
            /\ UNCHANGED <<mlflow, environ, request, todo, run, model, result, said, flows>>

\* The last chunk is not noticed.
Promote_again ==
  /\ pc = "promote"
  /\ \/ \E promoted \in BOOLEAN :
          /\ done' = Append(done, [slice |-> Head(todo), run |-> run, model |-> model,
                                   on |-> seen, promoted |-> promoted])
          /\ promotions' = IF promoted THEN promotions + 1 ELSE promotions
          /\ champion' = IF promoted THEN run ELSE champion
          /\ pc' = "train"
          /\ todo' = Tail(todo)
     \/ Raise /\ UNCHANGED <<result, todo>>
  /\ UNCHANGED <<mlflow, environ, request, run, model, seen, said, flows>>

\* promote_task hands the run id on as the version; what it decides is Promotion's
\* matter, and it may raise: it does without a run.  The chunk joins the result.
Promote ==
  /\ pc = "promote"
  /\ \/ \E promoted \in BOOLEAN :
          /\ run # None
          /\ done' = Append(done, [slice |-> Head(todo), run |-> run, model |-> model,
                                   on |-> seen, promoted |-> promoted])
          /\ promotions' = IF promoted THEN promotions + 1 ELSE promotions
          /\ champion' = IF promoted THEN run ELSE champion
          /\ pc' = (IF Len(todo) = 1 THEN "finish" ELSE "train")
          /\ todo' = Tail(todo)
     \/ Raise /\ UNCHANGED <<result, todo>>
  /\ UNCHANGED <<mlflow, environ, request, run, model, seen, said, flows>>

\* notify_flow_event, which never raises; the bench leaves its overlay.
Finish == /\ Step("finish", IF kind = "nightly" THEN "tag_start" ELSE "returned")
          /\ said' = "success"
          /\ IF kind = "nightly" THEN Restore ELSE UNCHANGED <<env, saved>>
          /\ UNCHANGED <<mlflow, outer, request, todo, run, model, seen, result, flows>>

\* The window's start is written to the run (nothing reads it) ...
TagStart == /\ pc = "tag_start"
            /\ pc' = "tag_end" \/ Raise
            /\ UNCHANGED <<mlflow, environ, request, todo, run, model, seen, result, said, flows>>

\* ... and its end, the cursor of the next one.
TagEnd == /\ pc = "tag_end"
          /\ \/ pc' = "returned" /\ runs' = [runs EXCEPT ![run].upto = window[2]]
             \/ Raise /\ UNCHANGED runs
          /\ UNCHANGED <<jobs, visible, environ, request, todo, run, model, seen, result, said,
                         flows>>

\* An exception goes up: overlays are undone from the inside out; the retraining posts
\* that it failed, the others post nothing.
Unwind == /\ pc = "raising"
          /\ \/ saved # <<>> /\ Restore /\ UNCHANGED <<pc, said>>
             \/ /\ saved = <<>>
                /\ pc' = "raised"
                /\ said' = IF kind = "retrain" THEN "failed" ELSE said
                /\ UNCHANGED <<env, saved>>
          /\ UNCHANGED <<mlflow, outer, request, todo, run, model, seen, result, flows>>

\* The process dies, and its environment with it.
Crash == /\ pc \in Busy
         /\ pc' = "crashed"
         /\ env' = outer /\ saved' = <<>>
         /\ UNCHANGED <<mlflow, outer, request, todo, run, model, seen, result, said, flows>>

GoOn == \/ Prepare \/ EnterTrain \/ Fit \/ Poll \/ PollTimesOut \/ Evaluate \/ Promote
        \/ Finish \/ TagStart \/ TagEnd \/ Unwind

Next == \/ NightlyIdle \/ BeginNightly \/ BeginSimulate \/ BeginRetrain
        \/ VmStarts \/ VmEnds \/ GoOn \/ Crash

\* A flow that has begun goes on; the poll has a deadline.
Fairness == WF_vars(GoOn)

Spec == Init /\ [][Next]_vars /\ Fairness

-----------------------------------------------------------------------------
(* Properties.                                                             *)

Runs == [name : Nat \cup {None}, status : {"RUNNING", "FINISHED", "FAILED"},
         slice : Slices \cup {Local}, upto : Nat \cup {None}]

\* Every variable stays in its type; chunks are left where one is handled.
TypeOK ==
  /\ runs \in Seq(Runs) /\ jobs \subseteq Nat \X Slices /\ visible \in BOOLEAN
  /\ outer \in Slices \cup {Local} /\ env \in Slices \cup {Local}
  /\ saved \in Seq(Slices \cup {Local})
  /\ pc \in Busy \cup Over \cup {"idle"} /\ kind \in Kinds /\ vm \in BOOLEAN
  /\ window \in Slices /\ todo \in Seq(Slices)
  /\ run \in (1..Len(runs)) \cup {None}
  /\ model \in Slices \cup {Local, None} /\ seen \in Slices \cup {Local, None}
  /\ done \in Seq([slice : Slices, run : 1..Len(runs), model : Slices \cup {Local},
                   on : Slices \cup {Local}, promoted : BOOLEAN])
  /\ promotions \in Nat /\ champion \in Nat \cup {None}
  /\ said \in {"nothing", "running", "success", "failed"} /\ flows \in 0..MaxFlows
  /\ pc \in {"train", "fit", "poll", "promote"} /\ kind # "retrain" => todo # <<>>

\* Whatever way a flow ends, the environment of the process is as it was, and while a
\* chunk is scored or promoted it is that of the caller, not the chunk's
\* (simulate.py:65-97, 283; nightly.py:125).
EnvRestored ==
  /\ pc \in Over \cup {"idle"} => env = outer /\ saved = <<>>
  /\ pc \in {"train", "evaluate", "promote", "finish"} =>
       env = IF kind = "nightly" THEN Reference ELSE outer

\* A chunk's entry in the result is about one model: the run it names was fitted on that
\* chunk, and the model scored for it, on the same slice as every other chunk's, is that
\* of the run (simulate.py:271-300, 402-417).
ChunkIsItsOwn ==
  \A i \in 1..Len(done) :
    /\ runs[done[i].run].slice = done[i].slice
    /\ runs[done[i].run].status = "FINISHED"
    /\ done[i].model = done[i].slice
    /\ done[i].on = IF kind = "nightly" THEN Reference ELSE outer

\* The bench leaves no hole: a window that carries the cursor was fitted and begins at
\* the floor or where another one ends, whatever broke off in between
\* (nightly.py:55-89, 112-138).
WindowsContiguous ==
  \A r \in 1..Len(runs) : runs[r].upto # None =>
    /\ runs[r].status = "FINISHED"
    /\ runs[r].slice[2] = runs[r].upto
    /\ runs[r].slice[1] = 0 \/ \E q \in 1..(r - 1) : runs[q].upto = runs[r].slice[1]

\* Success is posted when nothing is missing: the chunks follow each other over the whole
\* period, each with a decision, and the promotions reported are those decided
\* (simulate.py:363-371, 402-432).
SuccessIsComplete ==
  said = "success" /\ kind # "retrain" =>
    /\ done # <<>>
    /\ done[1].slice[1] = window[1] /\ done[Len(done)].slice[2] = window[2]
    /\ \A i \in 1..(Len(done) - 1) : done[i].slice[2] = done[i + 1].slice[1]
    /\ promotions = Cardinality({i \in 1..Len(done) : done[i].promoted})
    /\ promotions > 0 => \E i \in 1..Len(done) :
         /\ done[i].promoted /\ champion = done[i].run
         /\ \A j \in (i + 1)..Len(done) : ~done[j].promoted

\* Every flow ends: the poll of a VM that never answers has a deadline
\* (simulate.py:226-249).
FlowEnds == pc \in Busy ~> pc \in Over

\* nightly.py:4-5, 12: "each scheduled run advances one chunk forward in time", and "wraps
\* back to Jan" after the last.
AdvancesOneChunk ==
  \A q, r \in 1..Len(runs) :
    /\ q < r /\ runs[q].upto # None /\ runs[r].upto # None
    /\ \A m \in (q + 1)..(r - 1) : runs[m].upto = None
    => \/ runs[r].slice[1] = runs[q].upto
       \/ runs[q].upto = Horizon /\ runs[r].slice[1] = 0
=============================================================================
