------------------------------- MODULE Batcher -------------------------------
(***************************************************************************)
(* deepCab/serving/batcher.py: the request coalescer in front of the ONNX  *)
(* runtime.  Callers await submit(row); one worker task takes rows from an *)
(* asyncio queue, up to MaxBatch of them or until the deadline, makes one  *)
(* runtime call and settles every future of the batch.                     *)
(*                                                                         *)
(* All coroutines share one event loop: a coroutine runs alone until it    *)
(* awaits something that is not ready.  The worker's places are therefore  *)
(* split in two: where it is suspended, so that others may step, and where *)
(* it runs and nothing else can.  Time is abstracted: the deadline may     *)
(* pass at every look at the clock.                                        *)
(***************************************************************************)
EXTENDS Naturals, Sequences

CONSTANTS Requests,    \* the calls of submit(), one per caller
          MaxBatch,    \* max_batch
          NoRow,       \* "no prediction received"
          Sentinel,    \* the zero-size item stop() puts into the queue
          MaxFaults    \* bound: how often the runtime may raise

ASSUME BatcherAssumption == /\ MaxBatch \in Nat \ {0}
                            /\ MaxFaults \in Nat
                            /\ NoRow \notin Requests
                            /\ Sentinel \notin Requests

VARIABLES queue,    \* self._queue: requests and the sentinel, oldest first
          batch,    \* the local `items` of _collect_batch and _run
          worker,   \* where the worker task is
          closed,   \* self._closed
          stopper,  \* the coroutine that called stop()
          loop,     \* the event loop: "up" or "down"
          fut,      \* what each caller of submit() sees
          val,      \* whose row the number it received was computed from
          kind,     \* what it submitted: "good", "bad" (shape) or "empty" row
          faults,   \* how often the runtime itself raised
          log       \* history: the accepted requests in order of submission

vars == <<queue, batch, worker, closed, stopper, loop, fut, val, kind, faults, log>>

Kinds == {"good", "bad", "empty"}

\* Where the worker awaits: before its first step, in queue.get(), in wait_for().
Waiting == {"created", "get", "wait_for"}
\* Where it runs without letting anyone else run.
Running == {"top", "fill", "predict"}
WorkerStates == {"absent", "exited"} \cup Waiting \cup Running

FutStates == {"none", "pending", "result", "exception", "cancelled", "refused"}
Settled == {"result", "exception", "cancelled", "refused"}

\* Operators named X_<fault> are faulty variants of X: what a plausible slip in the
\* code would make of it.  No action uses them; each shows that a property below
\* tells the code from the slip.

\* The other coroutines step only while the worker is not running.
Yielded == loop = "up" /\ worker \notin Running

Init == /\ queue = <<>>
        /\ batch = <<>>
        /\ worker = "absent"
        /\ closed = FALSE
        /\ stopper = "absent"
        /\ loop = "up"
        /\ fut = [r \in Requests |-> "none"]
        /\ val = [r \in Requests |-> NoRow]
        /\ kind = [r \in Requests |-> "good"]
        /\ faults = 0
        /\ log = <<>>

-----------------------------------------------------------------------------
(* The callers.                                                            *)

\* start(): create the worker task once; a second start() does nothing.
Start == /\ Yielded
         /\ worker = "absent"
         /\ worker' = "created"
         /\ UNCHANGED <<queue, batch, closed, stopper, loop, fut, val, kind, faults, log>>

\* submit(row) on an open batcher: the check and the put happen in one go, since
\* put() on an unbounded queue does not suspend; then the caller awaits.
Submit(r) == /\ Yielded
             /\ ~closed
             /\ fut[r] = "none"
             /\ \E k \in Kinds : kind' = [kind EXCEPT ![r] = k]
             /\ fut' = [fut EXCEPT ![r] = "pending"]
             /\ queue' = Append(queue, r)
             /\ log' = Append(log, r)
             /\ UNCHANGED <<batch, worker, closed, stopper, loop, val, faults>>

\* submit(row) once closed raises.
Refuse(r) == /\ Yielded
             /\ closed
             /\ fut[r] = "none"
             /\ fut' = [fut EXCEPT ![r] = "refused"]
             /\ UNCHANGED <<queue, batch, worker, closed, stopper, loop, val, kind, faults, log>>

\* A caller is cancelled while it awaits: its future is cancelled with it and
\* the item stays where it is.
Cancel(r) == /\ Yielded
             /\ fut[r] = "pending"
             /\ fut' = [fut EXCEPT ![r] = "cancelled"]
             /\ UNCHANGED <<queue, batch, worker, closed, stopper, loop, val, kind, faults, log>>

\* stop() that only sets the flag.
Stop_without_sentinel ==
  /\ Yielded
  /\ stopper = "absent"
  /\ closed' = TRUE
  /\ stopper' = IF worker = "absent" THEN "skipped" ELSE "awaiting"
  /\ UNCHANGED <<queue, batch, worker, loop, fut, val, kind, faults, log>>

\* stop(): close, wake the worker with the sentinel, await it.  Without a worker
\* there is nothing to wake or await.
Stop == /\ Yielded
        /\ stopper = "absent"
        /\ closed' = TRUE
        /\ IF worker = "absent"
             THEN stopper' = "skipped" /\ UNCHANGED queue
             ELSE stopper' = "awaiting" /\ queue' = Append(queue, Sentinel)
        /\ UNCHANGED <<batch, worker, loop, fut, val, kind, faults, log>>

StopReturns == /\ Yielded
               /\ stopper = "awaiting"
               /\ worker = "exited"
               /\ stopper' = "returned"
               /\ UNCHANGED <<queue, batch, worker, closed, loop, fut, val, kind, faults, log>>

\* The loop is torn down: every task is cancelled where it awaits.  The worker
\* returns and forgets the items it had collected.
TearDown == /\ Yielded
            /\ loop' = "down"
            /\ worker' = IF worker = "absent" THEN "absent" ELSE "exited"
            /\ batch' = <<>>
            /\ fut' = [r \in Requests |-> IF fut[r] = "pending" THEN "cancelled" ELSE fut[r]]
            /\ UNCHANGED <<queue, closed, stopper, val, kind, faults, log>>

-----------------------------------------------------------------------------
(* The worker.                                                             *)

\* The first step of the created task.
WorkerBegins == /\ loop = "up"
                /\ worker = "created"
                /\ worker' = "top"
                /\ UNCHANGED <<queue, batch, closed, stopper, loop, fut, val, kind, faults, log>>

\* `while not self._closed`, then queue.get(), which suspends on an empty queue only.
LoopTop == /\ worker = "top"
           /\ worker' = IF closed THEN "exited" ELSE "get"
           /\ UNCHANGED <<queue, batch, closed, stopper, loop, fut, val, kind, faults, log>>

\* A last-in-first-out queue.
GetFirst_lifo ==
  /\ loop = "up"
  /\ worker = "get"
  /\ queue # <<>>
  /\ batch' = <<queue[Len(queue)]>>
  /\ queue' = SubSeq(queue, 1, Len(queue) - 1)
  /\ worker' = "fill"
  /\ UNCHANGED <<closed, stopper, loop, fut, val, kind, faults, log>>

\* The first row of a batch.
GetFirst == /\ loop = "up"
            /\ worker = "get"
            /\ queue # <<>>
            /\ batch' = <<Head(queue)>>
            /\ queue' = Tail(queue)
            /\ worker' = "fill"
            /\ UNCHANGED <<closed, stopper, loop, fut, val, kind, faults, log>>

\* `<=` for `<` in the loop condition.
Fill_off_by_one ==
  /\ worker = "fill"
  /\ \/ worker' = "predict"
     \/ Len(batch) <= MaxBatch /\ worker' = "wait_for"
  /\ UNCHANGED <<queue, batch, closed, stopper, loop, fut, val, kind, faults, log>>

\* The collecting loop gives up as soon as it sees `closed`.
Fill_gives_up_when_closed ==
  /\ worker = "fill"
  /\ IF closed
       THEN worker' = "top" /\ batch' = <<>>
       ELSE /\ UNCHANGED batch
            /\ \/ worker' = "predict"
               \/ Len(batch) < MaxBatch /\ worker' = "wait_for"
  /\ UNCHANGED <<queue, closed, stopper, loop, fut, val, kind, faults, log>>

\* The head of the collecting loop: a full batch goes to the runtime, and so does
\* a batch whose deadline has passed; otherwise wait for one more row.
Fill == /\ worker = "fill"
        /\ \/ worker' = "predict"
           \/ Len(batch) < MaxBatch /\ worker' = "wait_for"
        /\ UNCHANGED <<queue, batch, closed, stopper, loop, fut, val, kind, faults, log>>

\* wait_for(queue.get()) returns a row ...
GetMore == /\ loop = "up"
           /\ worker = "wait_for"
           /\ queue # <<>>
           /\ batch' = Append(batch, Head(queue))
           /\ queue' = Tail(queue)
           /\ worker' = "fill"
           /\ UNCHANGED <<closed, stopper, loop, fut, val, kind, faults, log>>

\* The timeout swallows the row the cancelled get() had taken.
Deadline_swallows_row ==
  /\ loop = "up"
  /\ worker = "wait_for"
  /\ worker' = "predict"
  /\ queue' = IF queue = <<>> THEN queue ELSE Tail(queue)
  /\ UNCHANGED <<batch, closed, stopper, loop, fut, val, kind, faults, log>>

\* ... or times out, and the queue keeps what may have arrived meanwhile.
Deadline == /\ loop = "up"
            /\ worker = "wait_for"
            /\ worker' = "predict"
            /\ UNCHANGED <<queue, batch, closed, stopper, loop, fut, val, kind, faults, log>>

\* `real`: the positions of the batch that hold a row.
Real(b) == {i \in DOMAIN b : b[i] # Sentinel /\ kind[b[i]] # "empty"}

\* The squeeze at the end of runtime.predict leaves one number for the whole batch.
Predictions_squeezed(b) ==
  [i \in Real(b) |-> b[CHOOSE j \in Real(b) : \A k \in Real(b) : j <= k]]

\* np.stack and runtime.predict over those rows: one number per row, by position.
Predictions(b) == [i \in Real(b) |-> b[i]]

\* `if not it.fut.done()`: the futures a batch may still settle.
Unsettled(b) == {r \in Requests : fut[r] = "pending" /\ \E i \in Real(b) : b[i] = r}

\* One runtime call for the batch, every number to the future of its own row.
PredictOk == LET ys == Predictions(batch)
                 at(r) == CHOOSE i \in Real(batch) : batch[i] = r
             IN
             /\ worker = "predict"
             /\ \A i \in Real(batch) : kind[batch[i]] = "good"
             /\ fut' = [r \in Requests |->
                          IF r \in Unsettled(batch) THEN "result" ELSE fut[r]]
             /\ val' = [r \in Requests |->
                          IF r \in Unsettled(batch) THEN ys[at(r)] ELSE val[r]]
             /\ batch' = <<>>
             /\ worker' = "top"
             /\ UNCHANGED <<queue, closed, stopper, loop, kind, faults, log>>

\* The worker has no `except`: the exception ends it.
PredictFails_uncaught ==
  /\ worker = "predict"
  /\ Real(batch) # {}
  /\ \/ (\E i \in Real(batch) : kind[batch[i]] = "bad") /\ UNCHANGED faults
     \/ faults < MaxFaults /\ faults' = faults + 1
  /\ batch' = <<>>
  /\ worker' = "exited"
  /\ UNCHANGED <<queue, closed, stopper, loop, fut, val, kind, log>>

\* set_result on a cancelled future raises, and the rest of the batch pays for it.
PredictFails_on_cancelled ==
  /\ worker = "predict"
  /\ Real(batch) # {}
  /\ \/ (\E i \in Real(batch) : kind[batch[i]] = "bad") /\ UNCHANGED faults
     \/ (\E i \in Real(batch) : fut[batch[i]] = "cancelled") /\ UNCHANGED faults
     \/ faults < MaxFaults /\ faults' = faults + 1
  /\ fut' = [r \in Requests |-> IF r \in Unsettled(batch) THEN "exception" ELSE fut[r]]
  /\ batch' = <<>>
  /\ worker' = "top"
  /\ UNCHANGED <<queue, closed, stopper, loop, val, kind, log>>

\* The stacking or the runtime raises: every future of the batch gets the error.
\* A batch without rows makes no call and cannot fail.
PredictFails == /\ worker = "predict"
                /\ Real(batch) # {}
                /\ \/ (\E i \in Real(batch) : kind[batch[i]] = "bad") /\ UNCHANGED faults
                   \/ faults < MaxFaults /\ faults' = faults + 1
                /\ fut' = [r \in Requests |->
                             IF r \in Unsettled(batch) THEN "exception" ELSE fut[r]]
                /\ batch' = <<>>
                /\ worker' = "top"
                /\ UNCHANGED <<queue, closed, stopper, loop, val, kind, log>>

-----------------------------------------------------------------------------
Worker == \/ WorkerBegins \/ LoopTop \/ GetFirst \/ Fill \/ GetMore \/ Deadline
          \/ PredictOk \/ PredictFails

Callers == \/ Start \/ Stop \/ StopReturns \/ TearDown
           \/ \E r \in Requests : Submit(r) \/ Refuse(r) \/ Cancel(r)

Next == Worker \/ Callers

\* The loop runs every task that is ready, and the timer of wait_for() fires.
\* Nobody is obliged to call start(), stop() or submit().
Fairness == WF_vars(Worker) /\ WF_vars(StopReturns)

Spec == Init /\ [][Next]_vars /\ Fairness

-----------------------------------------------------------------------------
(* Properties.                                                             *)

\* Every variable stays in its type, and the locals of the worker agree with
\* its place: it holds rows only between GetFirst and the runtime call.
TypeOK == /\ queue \in Seq(Requests \cup {Sentinel})
          /\ batch \in Seq(Requests \cup {Sentinel})
          /\ worker \in WorkerStates
          /\ closed \in BOOLEAN
          /\ stopper \in {"absent", "awaiting", "returned", "skipped"}
          /\ loop \in {"up", "down"}
          /\ fut \in [Requests -> FutStates]
          /\ val \in [Requests -> Requests \cup {NoRow}]
          /\ kind \in [Requests -> Kinds]
          /\ faults \in 0..MaxFaults
          /\ log \in Seq(Requests)
          /\ Len(batch) <= MaxBatch
          /\ (batch # <<>>) <=> (worker \in {"fill", "wait_for", "predict"})
          /\ worker = "wait_for" => Len(batch) < MaxBatch

line == batch \o queue

\* A row of features is in the batcher exactly once while its caller waits, and
\* not at all once its caller was given a result or an error: no row is lost
\* between queue and batch, none is computed twice (batcher.py:62-105).
ExactlyOnce ==
  /\ \A i, j \in DOMAIN line : line[i] = line[j] /\ line[i] # Sentinel => i = j
  /\ \A r \in Requests : fut[r] = "pending" /\ kind[r] # "empty"
                           => \E i \in DOMAIN line : line[i] = r
  /\ \A r \in Requests : fut[r] \in {"none", "refused", "result", "exception"}
                           => \A i \in DOMAIN line : line[i] # r

\* Callers are answered in the order of their submission: nobody gets a result or
\* an error while an earlier row of features is still waiting (batcher.py:93-105).
FirstComeFirstServed ==
  \A j \in DOMAIN log : \A i \in 1..(j - 1) :
    fut[log[j]] \in {"result", "exception"} /\ kind[log[i]] # "empty"
      => fut[log[i]] # "pending"

\* Neighbours in a batch share a failure only when there is one: without a
\* misshapen row or a runtime fault nobody sees an exception, whoever cancelled
\* and whenever the batcher was closed (batcher.py:80-91).
NoSpuriousError ==
  faults = 0 /\ (\A r \in Requests : kind[r] # "bad")
    => \A r \in Requests : fut[r] # "exception"

\* What a caller saw once it sees for ever: a future is settled at most once,
\* so a cancelled caller is never answered (batcher.py:85, 89).
SettledOnce ==
  [][\A r \in Requests : fut[r] \in Settled => fut'[r] = fut[r] /\ val'[r] = val[r]]_vars

\* The batcher is the row service: rows are served from a single line, a prefix
\* of at most MaxBatch rows at a time, each with its own number or all with one
\* error, however collecting, closing and cancelling interleave.
Service == INSTANCE RowService
             WITH line <- line,
                  void <- {r \in Requests : kind[r] = "empty"},
                  open <- ~closed,
                  Marker <- Sentinel

ServiceSpec == Service!SSpec

\* Every row of features that was submitted to a started batcher is answered,
\* unless the batcher is closed or the loop torn down first.
Served ==
  \A r \in Requests :
    (fut[r] = "pending" /\ kind[r] # "empty" /\ worker # "absent")
      ~> (fut[r] \in Settled \/ closed \/ loop = "down")

\* A row the worker has taken is answered even when stop() comes in between: the
\* part of "drains in-flight items on stop" (batcher.py:13) that holds.
CollectedIsAnswered ==
  \A r \in Requests :
    ((\E i \in DOMAIN batch : batch[i] = r) /\ kind[r] # "empty") ~> (fut[r] \in Settled)

\* stop() returns: the worker always sees `closed`, also when it was waiting on an
\* empty queue with nobody left to submit (batcher.py:53-60).
StopEnds == (stopper = "awaiting") ~> (stopper = "returned" \/ loop = "down")

\* batcher.py:13, "The worker drains in-flight items on stop": once stop() has
\* returned from awaiting the worker nobody is left waiting for a row of features.
DrainedOnStop ==
  stopper = "returned" => \A r \in Requests : kind[r] # "empty" => fut[r] # "pending"
=============================================================================
