------------------------------- MODULE Serving -------------------------------
(***************************************************************************)
(* The worker processes behind one API (deepCab serve --workers): each has *)
(* its own STATE, SHAP summaries and Redis connection; they share the      *)
(* LATEST pointer and Redis.  A request for the global SHAP summary holds  *)
(* the handle its dependency captured and goes through the two-level cache *)
(* of explain/cache.py; a GraphQL predict reads STATE.model again for each *)
(* part of its answer, while trainings publish from pool threads.  Both    *)
(* run on the event loop without an await: one of them at a time.          *)
(***************************************************************************)
EXTENDS Naturals, FiniteSets

CONSTANTS Workers, Requests,
          Jobs,        \* trainings, each naming the model it fits
          KindOf, CfgOf, BackgroundOf, \* what each is fitted with
          ValRows,     \* the rows of its validation split
          Default,     \* the default configuration of a kind
          Unexplained, \* the handles whose estimator SHAP raises on, trained or not
          None,
          MaxSaving,   \* bound: published models whose pointer is not moved yet
          MaxRestarts, \* bound: restarts of workers
          MaxOutages   \* bound: how often Redis goes away or loses an entry

\* load() of these makes an estimator of the default configuration, ...
Forgetting == {"tf_mlp", "xgb", "lgbm", "catboost"}
\* ... of this one leaves the weights aside, in an attribute nothing reads, ...
Pending == {"torch_mlp"}
\* ... and of this one restores the estimator that was saved.
Kept == {"ft_transformer"}
Kinds == Forgetting \cup Pending \cup Kept

\* What STATE.model may be: the model of a training, as fitted or as restored.
Handles == [job : Jobs, restored : BOOLEAN]

ASSUME ServingAssumption ==
  /\ None \notin Jobs \cup Workers \cup Handles
  /\ KindOf \in [Jobs -> Kinds] /\ DOMAIN CfgOf = Jobs /\ DOMAIN BackgroundOf = Jobs
  /\ ValRows \in [Jobs -> Nat]
  /\ MaxSaving \in Nat /\ MaxRestarts \in Nat /\ MaxOutages \in Nat

VARIABLES model,    \* STATE.model of each worker: a handle, or None
          place,    \* of each training: not begun, published, over
          trainer,  \* the worker that runs it
          latest,   \* the file runs/LATEST
          local,    \* _LOCAL_CACHE of each worker
          client,   \* _redis_client._cached of each worker
          redis,    \* the entries of Redis
          reachable, \* Redis answers
          configured, \* OBS_REDIS_URL is set
          pc, at,   \* where each request is, and in which worker
          asked,    \* the handle its dependency captured
          got,      \* the models the parts of its answer come from
          lived,    \* history: the handles live in its worker while it ran
          forgot,   \* history: an estimator came back without its configuration
          restarts, outages

training == <<model, place, trainer, latest>>
cache == <<local, client, redis>>
outside == <<reachable, configured, outages>>
request == <<pc, at, asked, got>>
vars == <<training, cache, outside, request, lived, forgot, restarts>>

Parts == {"fare", "bounds", "kind", "summary"}
OnLoop == {"compute", "put", "fare", "check", "bounds", "kind"}
Places == {"new", "captured", "served", "refused", "failed", "lost"} \cup OnLoop

\* As in Batcher, an operator named X_<fault> is a faulty variant of X that no action
\* uses.

\* The models with an interval: three tenths of the split make at least 30 residuals.
Calibrated == {j \in Jobs : (3 * ValRows[j]) \div 10 >= 30}

\* The configuration the estimator of handle h has now.
ConfigNow(h) == IF h.restored /\ KindOf[h.job] \in Forgetting
                  THEN Default ELSE CfgOf[h.job]

\* The estimator of handle h has the attributes predict() and SHAP use.
Ready(h) == ~(h.restored /\ KindOf[h.job] \in Pending)

\* SHAP explains the estimator of handle h.
Explains(h) == Ready(h) /\ h \notin Unexplained

\* The key is the kind and the background only.
Fingerprint_kindonly(h) == <<KindOf[h.job], Default, BackgroundOf[h.job]>>

\* The cache key: the configuration, which holds the kind, and the background, but
\* neither the weights nor the training data.
Fingerprint(h) == <<KindOf[h.job], ConfigNow(h), BackgroundOf[h.job]>>

Keys == {KindOf[j] : j \in Jobs} \X ({CfgOf[j] : j \in Jobs} \cup {Default})
          \X {BackgroundOf[j] : j \in Jobs}

Nothing == [p \in Parts |-> None]

Init == /\ model = [w \in Workers |-> None] /\ place = [j \in Jobs |-> "new"]
        /\ trainer = [j \in Jobs |-> None] /\ latest = None
        /\ local = [w \in Workers |-> [k \in Keys |-> None]]
        /\ client = [w \in Workers |-> "unset"] /\ redis = [k \in Keys |-> None]
        /\ configured \in BOOLEAN /\ reachable = configured
        /\ pc = [q \in Requests |-> "new"] /\ at = [q \in Requests |-> None]
        /\ asked = [q \in Requests |-> None] /\ got = [q \in Requests |-> Nothing]
        /\ lived = [q \in Requests |-> {}] /\ forgot = FALSE
        /\ restarts = 0 /\ outages = 0

Goto(q, to) == pc' = [pc EXCEPT ![q] = to]
Take(q, part, job) == got' = [got EXCEPT ![q][part] = job]

Running(w) == {q \in Requests : at[q] = w /\ pc[q] \in OnLoop}

-----------------------------------------------------------------------------
(* Trainings, and the processes.                                           *)

\* A training in worker w replaces the handle of that worker.
Publish(w, j) ==
  /\ Cardinality({i \in Jobs : place[i] = "live"}) < MaxSaving
  /\ place[j] = "new" /\ place' = [place EXCEPT ![j] = "live"]
  /\ trainer' = [trainer EXCEPT ![j] = w]
  /\ model' = [model EXCEPT ![w] = [job |-> j, restored |-> FALSE]]
  /\ lived' = [q \in Requests |-> IF q \in Running(w) THEN lived[q] \cup {model'[w]}
                                                      ELSE lived[q]]
  /\ UNCHANGED <<latest, cache, outside, request, forgot, restarts>>

\* It has saved the handle and moves the pointer, unless saving fails.
Save(j) == /\ place[j] = "live" /\ place' = [place EXCEPT ![j] = "over"]
           /\ latest' = j
           /\ UNCHANGED <<model, trainer, cache, outside, request, lived, forgot, restarts>>

\* The worker ends with its trainings and requests; the lifespan of the next process
\* rebuilds the handle LATEST names.
Restart(w) ==
  /\ restarts < MaxRestarts /\ restarts' = restarts + 1
  /\ place' = [j \in Jobs |-> IF place[j] = "live" /\ trainer[j] = w THEN "over"
                                                                    ELSE place[j]]
  /\ model' = [model EXCEPT ![w] = IF latest = None THEN None
                                   ELSE [job |-> latest, restored |-> TRUE]]
  /\ forgot' = (forgot \/ (model'[w] # None /\ ConfigNow(model'[w]) # CfgOf[latest]))
  /\ local' = [local EXCEPT ![w] = [k \in Keys |-> None]]
  /\ client' = [client EXCEPT ![w] = "unset"]
  /\ pc' = [q \in Requests |-> IF at[q] = w /\ pc[q] \in OnLoop \cup {"captured"}
                                 THEN "lost" ELSE pc[q]]
  /\ UNCHANGED <<trainer, latest, redis, outside, at, asked, got, lived>>

\* Redis goes away, comes back, or drops an entry after its day.
RedisStops == /\ reachable /\ reachable' = FALSE
              /\ outages < MaxOutages /\ outages' = outages + 1
              /\ UNCHANGED <<training, cache, configured, request, lived, forgot, restarts>>

RedisStarts == /\ configured /\ ~reachable /\ reachable' = TRUE
               /\ UNCHANGED <<training, cache, configured, outages, request, lived, forgot,
                              restarts>>

Expire(k) == /\ redis[k] # None /\ redis' = [redis EXCEPT ![k] = None]
             /\ outages < MaxOutages /\ outages' = outages + 1
             /\ UNCHANGED <<training, local, client, reachable, configured, request, lived,
                            forgot, restarts>>

-----------------------------------------------------------------------------
(* GET /explain/summary.                                                   *)

\* get_model_handle, in a thread of the pool: 503 without a model.
Capture(q, w) ==
  /\ pc[q] = "new" /\ at' = [at EXCEPT ![q] = w]
  /\ asked' = [asked EXCEPT ![q] = model[w]]
  /\ Goto(q, IF model[w] = None THEN "refused" ELSE "captured")
  /\ UNCHANGED <<training, cache, outside, got, lived, forgot, restarts>>

\* The connection is tried once in the life of a process, and its failure is kept.
Connection(w) == IF ~configured THEN "none"
                 ELSE IF client[w] # "unset" THEN client[w]
                 ELSE IF reachable THEN "client" ELSE "none"

Connect(w) == client' = [client EXCEPT ![w] = IF configured THEN Connection(w) ELSE @]

\* The exception of a get that fails is not caught.
Look_unguarded(q) ==
  LET w == at[q]
      k == Fingerprint(asked[q])
      found == IF Connection(w) = "client" /\ redis[k] # None THEN redis[k] ELSE local[w][k]
  IN /\ pc[q] = "captured" /\ Running(w) = {}
     /\ Connect(w) /\ Take(q, "summary", found)
     /\ Goto(q, IF Connection(w) = "client" /\ ~reachable THEN "failed"
                ELSE IF found = None THEN "compute" ELSE "served")
     /\ UNCHANGED <<training, local, redis, outside, at, asked, lived, forgot, restarts>>

\* fingerprint and _get_cached: Redis if it answers and has the entry, else the
\* dictionary of the process.
Look(q) ==
  LET w == at[q]
      k == Fingerprint(asked[q])
      found == IF Connection(w) = "client" /\ reachable /\ redis[k] # None
                 THEN redis[k] ELSE local[w][k]
  IN /\ pc[q] = "captured" /\ Running(w) = {}
     /\ Connect(w) /\ Take(q, "summary", found)
     /\ Goto(q, IF found = None THEN "compute" ELSE "served")
     /\ UNCHANGED <<training, local, redis, outside, at, asked, lived, forgot, restarts>>

\* compute_global_summary: the explainer takes estimator.model_, and the explainer or the
\* aggregation may raise.  The rows are drawn with a fixed seed: it does so for a model
\* every time, or never.
Compute(q) ==
  /\ pc[q] = "compute"
  /\ IF Explains(asked[q]) THEN Take(q, "summary", asked[q].job) /\ Goto(q, "put")
                           ELSE UNCHANGED got /\ Goto(q, "failed")
  /\ UNCHANGED <<training, cache, outside, at, asked, lived, forgot, restarts>>

\* _put_cached: Redis if it answers, the dictionary always.
Put(q) ==
  LET w == at[q]
      k == Fingerprint(asked[q])
  IN /\ pc[q] = "put" /\ Goto(q, "served") /\ Connect(w)
     /\ redis' = IF Connection(w) = "client" /\ reachable
                   THEN [redis EXCEPT ![k] = asked[q].job] ELSE redis
     /\ local' = [local EXCEPT ![w][k] = asked[q].job]
     /\ UNCHANGED <<training, outside, at, asked, got, lived, forgot, restarts>>

-----------------------------------------------------------------------------
(* The GraphQL query predict: STATE.model is read anew at every mention.   *)

\* The loop takes up a query while another request waits in the middle of its own.
Begin_unqueued(q, w) ==
  /\ pc[q] = "new" /\ at' = [at EXCEPT ![q] = w]
  /\ Goto(q, IF model[w] = None THEN "refused" ELSE "fare")
  /\ lived' = [lived EXCEPT ![q] = IF model[w] = None THEN {} ELSE {model[w]}]
  /\ UNCHANGED <<training, cache, outside, asked, got, forgot, restarts>>

Begin(q, w) ==
  /\ pc[q] = "new" /\ Running(w) = {} /\ at' = [at EXCEPT ![q] = w]
  /\ Goto(q, IF model[w] = None THEN "refused" ELSE "fare")
  /\ lived' = [lived EXCEPT ![q] = IF model[w] = None THEN {} ELSE {model[w]}]
  /\ UNCHANGED <<training, cache, outside, asked, got, forgot, restarts>>

\* A read of STATE.model that the rest of the part works on: an attribute of None,
\* or an estimator without its weights, raises.
Read(q, part, next) ==
  LET m == model[at[q]]
  IN /\ IF m # None /\ Ready(m) THEN Take(q, part, m.job) /\ Goto(q, next)
                                ELSE UNCHANGED got /\ Goto(q, "failed")
     /\ UNCHANGED <<training, cache, outside, at, asked, lived, forgot, restarts>>

ReadFare(q) == pc[q] = "fare" /\ Read(q, "fare", "check")

\* if STATE.model.aci is not None
CheckInterval(q) ==
  LET m == model[at[q]]
  IN /\ pc[q] = "check"
     /\ Goto(q, IF m = None THEN "failed"
                ELSE IF m.job \in Calibrated THEN "bounds" ELSE "kind")
     /\ UNCHANGED <<training, cache, outside, at, asked, got, lived, forgot, restarts>>

\* STATE.model.aci.predict: by now the model may be one without an interval.
ReadBounds(q) ==
  LET m == model[at[q]]
  IN /\ pc[q] = "bounds"
     /\ IF m # None /\ m.job \notin Calibrated
          THEN /\ Goto(q, "failed")
               /\ UNCHANGED <<training, cache, outside, at, asked, got, lived, forgot, restarts>>
          ELSE Read(q, "bounds", "kind")

\* The kind is taken from the run LATEST names.
ReadKind_latest(q) ==
  /\ pc[q] = "kind" /\ Goto(q, "served")
  /\ Take(q, "kind", IF latest = None THEN model[at[q]].job ELSE latest)
  /\ UNCHANGED <<training, cache, outside, at, asked, lived, forgot, restarts>>

ReadKind(q) ==
  LET m == model[at[q]]
  IN /\ pc[q] = "kind"
     /\ IF m # None THEN Take(q, "kind", m.job) /\ Goto(q, "served")
                    ELSE UNCHANGED got /\ Goto(q, "failed")
     /\ UNCHANGED <<training, cache, outside, at, asked, lived, forgot, restarts>>

-----------------------------------------------------------------------------
Summary(q) == Look(q) \/ Compute(q) \/ Put(q)
Query(q) == ReadFare(q) \/ CheckInterval(q) \/ ReadBounds(q) \/ ReadKind(q)

Next == \/ \E w \in Workers : \/ Restart(w)
                              \/ \E j \in Jobs : Publish(w, j)
                              \/ \E q \in Requests : Capture(q, w) \/ Begin(q, w)
        \/ \E j \in Jobs : Save(j)
        \/ RedisStops \/ RedisStarts \/ \E k \in Keys : Expire(k)
        \/ \E q \in Requests : Summary(q) \/ Query(q)

Spec == Init /\ [][Next]_vars

-----------------------------------------------------------------------------
(* Properties.                                                             *)

Optional(S) == S \cup {None}

\* The types; and who writes what: the loop of a worker runs one request at a time, and
\* a request on it has a model to work on.
TypeOK ==
  /\ model \in [Workers -> Optional(Handles)]
  /\ place \in [Jobs -> {"new", "live", "over"}]
  /\ trainer \in [Jobs -> Optional(Workers)] /\ latest \in Optional(Jobs)
  /\ local \in [Workers -> [Keys -> Optional(Jobs)]] /\ redis \in [Keys -> Optional(Jobs)]
  /\ client \in [Workers -> {"unset", "client", "none"}]
  /\ reachable \in BOOLEAN /\ configured \in BOOLEAN
  /\ pc \in [Requests -> Places] /\ at \in [Requests -> Optional(Workers)]
  /\ asked \in [Requests -> Optional(Handles)]
  /\ got \in [Requests -> [Parts -> Optional(Jobs)]]
  /\ lived \in [Requests -> SUBSET Handles] /\ forgot \in BOOLEAN
  /\ restarts \in 0 .. MaxRestarts /\ outages \in 0 .. MaxOutages
  /\ \A q \in Requests : pc[q] \in OnLoop => at[q] \in Workers /\ Running(at[q]) = {q}

\* explain/cache.py: whichever worker computed a summary, before or after whichever
\* restart, it is served only for a model of its kind and background; and, as long as no
\* estimator has come back without its configuration, only for one of its configuration.
SummaryOfTheModel ==
  \A q \in Requests :
    pc[q] = "served" /\ got[q]["summary"] # None =>
      LET a == asked[q].job
          b == got[q]["summary"]
      IN /\ KindOf[a] = KindOf[b] /\ BackgroundOf[a] = BackgroundOf[b]
         /\ (forgot /\ KindOf[a] \in Forgetting) \/ CfgOf[a] = CfgOf[b]

\* explain/cache.py, explainer.py:102-113, graphql.py: a request fails only by the model: a
\* summary when its estimator was restored without weights or SHAP raises on it, whatever
\* Redis does and whatever else is computed meanwhile; a query when a model without weights
\* was live while it ran, or one without an interval took the place of one with an
\* interval.  STATE.model is never taken away under a query.
FailsOnlyByTheModel ==
  \A q \in Requests :
    pc[q] = "failed" =>
      \/ asked[q] # None /\ ~Explains(asked[q])
      \/ \E h \in lived[q] : ~Ready(h)
      \/ \E g, h \in lived[q] : g.job \in Calibrated /\ h.job \notin Calibrated

\* graphql.py: each part of an answer comes from a model that was live in the worker
\* while the query ran: without a training that publishes meanwhile all are of one model,
\* and the interval is there if that model has one.
QueryCoherent ==
  \A q \in Requests :
    pc[q] = "served" /\ asked[q] = None =>
      /\ \A p \in Parts : got[q][p] # None => \E h \in lived[q] : h.job = got[q][p]
      /\ Cardinality(lived[q]) = 1 =>
           /\ got[q]["fare"] = got[q]["kind"]
           /\ got[q]["bounds"] = IF got[q]["fare"] \in Calibrated THEN got[q]["fare"] ELSE None
=============================================================================
