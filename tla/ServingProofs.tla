----------------------------- MODULE ServingProofs -----------------------------
(***************************************************************************)
(* What holds of any number of workers, requests and trainings, whatever   *)
(* they are fitted with, and for any number of restarts and outages.       *)
(***************************************************************************)
EXTENDS Serving, FiniteSetTheorems, TLAPS

USE ServingAssumption

-----------------------------------------------------------------------------
(* Types.  TypeOK without the loop, and what a request has at hand.        *)

Typed ==
  /\ model \in [Workers -> Optional(Handles)]
  /\ place \in [Jobs -> {"new", "live", "over"}]
  /\ trainer \in [Jobs -> Optional(Workers)] /\ latest \in Optional(Jobs)
  /\ local \in [Workers -> [Keys -> Optional(Jobs)]] /\ redis \in [Keys -> Optional(Jobs)]
  /\ client \in [Workers -> {"unset", "client", "none"}]
  /\ reachable \in BOOLEAN /\ configured \in BOOLEAN
  /\ pc \in [Requests -> Places] /\ at \in [Requests -> Optional(Workers)]
  /\ asked \in [Requests -> Optional(Handles)]
  /\ got \in [Requests -> [Parts -> Optional(Jobs)]]
  /\ lived \in [Requests -> SUBSET Handles] /\ forgot \in BOOLEAN
  /\ restarts \in 0 .. MaxRestarts /\ outages \in 0 .. MaxOutages

OnQuery == {"fare", "check", "bounds", "kind"}

\* A request for a summary has the handle it captured, a query has none.
AtHand == \A q \in Requests :
  /\ pc[q] \in {"captured"} \cup OnLoop => at[q] \in Workers
  /\ pc[q] \in {"captured", "compute", "put"} => asked[q] \in Handles
  /\ pc[q] \in {"new"} \cup OnQuery => asked[q] = None

\* The loop of a worker is at one request at a time.
OneAtATime == \A p, q \in Requests :
  pc[p] \in OnLoop /\ pc[q] \in OnLoop /\ at[p] = at[q] => p = q

\* The key of a handle is one of the keys.
LEMMA FingerprintIsKey == \A h \in Handles : Fingerprint(h) \in Keys
BY DEF Fingerprint, Keys, ConfigNow, Handles

LEMMA TypeOKIsTyped == TypeOK <=> Typed /\ (\A q \in Requests :
                          pc[q] \in OnLoop => at[q] \in Workers /\ Running(at[q]) = {q})
BY DEF TypeOK, Typed

\* A part of an answer comes from a training.
LEMMA TakeTyped ==
  ASSUME got \in [Requests -> [Parts -> Optional(Jobs)]], NEW q \in Requests,
         NEW part \in Parts, NEW job \in Optional(Jobs), Take(q, part, job)
  PROVE  got' \in [Requests -> [Parts -> Optional(Jobs)]]
BY DEF Take

LEMMA StepTyped == Typed /\ AtHand /\ [Next]_vars => Typed'
<1> SUFFICES ASSUME Typed, AtHand, [Next]_vars PROVE Typed'
  OBVIOUS
<1> USE FingerprintIsKey
        DEF Typed, AtHand, Optional, Places, OnLoop, OnQuery, Parts, Handles, training, cache,
            outside, request
<1>0. ASSUME NEW q \in Requests, NEW part \in Parts, NEW next \in Places,
             pc[q] \in OnLoop, Read(q, part, next)
      PROVE  Typed'
  <2>1. at[q] \in Workers /\ (model[at[q]] # None => model[at[q]].job \in Jobs)
    BY <1>0
  <2>2. got' \in [Requests -> [Parts -> Optional(Jobs)]]
    BY <1>0, <2>1, TakeTyped DEF Read
  <2> QED
    BY <1>0, <2>2 DEF Read, Goto
<1>1. ASSUME NEW w \in Workers, Restart(w) PROVE Typed'
  <2>1. model' \in [Workers -> Optional(Handles)]
    BY <1>1 DEF Restart
  <2>2. /\ pc' \in [Requests -> Places] /\ place' \in [Jobs -> {"new", "live", "over"}]
        /\ restarts' \in 0 .. MaxRestarts /\ forgot' \in BOOLEAN
    BY <1>1 DEF Restart
  <2>3. local' \in [Workers -> [Keys -> Optional(Jobs)]]
        /\ client' \in [Workers -> {"unset", "client", "none"}]
    BY <1>1 DEF Restart
  <2> QED
    BY <1>1, <2>1, <2>2, <2>3 DEF Restart
<1>2. ASSUME NEW w \in Workers, NEW j \in Jobs, Publish(w, j) PROVE Typed'
  <2>1. [job |-> j, restored |-> FALSE] \in Handles
    OBVIOUS
  <2>2. model' \in [Workers -> Optional(Handles)] /\ model'[w] \in Handles
    BY <1>2, <2>1 DEF Publish
  <2>3. lived' \in [Requests -> SUBSET Handles]
    <3>1. lived' = [q \in Requests |-> IF q \in Running(w) THEN lived[q] \cup {model'[w]}
                                                          ELSE lived[q]]
      BY <1>2 DEF Publish
    <3>2. \A q \in Requests : lived[q] \in SUBSET Handles
      BY Zenon
    <3> QED
      BY <3>1, <3>2, <2>2 DEF Running
  <2>4. place' \in [Jobs -> {"new", "live", "over"}] /\ trainer' \in [Jobs -> Optional(Workers)]
    BY <1>2 DEF Publish
  <2> QED
    BY <1>2, <2>2, <2>3, <2>4 DEF Publish
<1>3. ASSUME NEW j \in Jobs, Save(j) PROVE Typed'
  BY <1>3 DEF Save
<1>4. CASE RedisStops
  <2>1. outages' \in 0 .. MaxOutages
    BY <1>4 DEF RedisStops
  <2>2. reachable' \in BOOLEAN
    BY <1>4 DEF RedisStops
  <2> QED
    BY <1>4, <2>1, <2>2 DEF RedisStops
<1>5. CASE RedisStarts
  BY <1>5 DEF RedisStarts
<1>6. ASSUME NEW k \in Keys, Expire(k) PROVE Typed'
  <2>1. redis' \in [Keys -> Optional(Jobs)]
    BY <1>6 DEF Expire
  <2>2. outages' \in 0 .. MaxOutages
    BY <1>6 DEF Expire
  <2> QED
    BY <1>6, <2>1, <2>2 DEF Expire
<1>7. ASSUME NEW q \in Requests, NEW w \in Workers, Capture(q, w) PROVE Typed'
  BY <1>7 DEF Capture, Goto
<1>8. ASSUME NEW q \in Requests, Look(q) PROVE Typed'
  BY <1>8 DEF Look, Goto, Take, Connect, Connection
<1>9. ASSUME NEW q \in Requests, Compute(q) PROVE Typed'
  <2>1. asked[q] \in Handles /\ asked[q].job \in Jobs
    BY <1>9 DEF Compute
  <2>2. got' \in [Requests -> [Parts -> Optional(Jobs)]]
    BY <1>9, <2>1, TakeTyped DEF Compute
  <2> QED
    BY <1>9, <2>2 DEF Compute, Goto
<1>10. ASSUME NEW q \in Requests, Put(q) PROVE Typed'
  BY <1>10 DEF Put, Goto, Connect, Connection
<1>11. ASSUME NEW q \in Requests, NEW w \in Workers, Begin(q, w) PROVE Typed'
  BY <1>11 DEF Begin, Goto
<1>12. ASSUME NEW q \in Requests, ReadFare(q) PROVE Typed'
  BY <1>12, <1>0 DEF ReadFare, Goto
<1>13. ASSUME NEW q \in Requests, CheckInterval(q) PROVE Typed'
  BY <1>13 DEF CheckInterval, Goto
<1>14. ASSUME NEW q \in Requests, ReadBounds(q) PROVE Typed'
  BY <1>14, <1>0 DEF ReadBounds, Goto
<1>15. ASSUME NEW q \in Requests, ReadKind(q) PROVE Typed'
  <2>1. at[q] \in Workers /\ (model[at[q]] # None => model[at[q]].job \in Jobs)
    BY <1>15 DEF ReadKind
  <2>2. got' \in [Requests -> [Parts -> Optional(Jobs)]]
    BY <1>15, <2>1, TakeTyped DEF ReadKind
  <2> QED
    BY <1>15, <2>2 DEF ReadKind, Goto
<1>16. CASE UNCHANGED vars
  BY <1>16 DEF vars
<1> QED
  BY <1>1, <1>2, <1>3, <1>4, <1>5, <1>6, <1>7, <1>8, <1>9, <1>10, <1>11, <1>12, <1>13,
     <1>14, <1>15, <1>16 DEF Next, Summary, Query

\* The loop is handed to a request only while nobody has it.
LEMMA StepAtHand == Typed /\ AtHand /\ [Next]_vars => AtHand'
<1> SUFFICES ASSUME Typed, AtHand, [Next]_vars PROVE AtHand'
  OBVIOUS
<1> USE DEF Typed, AtHand, Optional, Places, OnLoop, OnQuery, training, cache, outside, request
<1>1. ASSUME NEW w \in Workers, Restart(w) PROVE AtHand'
  BY <1>1 DEF Restart
<1>2. ASSUME NEW w \in Workers, NEW j \in Jobs, Publish(w, j) PROVE AtHand'
  BY <1>2 DEF Publish
<1>3. ASSUME NEW j \in Jobs, Save(j) PROVE AtHand'
  BY <1>3 DEF Save
<1>4. CASE RedisStops
  BY <1>4 DEF RedisStops
<1>5. CASE RedisStarts
  BY <1>5 DEF RedisStarts
<1>6. ASSUME NEW k \in Keys, Expire(k) PROVE AtHand'
  BY <1>6 DEF Expire
<1>7. ASSUME NEW q \in Requests, NEW w \in Workers, Capture(q, w) PROVE AtHand'
  BY <1>7 DEF Capture, Goto
<1>8. ASSUME NEW q \in Requests, Look(q) PROVE AtHand'
  BY <1>8 DEF Look, Goto, Take, Connect
<1>9. ASSUME NEW q \in Requests, Compute(q) PROVE AtHand'
  BY <1>9 DEF Compute, Goto, Take
<1>10. ASSUME NEW q \in Requests, Put(q) PROVE AtHand'
  BY <1>10 DEF Put, Goto, Connect
<1>11. ASSUME NEW q \in Requests, NEW w \in Workers, Begin(q, w) PROVE AtHand'
  BY <1>11 DEF Begin, Goto
<1>12. ASSUME NEW q \in Requests, ReadFare(q) PROVE AtHand'
  BY <1>12 DEF ReadFare, Read, Goto, Take
<1>13. ASSUME NEW q \in Requests, CheckInterval(q) PROVE AtHand'
  BY <1>13 DEF CheckInterval, Goto
<1>14. ASSUME NEW q \in Requests, ReadBounds(q) PROVE AtHand'
  BY <1>14 DEF ReadBounds, Read, Goto, Take
<1>15. ASSUME NEW q \in Requests, ReadKind(q) PROVE AtHand'
  BY <1>15 DEF ReadKind, Goto, Take
<1>16. CASE UNCHANGED vars
  BY <1>16 DEF vars
<1> QED
  BY <1>1, <1>2, <1>3, <1>4, <1>5, <1>6, <1>7, <1>8, <1>9, <1>10, <1>11, <1>12, <1>13,
     <1>14, <1>15, <1>16 DEF Next, Summary, Query

LEMMA StepOneAtATime == Typed /\ AtHand /\ OneAtATime /\ [Next]_vars => OneAtATime'
<1> SUFFICES ASSUME Typed, AtHand, OneAtATime, [Next]_vars PROVE OneAtATime'
  OBVIOUS
<1> USE DEF Typed, AtHand, OneAtATime, Optional, Places, OnLoop, OnQuery, training, cache,
            outside, request
<1>1. ASSUME NEW w \in Workers, Restart(w) PROVE OneAtATime'
  BY <1>1 DEF Restart
<1>2. ASSUME NEW w \in Workers, NEW j \in Jobs, Publish(w, j) PROVE OneAtATime'
  BY <1>2 DEF Publish
<1>3. ASSUME NEW j \in Jobs, Save(j) PROVE OneAtATime'
  BY <1>3 DEF Save
<1>4. CASE RedisStops
  BY <1>4 DEF RedisStops
<1>5. CASE RedisStarts
  BY <1>5 DEF RedisStarts
<1>6. ASSUME NEW k \in Keys, Expire(k) PROVE OneAtATime'
  BY <1>6 DEF Expire
<1>7. ASSUME NEW q \in Requests, NEW w \in Workers, Capture(q, w) PROVE OneAtATime'
  BY <1>7 DEF Capture, Goto
<1>8. ASSUME NEW q \in Requests, Look(q) PROVE OneAtATime'
  BY <1>8 DEF Look, Goto, Take, Connect, Running
<1>9. ASSUME NEW q \in Requests, Compute(q) PROVE OneAtATime'
  BY <1>9 DEF Compute, Goto, Take
<1>10. ASSUME NEW q \in Requests, Put(q) PROVE OneAtATime'
  BY <1>10 DEF Put, Goto, Connect
<1>11. ASSUME NEW q \in Requests, NEW w \in Workers, Begin(q, w) PROVE OneAtATime'
  BY <1>11 DEF Begin, Goto, Running
<1>12. ASSUME NEW q \in Requests, ReadFare(q) PROVE OneAtATime'
  BY <1>12 DEF ReadFare, Read, Goto, Take
<1>13. ASSUME NEW q \in Requests, CheckInterval(q) PROVE OneAtATime'
  BY <1>13 DEF CheckInterval, Goto
<1>14. ASSUME NEW q \in Requests, ReadBounds(q) PROVE OneAtATime'
  BY SMTT(30), <1>14 DEF ReadBounds, Read, Goto, Take
<1>15. ASSUME NEW q \in Requests, ReadKind(q) PROVE OneAtATime'
  BY <1>15 DEF ReadKind, Goto, Take
<1>16. CASE UNCHANGED vars
  BY <1>16 DEF vars
<1> QED
  BY <1>1, <1>2, <1>3, <1>4, <1>5, <1>6, <1>7, <1>8, <1>9, <1>10, <1>11, <1>12, <1>13,
     <1>14, <1>15, <1>16 DEF Next, Summary, Query

Loop == Typed /\ AtHand /\ OneAtATime

LEMMA LoopAlways == Spec => []Loop
<1>1. Init => Loop
  <2> SUFFICES ASSUME Init PROVE Loop
    OBVIOUS
  <2>1. AtHand /\ OneAtATime
    BY DEF Init, AtHand, OneAtATime, OnLoop, OnQuery
  <2>2. reachable \in BOOLEAN /\ configured \in BOOLEAN /\ forgot \in BOOLEAN
    BY DEF Init
  <2>3. /\ lived \in [Requests -> SUBSET Handles]
        /\ got \in [Requests -> [Parts -> Optional(Jobs)]]
    BY DEF Init, Nothing, Optional
  <2>4. /\ local \in [Workers -> [Keys -> Optional(Jobs)]] /\ redis \in [Keys -> Optional(Jobs)]
        /\ restarts \in 0 .. MaxRestarts /\ outages \in 0 .. MaxOutages
    BY DEF Init, Optional
  <2>5. Typed
    BY <2>2, <2>3, <2>4 DEF Init, Typed, Optional, Places
  <2> QED
    BY <2>1, <2>5 DEF Loop
<1>2. Loop /\ [Next]_vars => Loop'
  BY StepTyped, StepAtHand, StepOneAtATime DEF Loop
<1> QED
  BY <1>1, <1>2, PTL DEF Spec

\* Every reachable state has the right types, and whoever is on the loop of a worker is
\* there alone (cli/serve.py, api/routers/explain.py:31-38, graphql.py:48-68).
THEOREM TypeCorrect == Spec => []TypeOK
<1>1. Loop => TypeOK
  <2> SUFFICES ASSUME Loop PROVE TypeOK
    OBVIOUS
  <2>1. ASSUME NEW q \in Requests, pc[q] \in OnLoop
        PROVE  at[q] \in Workers /\ Running(at[q]) = {q}
    BY <2>1 DEF Loop, AtHand, OneAtATime, Running
  <2> QED
    BY <2>1, TypeOKIsTyped DEF Loop
<1> QED
  BY <1>1, LoopAlways, PTL

-----------------------------------------------------------------------------
(* Failures.  A query runs on a model that is live, and is only told to    *)
(* read the bounds by one that has an interval.                            *)

Alive == \A q \in Requests :
  /\ pc[q] \in OnQuery => model[at[q]] # None /\ model[at[q]] \in lived[q]
  /\ pc[q] = "bounds" => \E g \in lived[q] : g.job \in Calibrated

\* A training makes its model known to every query that runs; a restart ends them.
LEMMA StepAlive == Loop /\ Alive /\ [Next]_vars => Alive'
<1> SUFFICES ASSUME Loop, Alive, [Next]_vars PROVE Alive'
  OBVIOUS
<1> USE DEF Loop, Typed, AtHand, Alive, Optional, Places, OnLoop, OnQuery, training, cache,
            outside, request
<1>1. ASSUME NEW w \in Workers, Restart(w) PROVE Alive'
  BY <1>1 DEF Restart
<1>2. ASSUME NEW w \in Workers, NEW j \in Jobs, Publish(w, j) PROVE Alive'
  <2>0. [job |-> j, restored |-> FALSE] \in Handles
    BY DEF Handles
  <2>1. model'[w] \in Handles /\ model'[w] # None
    BY <1>2, <2>0 DEF Publish
  <2>2. ASSUME NEW q \in Requests, pc[q] \in OnQuery, at[q] = w
        PROVE  lived'[q] = lived[q] \cup {model'[w]}
    BY <1>2, <2>2 DEF Publish, Running
  <2>3. \A q \in Requests : lived[q] \subseteq lived'[q]
    BY <1>2 DEF Publish
  <2>4. pc' = pc /\ at' = at /\ \A v \in Workers : v # w => model'[v] = model[v]
    BY <1>2 DEF Publish
  <2>5. ASSUME NEW q \in Requests, pc[q] \in OnQuery
        PROVE  model'[at[q]] # None /\ model'[at[q]] \in lived'[q]
    <3>1. CASE at[q] = w
      BY <3>1, <2>1, <2>2, <2>5
    <3>2. CASE at[q] # w
      BY <3>2, <2>3, <2>4, <2>5
    <3> QED
      BY <3>1, <3>2
  <2>6. ASSUME NEW q \in Requests, pc[q] = "bounds"
        PROVE  \E g \in lived'[q] : g.job \in Calibrated
    BY <2>3, <2>6
  <2> QED
    BY <2>4, <2>5, <2>6
<1>3. ASSUME NEW j \in Jobs, Save(j) PROVE Alive'
  BY <1>3 DEF Save
<1>4. CASE RedisStops
  BY <1>4 DEF RedisStops
<1>5. CASE RedisStarts
  BY <1>5 DEF RedisStarts
<1>6. ASSUME NEW k \in Keys, Expire(k) PROVE Alive'
  BY <1>6 DEF Expire
<1>7. ASSUME NEW q \in Requests, NEW w \in Workers, Capture(q, w) PROVE Alive'
  BY <1>7 DEF Capture, Goto
<1>8. ASSUME NEW q \in Requests, Look(q) PROVE Alive'
  BY <1>8 DEF Look, Goto, Take, Connect
<1>9. ASSUME NEW q \in Requests, Compute(q) PROVE Alive'
  BY <1>9 DEF Compute, Goto, Take
<1>10. ASSUME NEW q \in Requests, Put(q) PROVE Alive'
  BY <1>10 DEF Put, Goto, Connect
<1>11. ASSUME NEW q \in Requests, NEW w \in Workers, Begin(q, w) PROVE Alive'
  BY <1>11 DEF Begin, Goto
<1>12. ASSUME NEW q \in Requests, ReadFare(q) PROVE Alive'
  BY <1>12 DEF ReadFare, Read, Goto, Take
<1>13. ASSUME NEW q \in Requests, CheckInterval(q) PROVE Alive'
  BY <1>13 DEF CheckInterval, Goto
<1>14. ASSUME NEW q \in Requests, ReadBounds(q) PROVE Alive'
  BY <1>14 DEF ReadBounds, Read, Goto, Take
<1>15. ASSUME NEW q \in Requests, ReadKind(q) PROVE Alive'
  BY <1>15 DEF ReadKind, Goto, Take
<1>16. CASE UNCHANGED vars
  BY <1>16 DEF vars
<1> QED
  BY <1>1, <1>2, <1>3, <1>4, <1>5, <1>6, <1>7, <1>8, <1>9, <1>10, <1>11, <1>12, <1>13,
     <1>14, <1>15, <1>16 DEF Next, Summary, Query

\* A summary fails by an estimator without weights, a query by a model that was live
\* while it ran, whatever Redis, the trainings and the other workers do (cache.py:87-122,
\* graphql.py:48-68).
THEOREM FailuresAreTheModels == Spec => []FailsOnlyByTheModel
<1> USE DEF Loop, Typed, AtHand, Alive, Optional, Places, OnLoop, OnQuery, training, cache,
            outside, request, FailsOnlyByTheModel
<1>1. Init => Alive /\ FailsOnlyByTheModel
  BY DEF Init
<1>2. Loop /\ Alive /\ FailsOnlyByTheModel /\ [Next]_vars => FailsOnlyByTheModel'
  <2> SUFFICES ASSUME Loop, Alive, FailsOnlyByTheModel, [Next]_vars
               PROVE  FailsOnlyByTheModel'
    OBVIOUS
  <2> USE DEF Goto
  <2>1. ASSUME NEW w \in Workers, Restart(w) PROVE FailsOnlyByTheModel'
    BY <2>1 DEF Restart
  <2>2. ASSUME NEW w \in Workers, NEW j \in Jobs, Publish(w, j) PROVE FailsOnlyByTheModel'
    BY <2>2 DEF Publish, Running
  <2>3. ASSUME NEW j \in Jobs, Save(j) PROVE FailsOnlyByTheModel'
    BY <2>3 DEF Save
  <2>4. CASE RedisStops
    BY <2>4 DEF RedisStops
  <2>5. CASE RedisStarts
    BY <2>5 DEF RedisStarts
  <2>6. ASSUME NEW k \in Keys, Expire(k) PROVE FailsOnlyByTheModel'
    BY <2>6 DEF Expire
  <2>7. ASSUME NEW q \in Requests, NEW w \in Workers, Capture(q, w) PROVE FailsOnlyByTheModel'
    BY <2>7 DEF Capture, Goto
  <2>8. ASSUME NEW q \in Requests, Look(q) PROVE FailsOnlyByTheModel'
    BY <2>8 DEF Look, Goto, Take, Connect
  <2>9. ASSUME NEW q \in Requests, Compute(q) PROVE FailsOnlyByTheModel'
    BY <2>9 DEF Compute, Goto, Take
  <2>10. ASSUME NEW q \in Requests, Put(q) PROVE FailsOnlyByTheModel'
    BY <2>10 DEF Put, Goto, Connect
  <2>11. ASSUME NEW q \in Requests, NEW w \in Workers, Begin(q, w) PROVE FailsOnlyByTheModel'
    BY <2>11 DEF Begin, Goto
  <2>12. ASSUME NEW q \in Requests, ReadFare(q) PROVE FailsOnlyByTheModel'
    BY <2>12 DEF ReadFare, Read, Goto, Take
  <2>13. ASSUME NEW q \in Requests, CheckInterval(q) PROVE FailsOnlyByTheModel'
    BY <2>13 DEF CheckInterval, Goto
  <2>14. ASSUME NEW q \in Requests, ReadBounds(q) PROVE FailsOnlyByTheModel'
    BY <2>14 DEF ReadBounds, Read, Goto
  <2>15. ASSUME NEW q \in Requests, ReadKind(q) PROVE FailsOnlyByTheModel'
    BY <2>15 DEF ReadKind, Goto, Take
  <2>16. CASE UNCHANGED vars
    BY <2>16 DEF vars
  <2> QED
    BY <2>1, <2>2, <2>3, <2>4, <2>5, <2>6, <2>7, <2>8, <2>9, <2>10, <2>11, <2>12, <2>13,
       <2>14, <2>15, <2>16 DEF Next, Summary, Query
<1> QED
  BY <1>1, <1>2, LoopAlways, StepAlive, PTL DEF Spec

-----------------------------------------------------------------------------
(* Coherence of a query.                                                   *)

\* What a query has taken so far came from models that were live while it ran.
Sourced == \A q \in Requests : asked[q] = None =>
  /\ IsFiniteSet(lived[q])
  /\ pc[q] = "new" => got[q] = Nothing
  /\ \A p \in Parts : got[q][p] # None => \E h \in lived[q] : h.job = got[q][p]

\* What it has taken so far while one model was live.
Single == \A q \in Requests : \A h \in Handles :
  asked[q] = None /\ lived[q] = {h} =>
    /\ pc[q] \in {"check", "bounds", "kind", "served"} => got[q]["fare"] = h.job
    /\ pc[q] \in {"fare", "check", "bounds"} => got[q]["bounds"] = None
    /\ pc[q] = "bounds" => h.job \in Calibrated
    /\ pc[q] \in {"kind", "served"} =>
         got[q]["bounds"] = IF h.job \in Calibrated THEN h.job ELSE None
    /\ pc[q] = "served" => got[q]["kind"] = h.job

\* The model a query reads, and what taking it does.
LEMMA AtLive ==
  ASSUME Loop, Alive, NEW q \in Requests, pc[q] \in OnQuery
  PROVE  /\ asked[q] = None /\ at[q] \in Workers
         /\ model[at[q]] # None /\ model[at[q]] \in Handles /\ model[at[q]] \in lived[q]
         /\ model[at[q]].job \in Jobs /\ model[at[q]].job # None
<1>1. asked[q] = None /\ at[q] \in Workers
  BY DEF Loop, AtHand, OnLoop, OnQuery
<1>2. model[at[q]] # None /\ model[at[q]] \in lived[q]
  BY DEF Alive
<1>3. model[at[q]] \in Handles
  BY <1>2 DEF Loop, Typed
<1>4. model[at[q]].job \in Jobs
  BY <1>3 DEF Handles
<1> QED
  BY <1>1, <1>2, <1>3, <1>4

LEMMA Taken ==
  ASSUME Loop, NEW q \in Requests, NEW part \in Parts, NEW job, Take(q, part, job)
  PROVE  /\ got'[q][part] = job
         /\ \A p \in Parts : p # part => got'[q][p] = got[q][p]
         /\ \A r \in Requests : r # q => got'[r] = got[r]
<1>1. got \in [Requests -> [Parts -> Optional(Jobs)]]
  BY DEF Loop, Typed
<1>2. got' = [got EXCEPT ![q] = [got[q] EXCEPT ![part] = job]]
  BY <1>1 DEF Take
<1>3. got'[q] = [got[q] EXCEPT ![part] = job] /\ got[q] \in [Parts -> Optional(Jobs)]
  BY <1>1, <1>2
<1> QED
  BY <1>1, <1>2, <1>3

LEMMA StepSourced == Loop /\ Alive /\ Sourced /\ [Next]_vars => Sourced'
<1> SUFFICES ASSUME Loop, Alive, Sourced, [Next]_vars PROVE Sourced'
  OBVIOUS
<1> USE DEF Loop, Typed, AtHand, Alive, Sourced, Optional, Places, OnLoop, OnQuery, training,
            cache, outside, request
<1>1. ASSUME NEW w \in Workers, Restart(w) PROVE Sourced'
  BY <1>1 DEF Restart
<1>2. ASSUME NEW w \in Workers, NEW j \in Jobs, Publish(w, j) PROVE Sourced'
  <2>0. [job |-> j, restored |-> FALSE] \in Handles
    BY DEF Handles
  <2>1. /\ pc' = pc /\ asked' = asked /\ got' = got
        /\ \A q \in Requests : lived'[q] = lived[q] \cup {model'[w]} \/ lived'[q] = lived[q]
    BY <1>2 DEF Publish
  <2>2. ASSUME NEW q \in Requests, asked[q] = None PROVE IsFiniteSet(lived'[q])
    <3>1. IsFiniteSet(lived[q] \cup {model'[w]})
      BY <2>2, FS_AddElement
    <3> QED
      BY <2>1, <2>2, <3>1
  <2>3. \A q \in Requests : lived[q] \subseteq lived'[q]
    BY ZenonT(40), <2>1
  <2> QED
    BY <2>1, <2>2, <2>3
<1>3. ASSUME NEW j \in Jobs, Save(j) PROVE Sourced'
  BY <1>3 DEF Save
<1>4. CASE RedisStops
  BY <1>4 DEF RedisStops
<1>5. CASE RedisStarts
  BY <1>5 DEF RedisStarts
<1>6. ASSUME NEW k \in Keys, Expire(k) PROVE Sourced'
  BY <1>6 DEF Expire
<1>7. ASSUME NEW q \in Requests, NEW w \in Workers, Capture(q, w) PROVE Sourced'
  BY <1>7 DEF Capture, Goto
<1>8. ASSUME NEW q \in Requests, Look(q) PROVE Sourced'
  BY <1>8 DEF Look, Goto, Take, Connect
<1>9. ASSUME NEW q \in Requests, Compute(q) PROVE Sourced'
  <2>1. asked[q] # None /\ asked' = asked /\ lived' = lived
    BY <1>9 DEF Compute
  <2>2. \A r \in Requests : r # q => pc'[r] = pc[r] /\ got'[r] = got[r]
    BY <1>9 DEF Compute, Goto, Take
  <2> QED
    BY SMTT(30), <2>1, <2>2
<1>10. ASSUME NEW q \in Requests, Put(q) PROVE Sourced'
  BY <1>10 DEF Put, Goto, Connect
<1>11. ASSUME NEW q \in Requests, NEW w \in Workers, Begin(q, w) PROVE Sourced'
  <2>1. /\ pc'[q] # "new" /\ asked' = asked /\ got' = got /\ pc[q] = "new"
        /\ \A r \in Requests : r # q => pc'[r] = pc[r] /\ lived'[r] = lived[r]
    BY <1>11 DEF Begin, Goto
  <2>2. asked[q] = None => \A p \in Parts : got[q][p] = None
    BY <2>1 DEF Nothing
  <2>3. lived'[q] = {} \/ lived'[q] = {model[w]}
    BY <1>11 DEF Begin
  <2>4. IsFiniteSet(lived'[q])
    <3>1. IsFiniteSet({}) /\ IsFiniteSet({model[w]})
      BY FS_Singleton, FS_EmptySet
    <3> QED
      BY <2>3, <3>1
  <2> QED
    BY <2>1, <2>2, <2>4
<1>12. ASSUME NEW q \in Requests, ReadFare(q) PROVE Sourced'
  <2>1. /\ asked' = asked /\ lived' = lived /\ pc'[q] # "new"
        /\ \A r \in Requests : r # q => pc'[r] = pc[r]
    BY <1>12 DEF ReadFare, Read, Goto
  <2>2. got' = got \/ Take(q, "fare", model[at[q]].job)
    BY <1>12 DEF ReadFare, Read
  <2>3. "fare" \in Parts /\ pc[q] \in OnQuery
    BY <1>12 DEF ReadFare, Parts
  <2>4. CASE got' = got
    BY <2>1, <2>4
  <2>5. CASE Take(q, "fare", model[at[q]].job)
    <3>1. /\ got'[q]["fare"] = model[at[q]].job
          /\ \A p \in Parts : p # "fare" => got'[q][p] = got[q][p]
          /\ \A r \in Requests : r # q => got'[r] = got[r]
      BY <2>3, <2>5, Taken
    <3>2. model[at[q]] \in lived[q]
      BY <2>3, AtLive
    <3>3. ASSUME NEW r \in Requests, asked[r] = None, NEW p \in Parts, got'[r][p] # None
          PROVE  \E h \in lived[r] : h.job = got'[r][p]
      <4>1. CASE r # q
        BY <3>1, <3>3, <4>1
      <4>2. CASE r = q /\ p = "fare"
        BY <3>1, <3>2, <4>2
      <4>3. CASE r = q /\ p # "fare"
        BY <3>1, <3>3, <4>3
      <4> QED
        BY <4>1, <4>2, <4>3
    <3> QED
      BY <2>1, <3>1, <3>3
  <2> QED
    BY <2>2, <2>4, <2>5
<1>13. ASSUME NEW q \in Requests, CheckInterval(q) PROVE Sourced'
  BY <1>13 DEF CheckInterval, Goto
<1>14. ASSUME NEW q \in Requests, ReadBounds(q) PROVE Sourced'
  <2>1. /\ asked' = asked /\ lived' = lived /\ pc'[q] # "new"
        /\ \A r \in Requests : r # q => pc'[r] = pc[r]
    BY <1>14 DEF ReadBounds, Read, Goto
  <2>2. got' = got \/ Take(q, "bounds", model[at[q]].job)
    BY <1>14 DEF ReadBounds, Read
  <2>3. "bounds" \in Parts /\ pc[q] \in OnQuery
    BY <1>14 DEF ReadBounds, Parts
  <2>4. CASE got' = got
    BY <2>1, <2>4
  <2>5. CASE Take(q, "bounds", model[at[q]].job)
    <3>1. /\ got'[q]["bounds"] = model[at[q]].job
          /\ \A p \in Parts : p # "bounds" => got'[q][p] = got[q][p]
          /\ \A r \in Requests : r # q => got'[r] = got[r]
      BY <2>3, <2>5, Taken
    <3>2. model[at[q]] \in lived[q]
      BY <2>3, AtLive
    <3>3. ASSUME NEW r \in Requests, asked[r] = None, NEW p \in Parts, got'[r][p] # None
          PROVE  \E h \in lived[r] : h.job = got'[r][p]
      <4>1. CASE r # q
        BY <3>1, <3>3, <4>1
      <4>2. CASE r = q /\ p = "bounds"
        BY <3>1, <3>2, <4>2
      <4>3. CASE r = q /\ p # "bounds"
        BY <3>1, <3>3, <4>3
      <4> QED
        BY <4>1, <4>2, <4>3
    <3> QED
      BY <2>1, <3>1, <3>3
  <2> QED
    BY <2>2, <2>4, <2>5
<1>15. ASSUME NEW q \in Requests, ReadKind(q) PROVE Sourced'
  <2>1. /\ asked' = asked /\ lived' = lived /\ pc'[q] # "new"
        /\ \A r \in Requests : r # q => pc'[r] = pc[r]
    BY <1>15 DEF ReadKind, Goto
  <2>2. got' = got \/ Take(q, "kind", model[at[q]].job)
    BY <1>15 DEF ReadKind
  <2>3. "kind" \in Parts /\ pc[q] \in OnQuery
    BY <1>15 DEF ReadKind, Parts
  <2>4. CASE got' = got
    BY <2>1, <2>4
  <2>5. CASE Take(q, "kind", model[at[q]].job)
    <3>1. /\ got'[q]["kind"] = model[at[q]].job
          /\ \A p \in Parts : p # "kind" => got'[q][p] = got[q][p]
          /\ \A r \in Requests : r # q => got'[r] = got[r]
      BY <2>3, <2>5, Taken
    <3>2. model[at[q]] \in lived[q]
      BY <2>3, AtLive
    <3>3. ASSUME NEW r \in Requests, asked[r] = None, NEW p \in Parts, got'[r][p] # None
          PROVE  \E h \in lived[r] : h.job = got'[r][p]
      <4>1. CASE r # q
        BY <3>1, <3>3, <4>1
      <4>2. CASE r = q /\ p = "kind"
        BY <3>1, <3>2, <4>2
      <4>3. CASE r = q /\ p # "kind"
        BY <3>1, <3>3, <4>3
      <4> QED
        BY <4>1, <4>2, <4>3
    <3> QED
      BY <2>1, <3>1, <3>3
  <2> QED
    BY <2>2, <2>4, <2>5
<1>16. CASE UNCHANGED vars
  BY <1>16 DEF vars
<1> QED
  BY <1>1, <1>2, <1>3, <1>4, <1>5, <1>6, <1>7, <1>8, <1>9, <1>10, <1>11, <1>12, <1>13,
     <1>14, <1>15, <1>16 DEF Next, Summary, Query

LEMMA StepSingle == Loop /\ Alive /\ Sourced /\ Single /\ [Next]_vars => Single'
<1> SUFFICES ASSUME Loop, Alive, Sourced, Single, [Next]_vars PROVE Single'
  OBVIOUS
<1> USE DEF Loop, Typed, AtHand, Alive, Single, Optional, Places, OnLoop, OnQuery, training,
            cache, outside, request
<1>1. ASSUME NEW w \in Workers, Restart(w) PROVE Single'
  BY <1>1 DEF Restart
<1>2. ASSUME NEW w \in Workers, NEW j \in Jobs, Publish(w, j) PROVE Single'
  <2>1. /\ pc' = pc /\ asked' = asked /\ got' = got
        /\ \A q \in Requests : lived[q] \subseteq lived'[q]
    BY <1>2 DEF Publish
  <2>2. ASSUME NEW q \in Requests, NEW h \in Handles, asked[q] = None, lived'[q] = {h},
               pc[q] \in {"fare", "check", "bounds", "kind"}
        PROVE  lived[q] = {h}
    <3>1. model[at[q]] \in lived[q]
      BY <2>2, AtLive
    <3> QED
      BY <2>1, <2>2, <3>1
  <2>3. ASSUME NEW q \in Requests, NEW h \in Handles, lived'[q] = {h}, pc[q] = "served"
        PROVE  lived[q] = {h}
    BY <1>2, <2>3 DEF Publish, Running
  <2>4. ASSUME NEW q \in Requests, NEW h \in Handles, asked[q] = None, lived'[q] = {h},
               pc[q] \in {"fare", "check", "bounds", "kind", "served"}
        PROVE  lived[q] = {h}
    BY <2>2, <2>3, <2>4
  <2>5. ASSUME NEW q \in Requests, NEW h \in Handles, asked[q] = None, lived'[q] = {h}
        PROVE  \/ lived[q] = {h}
               \/ pc[q] \notin {"fare", "check", "bounds", "kind", "served"}
    BY <2>4, <2>5
  <2> HIDE DEF Loop, Typed, AtHand, Alive
  <2> QED
    BY <2>1, <2>5
<1>3. ASSUME NEW j \in Jobs, Save(j) PROVE Single'
  BY <1>3 DEF Save
<1>4. CASE RedisStops
  BY <1>4 DEF RedisStops
<1>5. CASE RedisStarts
  BY <1>5 DEF RedisStarts
<1>6. ASSUME NEW k \in Keys, Expire(k) PROVE Single'
  BY <1>6 DEF Expire
<1>7. ASSUME NEW q \in Requests, NEW w \in Workers, Capture(q, w) PROVE Single'
  BY <1>7 DEF Capture, Goto
<1>8. ASSUME NEW q \in Requests, Look(q) PROVE Single'
  BY <1>8 DEF Look, Goto, Take, Connect
<1>9. ASSUME NEW q \in Requests, Compute(q) PROVE Single'
  BY <1>9 DEF Compute, Goto, Take
<1>10. ASSUME NEW q \in Requests, Put(q) PROVE Single'
  BY <1>10 DEF Put, Goto, Connect
<1>11. ASSUME NEW q \in Requests, NEW w \in Workers, Begin(q, w) PROVE Single'
  <2>1. /\ pc'[q] \in {"refused", "fare"} /\ asked' = asked /\ got' = got /\ pc[q] = "new"
        /\ \A r \in Requests : r # q => pc'[r] = pc[r] /\ lived'[r] = lived[r]
    BY <1>11 DEF Begin, Goto
  <2>2. asked[q] = None => got[q]["bounds"] = None
    BY <2>1 DEF Nothing, Parts, Sourced
  <2>3. ASSUME NEW r \in Requests, NEW h \in Handles, asked[r] = None, lived'[r] = {h},
               r # q
        PROVE  pc'[r] = pc[r] /\ got'[r] = got[r] /\ lived[r] = {h}
    BY <2>1, <2>3
  <2>4. /\ pc'[q] \notin {"check", "bounds", "kind", "served"}
        /\ asked[q] = None => got'[q]["bounds"] = None
    BY <2>1, <2>2
  <2> QED
    BY <2>1, <2>3, <2>4
<1>12. ASSUME NEW q \in Requests, ReadFare(q) PROVE Single'
  <2>1. /\ asked' = asked /\ lived' = lived
        /\ \A r \in Requests : r # q => pc'[r] = pc[r]
    BY <1>12 DEF ReadFare, Read, Goto
  <2>2. "fare" \in Parts /\ pc[q] \in OnQuery /\ {"fare", "bounds", "kind"} \subseteq Parts
    BY <1>12 DEF ReadFare, Parts
  <2>3. \/ got' = got /\ pc'[q] = "failed"
        \/ Take(q, "fare", model[at[q]].job) /\ pc'[q] = "check"
    BY <1>12 DEF ReadFare, Read, Goto
  <2>4. CASE got' = got /\ pc'[q] = "failed"
    BY <2>1, <2>4
  <2>5. CASE Take(q, "fare", model[at[q]].job) /\ pc'[q] = "check"
    <3>1. /\ got'[q]["fare"] = model[at[q]].job
          /\ \A p \in {"fare", "bounds", "kind"} : p # "fare" => got'[q][p] = got[q][p]
          /\ \A r \in Requests : r # q => got'[r] = got[r]
      BY <2>2, <2>5, Taken
    <3>2. model[at[q]] \in lived[q]
      BY <2>2, AtLive
    <3> QED
      BY <1>12, <2>1, <2>5, <3>1, <3>2 DEF ReadFare
  <2> QED
    BY <2>3, <2>4, <2>5
<1>13. ASSUME NEW q \in Requests, CheckInterval(q) PROVE Single'
  <2>1. /\ asked' = asked /\ lived' = lived /\ got' = got /\ pc[q] = "check"
        /\ pc' = [pc EXCEPT ![q] = IF model[at[q]].job \in Calibrated THEN "bounds"
                                                                      ELSE "kind"]
    BY <1>13, AtLive DEF CheckInterval, Goto
  <2>2. model[at[q]] \in lived[q]
    BY <2>1, AtLive
  <2>3. ASSUME NEW r \in Requests, r # q PROVE pc'[r] = pc[r]
    BY <2>1, <2>3
  <2>4. pc'[q] = IF model[at[q]].job \in Calibrated THEN "bounds" ELSE "kind"
    BY <2>1
  <2> QED
    BY <2>1, <2>2, <2>3, <2>4
<1>14. ASSUME NEW q \in Requests, ReadBounds(q) PROVE Single'
  <2>1. /\ asked' = asked /\ lived' = lived
        /\ \A r \in Requests : r # q => pc'[r] = pc[r]
    BY <1>14 DEF ReadBounds, Read, Goto
  <2>2. "bounds" \in Parts /\ pc[q] \in OnQuery /\ {"fare", "bounds", "kind"} \subseteq Parts
    BY <1>14 DEF ReadBounds, Parts
  <2>3. \/ got' = got /\ pc'[q] = "failed"
        \/ Take(q, "bounds", model[at[q]].job) /\ pc'[q] = "kind"
    BY <1>14 DEF ReadBounds, Read, Goto
  <2>4. CASE got' = got /\ pc'[q] = "failed"
    BY <2>1, <2>4
  <2>5. CASE Take(q, "bounds", model[at[q]].job) /\ pc'[q] = "kind"
    <3>1. /\ got'[q]["bounds"] = model[at[q]].job
          /\ \A p \in {"fare", "bounds", "kind"} : p # "bounds" => got'[q][p] = got[q][p]
          /\ \A r \in Requests : r # q => got'[r] = got[r]
      BY <2>2, <2>5, Taken
    <3>2. model[at[q]] \in lived[q]
      BY <2>2, AtLive
    <3> QED
      BY <1>14, <2>1, <2>5, <3>1, <3>2 DEF ReadBounds
  <2> QED
    BY <2>3, <2>4, <2>5
<1>15. ASSUME NEW q \in Requests, ReadKind(q) PROVE Single'
  <2>1. /\ asked' = asked /\ lived' = lived
        /\ \A r \in Requests : r # q => pc'[r] = pc[r]
    BY <1>15 DEF ReadKind, Goto
  <2>2. "kind" \in Parts /\ pc[q] \in OnQuery /\ {"fare", "bounds", "kind"} \subseteq Parts
    BY <1>15 DEF ReadKind, Parts
  <2>3. \/ got' = got /\ pc'[q] = "failed"
        \/ Take(q, "kind", model[at[q]].job) /\ pc'[q] = "served"
    BY <1>15 DEF ReadKind, Goto
  <2>4. CASE got' = got /\ pc'[q] = "failed"
    BY <2>1, <2>4
  <2>5. CASE Take(q, "kind", model[at[q]].job) /\ pc'[q] = "served"
    <3>1. /\ got'[q]["kind"] = model[at[q]].job
          /\ \A p \in {"fare", "bounds", "kind"} : p # "kind" => got'[q][p] = got[q][p]
          /\ \A r \in Requests : r # q => got'[r] = got[r]
      BY <2>2, <2>5, Taken
    <3>2. model[at[q]] \in lived[q]
      BY <2>2, AtLive
    <3> QED
      BY <1>15, <2>1, <2>5, <3>1, <3>2 DEF ReadKind
  <2> QED
    BY <2>3, <2>4, <2>5
<1>16. CASE UNCHANGED vars
  BY <1>16 DEF vars
<1> QED
  BY <1>1, <1>2, <1>3, <1>4, <1>5, <1>6, <1>7, <1>8, <1>9, <1>10, <1>11, <1>12, <1>13,
     <1>14, <1>15, <1>16 DEF Next, Summary, Query

\* Each part of an answer is of a model that was live while the query ran, and without a
\* training that publishes meanwhile all are of one (graphql.py:48-68).
THEOREM QueriesCohere == Spec => []QueryCoherent
<1>1. Init => Alive /\ Sourced /\ Single
  BY FS_EmptySet DEF Init, Alive, Sourced, Single, OnQuery, Nothing
<1>2. Loop /\ Sourced /\ Single => QueryCoherent
  <2> SUFFICES ASSUME Loop, Sourced, Single, NEW q \in Requests, pc[q] = "served",
                      asked[q] = None, Cardinality(lived[q]) = 1
               PROVE  /\ got[q]["fare"] = got[q]["kind"]
                      /\ got[q]["bounds"] = IF got[q]["fare"] \in Calibrated
                                              THEN got[q]["fare"] ELSE None
    BY DEF QueryCoherent, Sourced
  <2>1. PICK h : lived[q] = {h}
    BY FS_Singleton DEF Sourced
  <2>2. h \in Handles
    BY <2>1 DEF Loop, Typed
  <2> QED
    BY <2>1, <2>2 DEF Single
<1> QED
  BY <1>1, <1>2, LoopAlways, StepAlive, StepSourced, StepSingle, PTL DEF Spec

-----------------------------------------------------------------------------
(* Summaries.  What the caches hold under a key was computed for a model   *)
(* that has it, or had it before it came back without its configuration.   *)

Fits(k, j) == /\ KindOf[j] = k[1] /\ BackgroundOf[j] = k[3]
              /\ CfgOf[j] = k[2] \/ (forgot /\ KindOf[j] \in Forgetting)

\* A handle that has lost its configuration is one that somebody has seen come back.
Remembered == /\ \A w \in Workers : model[w] # None =>
                   ConfigNow(model[w]) = CfgOf[model[w].job] \/ forgot
              /\ \A q \in Requests : asked[q] # None =>
                   ConfigNow(asked[q]) = CfgOf[asked[q].job] \/ forgot

Stored == \A k \in Keys : /\ redis[k] # None => Fits(k, redis[k])
                          /\ \A w \in Workers : local[w][k] # None => Fits(k, local[w][k])

Found == \A q \in Requests : got[q]["summary"] # None =>
           asked[q] # None /\ Fits(Fingerprint(asked[q]), got[q]["summary"])

LEMMA FitsItsOwn ==
  ASSUME NEW h \in Handles, ConfigNow(h) = CfgOf[h.job] \/ forgot
  PROVE  Fits(Fingerprint(h), h.job)
BY DEF Fits, Fingerprint, ConfigNow

LEMMA FitsForever == ASSUME forgot => forgot', NEW k, NEW j, Fits(k, j) PROVE Fits(k, j)'
BY DEF Fits

LEMMA NeverUnforgotten == [Next]_vars => (forgot => forgot')
<1> SUFFICES ASSUME [Next]_vars, forgot PROVE forgot'
  OBVIOUS
<1>1. ASSUME NEW w \in Workers, Restart(w) PROVE forgot'
  BY <1>1 DEF Restart
<1>2. ASSUME NEW w \in Workers, NEW j \in Jobs, Publish(w, j) PROVE forgot'
  BY <1>2 DEF Publish
<1>3. ASSUME NEW j \in Jobs, Save(j) PROVE forgot'
  BY <1>3 DEF Save
<1>4. CASE RedisStops
  BY <1>4 DEF RedisStops
<1>5. CASE RedisStarts
  BY <1>5 DEF RedisStarts
<1>6. ASSUME NEW k \in Keys, Expire(k) PROVE forgot'
  BY <1>6 DEF Expire
<1>7. ASSUME NEW q \in Requests, NEW w \in Workers, Capture(q, w) PROVE forgot'
  BY <1>7 DEF Capture, Goto
<1>8. ASSUME NEW q \in Requests, Look(q) PROVE forgot'
  BY <1>8 DEF Look, Goto, Take, Connect
<1>9. ASSUME NEW q \in Requests, Compute(q) PROVE forgot'
  BY <1>9 DEF Compute, Goto, Take
<1>10. ASSUME NEW q \in Requests, Put(q) PROVE forgot'
  BY <1>10 DEF Put, Goto, Connect
<1>11. ASSUME NEW q \in Requests, NEW w \in Workers, Begin(q, w) PROVE forgot'
  BY <1>11 DEF Begin, Goto
<1>12. ASSUME NEW q \in Requests, ReadFare(q) PROVE forgot'
  BY <1>12 DEF ReadFare, Read, Goto, Take
<1>13. ASSUME NEW q \in Requests, CheckInterval(q) PROVE forgot'
  BY <1>13 DEF CheckInterval, Goto
<1>14. ASSUME NEW q \in Requests, ReadBounds(q) PROVE forgot'
  BY <1>14 DEF ReadBounds, Read, Goto, Take
<1>15. ASSUME NEW q \in Requests, ReadKind(q) PROVE forgot'
  BY <1>15 DEF ReadKind, Goto, Take
<1>16. CASE UNCHANGED vars
  BY <1>16 DEF vars
<1> QED
  BY <1>1, <1>2, <1>3, <1>4, <1>5, <1>6, <1>7, <1>8, <1>9, <1>10, <1>11, <1>12, <1>13,
     <1>14, <1>15, <1>16 DEF Next, Summary, Query

LEMMA StepRemembered == Loop /\ Remembered /\ [Next]_vars => Remembered'
<1> SUFFICES ASSUME Loop, Remembered, [Next]_vars PROVE Remembered'
  OBVIOUS
<1> USE NeverUnforgotten
        DEF Loop, Typed, AtHand, Remembered, ConfigNow, Optional, training, cache, outside,
            request
<1>1. ASSUME NEW w \in Workers, Restart(w) PROVE Remembered'
  BY <1>1 DEF Restart
<1>2. ASSUME NEW w \in Workers, NEW j \in Jobs, Publish(w, j) PROVE Remembered'
  BY <1>2 DEF Publish
<1>3. ASSUME NEW j \in Jobs, Save(j) PROVE Remembered'
  BY <1>3 DEF Save
<1>4. CASE RedisStops
  BY <1>4 DEF RedisStops
<1>5. CASE RedisStarts
  BY <1>5 DEF RedisStarts
<1>6. ASSUME NEW k \in Keys, Expire(k) PROVE Remembered'
  BY <1>6 DEF Expire
<1>7. ASSUME NEW q \in Requests, NEW w \in Workers, Capture(q, w) PROVE Remembered'
  BY <1>7 DEF Capture, Goto
<1>8. ASSUME NEW q \in Requests, Look(q) PROVE Remembered'
  BY <1>8 DEF Look, Goto, Take, Connect
<1>9. ASSUME NEW q \in Requests, Compute(q) PROVE Remembered'
  BY <1>9 DEF Compute, Goto, Take
<1>10. ASSUME NEW q \in Requests, Put(q) PROVE Remembered'
  BY <1>10 DEF Put, Goto, Connect
<1>11. ASSUME NEW q \in Requests, NEW w \in Workers, Begin(q, w) PROVE Remembered'
  BY <1>11 DEF Begin, Goto
<1>12. ASSUME NEW q \in Requests, ReadFare(q) PROVE Remembered'
  BY <1>12 DEF ReadFare, Read, Goto, Take
<1>13. ASSUME NEW q \in Requests, CheckInterval(q) PROVE Remembered'
  BY <1>13 DEF CheckInterval, Goto
<1>14. ASSUME NEW q \in Requests, ReadBounds(q) PROVE Remembered'
  BY <1>14 DEF ReadBounds, Read, Goto, Take
<1>15. ASSUME NEW q \in Requests, ReadKind(q) PROVE Remembered'
  BY <1>15 DEF ReadKind, Goto, Take
<1>16. CASE UNCHANGED vars
  BY <1>16 DEF vars
<1> QED
  BY <1>1, <1>2, <1>3, <1>4, <1>5, <1>6, <1>7, <1>8, <1>9, <1>10, <1>11, <1>12, <1>13,
     <1>14, <1>15, <1>16 DEF Next, Summary, Query

LEMMA StepStored == Loop /\ Remembered /\ Stored /\ [Next]_vars => Stored'
<1> SUFFICES ASSUME Loop, Remembered, Stored, [Next]_vars PROVE Stored'
  OBVIOUS
<1>0. forgot => forgot'
  BY NeverUnforgotten
<1> USE FitsForever, <1>0 DEF Loop, Typed, Stored, Optional, training, cache, outside, request
<1>1. ASSUME NEW w \in Workers, Restart(w) PROVE Stored'
  BY <1>1 DEF Restart
<1>2. ASSUME NEW w \in Workers, NEW j \in Jobs, Publish(w, j) PROVE Stored'
  BY <1>2 DEF Publish
<1>3. ASSUME NEW j \in Jobs, Save(j) PROVE Stored'
  BY <1>3 DEF Save
<1>4. CASE RedisStops
  BY <1>4 DEF RedisStops
<1>5. CASE RedisStarts
  BY <1>5 DEF RedisStarts
<1>6. ASSUME NEW k \in Keys, Expire(k) PROVE Stored'
  BY <1>6 DEF Expire
<1>7. ASSUME NEW q \in Requests, NEW w \in Workers, Capture(q, w) PROVE Stored'
  BY <1>7 DEF Capture, Goto
<1>8. ASSUME NEW q \in Requests, Look(q) PROVE Stored'
  BY <1>8 DEF Look, Goto, Take, Connect
<1>9. ASSUME NEW q \in Requests, Compute(q) PROVE Stored'
  BY <1>9 DEF Compute, Goto, Take
<1>10. ASSUME NEW q \in Requests, Put(q) PROVE Stored'
  <2>1. asked[q] \in Handles /\ at[q] \in Workers
    BY <1>10 DEF Put, AtHand, OnLoop
  <2>2. Fits(Fingerprint(asked[q]), asked[q].job) /\ Fingerprint(asked[q]) \in Keys
    BY <2>1, FitsItsOwn, FingerprintIsKey DEF Remembered
  <2>3. ASSUME NEW k \in Keys, NEW j, j # None,
               j = redis'[k] \/ \E w \in Workers : j = local'[w][k]
        PROVE  Fits(k, j)'
    <3>1. \/ j = redis[k] \/ \E w \in Workers : j = local[w][k]
          \/ k = Fingerprint(asked[q]) /\ j = asked[q].job
      BY <1>10, <2>1, <2>2, <2>3 DEF Put
    <3>2. Fits(k, j)
      BY <2>2, <2>3, <3>1
    <3> QED
      BY <3>2
  <2> QED
    BY <2>3
<1>11. ASSUME NEW q \in Requests, NEW w \in Workers, Begin(q, w) PROVE Stored'
  BY <1>11 DEF Begin, Goto
<1>12. ASSUME NEW q \in Requests, ReadFare(q) PROVE Stored'
  BY <1>12 DEF ReadFare, Read, Goto, Take
<1>13. ASSUME NEW q \in Requests, CheckInterval(q) PROVE Stored'
  BY <1>13 DEF CheckInterval, Goto
<1>14. ASSUME NEW q \in Requests, ReadBounds(q) PROVE Stored'
  BY <1>14 DEF ReadBounds, Read, Goto, Take
<1>15. ASSUME NEW q \in Requests, ReadKind(q) PROVE Stored'
  BY <1>15 DEF ReadKind, Goto, Take
<1>16. CASE UNCHANGED vars
  BY <1>16 DEF vars
<1> QED
  BY <1>1, <1>2, <1>3, <1>4, <1>5, <1>6, <1>7, <1>8, <1>9, <1>10, <1>11, <1>12, <1>13,
     <1>14, <1>15, <1>16 DEF Next, Summary, Query

LEMMA StepFound == Loop /\ Remembered /\ Stored /\ Found /\ [Next]_vars => Found'
<1> SUFFICES ASSUME Loop, Remembered, Stored, Found, [Next]_vars PROVE Found'
  OBVIOUS
<1>0. forgot => forgot'
  BY NeverUnforgotten
<1> USE FitsForever, <1>0 DEF Loop, Typed, AtHand, OnQuery, Found, Fingerprint, ConfigNow,
            Optional, training, cache, outside, request
<1>1. ASSUME NEW w \in Workers, Restart(w) PROVE Found'
  BY <1>1 DEF Restart
<1>2. ASSUME NEW w \in Workers, NEW j \in Jobs, Publish(w, j) PROVE Found'
  BY <1>2 DEF Publish
<1>3. ASSUME NEW j \in Jobs, Save(j) PROVE Found'
  BY <1>3 DEF Save
<1>4. CASE RedisStops
  BY <1>4 DEF RedisStops
<1>5. CASE RedisStarts
  BY <1>5 DEF RedisStarts
<1>6. ASSUME NEW k \in Keys, Expire(k) PROVE Found'
  BY <1>6 DEF Expire
<1>7. ASSUME NEW q \in Requests, NEW w \in Workers, Capture(q, w) PROVE Found'
  BY <1>7 DEF Capture, Goto
<1>8. ASSUME NEW q \in Requests, Look(q) PROVE Found'
  <2>1. /\ asked' = asked /\ asked[q] \in Handles /\ at[q] \in Workers
        /\ asked[q] # None /\ Fingerprint(asked[q]) \in Keys
    BY <1>8, FingerprintIsKey DEF Look, AtHand
  <2>2. ASSUME NEW r \in Requests, NEW j, j # None, j = got'[r]["summary"], r # q
        PROVE  asked[r] # None /\ Fits(Fingerprint(asked[r]), j)
    <3>1. \E job : Take(q, "summary", job)
      BY <1>8 DEF Look
    <3>2. got'[r] = got[r]
      BY <2>2, <3>1, Taken DEF Parts
    <3> QED
      BY <2>2, <3>2
  <2>3. ASSUME NEW j, j # None, j = got'[q]["summary"]
        PROVE  asked[q] # None /\ Fits(Fingerprint(asked[q]), j)
    <3>1. \/ j = redis[Fingerprint(asked[q])] \/ j = local[at[q]][Fingerprint(asked[q])]
      BY ZenonT(40), <1>8, <2>1, <2>3, Taken DEF Look, Parts
    <3> QED
      BY <2>1, <2>3, <3>1 DEF Stored
  <2>4. ASSUME NEW r \in Requests, NEW j, j # None, j = got'[r]["summary"]
        PROVE  asked[r] # None /\ Fits(Fingerprint(asked[r]), j)'
    <3>1. Fits(Fingerprint(asked[r]), j) /\ asked[r] # None
      BY <2>2, <2>3, <2>4
    <3> QED
      BY <2>1, <3>1 DEF Fits
  <2> QED
    BY <2>1, <2>4
<1>9. ASSUME NEW q \in Requests, Compute(q) PROVE Found'
  <2>1. asked' = asked /\ asked[q] \in Handles /\ asked[q] # None
    BY <1>9 DEF Compute, AtHand
  <2>2. ASSUME NEW r \in Requests, NEW j, j # None, j = got'[r]["summary"], r # q
        PROVE  asked[r] # None /\ Fits(Fingerprint(asked[r]), j)
    BY <1>9, <2>2, Taken DEF Compute, Parts
  <2>3. ASSUME NEW j, j # None, j = got'[q]["summary"]
        PROVE  asked[q] # None /\ Fits(Fingerprint(asked[q]), j)
    <3>1. j = asked[q].job \/ j = got[q]["summary"]
      BY <1>9, <2>3, Taken DEF Compute, Parts
    <3> QED
      BY <2>1, <2>3, <3>1, FitsItsOwn DEF Remembered
  <2>4. ASSUME NEW r \in Requests, NEW j, j # None, j = got'[r]["summary"]
        PROVE  asked[r] # None /\ Fits(Fingerprint(asked[r]), j)'
    <3>1. Fits(Fingerprint(asked[r]), j) /\ asked[r] # None
      BY <2>2, <2>3, <2>4
    <3> QED
      BY <2>1, <3>1 DEF Fits
  <2> QED
    BY <2>1, <2>4
<1>10. ASSUME NEW q \in Requests, Put(q) PROVE Found'
  BY <1>10 DEF Put, Goto, Connect
<1>11. ASSUME NEW q \in Requests, NEW w \in Workers, Begin(q, w) PROVE Found'
  BY <1>11 DEF Begin, Goto
<1>12. ASSUME NEW q \in Requests, ReadFare(q) PROVE Found'
  <2>1. asked' = asked
    BY <1>12 DEF ReadFare, Read
  <2>2. ASSUME NEW r \in Requests, NEW j, j # None, j = got'[r]["summary"], r # q
        PROVE  asked[r] # None /\ Fits(Fingerprint(asked[r]), j)
    BY <1>12, <2>2, Taken DEF ReadFare, Read, Parts
  <2>3. ASSUME NEW j, j # None, j = got'[q]["summary"]
        PROVE  asked[q] # None /\ Fits(Fingerprint(asked[q]), j)
    <3>1. j = got[q]["summary"]
      BY <1>12, <2>3, Taken DEF ReadFare, Read, Parts
    <3> QED
      BY <2>3, <3>1
  <2>4. ASSUME NEW r \in Requests, NEW j, j # None, j = got'[r]["summary"]
        PROVE  asked[r] # None /\ Fits(Fingerprint(asked[r]), j)'
    <3>1. Fits(Fingerprint(asked[r]), j) /\ asked[r] # None
      BY <2>2, <2>3, <2>4
    <3> QED
      BY <2>1, <3>1 DEF Fits
  <2> QED
    BY <2>1, <2>4
<1>13. ASSUME NEW q \in Requests, CheckInterval(q) PROVE Found'
  BY <1>13 DEF CheckInterval, Goto
<1>14. ASSUME NEW q \in Requests, ReadBounds(q) PROVE Found'
  <2>1. asked' = asked
    BY <1>14 DEF ReadBounds, Read
  <2>2. ASSUME NEW r \in Requests, NEW j, j # None, j = got'[r]["summary"], r # q
        PROVE  asked[r] # None /\ Fits(Fingerprint(asked[r]), j)
    BY <1>14, <2>2, Taken DEF ReadBounds, Read, Parts
  <2>3. ASSUME NEW j, j # None, j = got'[q]["summary"]
        PROVE  asked[q] # None /\ Fits(Fingerprint(asked[q]), j)
    <3>1. j = got[q]["summary"]
      BY <1>14, <2>3, Taken DEF ReadBounds, Read, Parts
    <3> QED
      BY <2>3, <3>1
  <2>4. ASSUME NEW r \in Requests, NEW j, j # None, j = got'[r]["summary"]
        PROVE  asked[r] # None /\ Fits(Fingerprint(asked[r]), j)'
    <3>1. Fits(Fingerprint(asked[r]), j) /\ asked[r] # None
      BY <2>2, <2>3, <2>4
    <3> QED
      BY <2>1, <3>1 DEF Fits
  <2> QED
    BY <2>1, <2>4
<1>15. ASSUME NEW q \in Requests, ReadKind(q) PROVE Found'
  <2>1. asked' = asked
    BY <1>15 DEF ReadKind
  <2>2. ASSUME NEW r \in Requests, NEW j, j # None, j = got'[r]["summary"], r # q
        PROVE  asked[r] # None /\ Fits(Fingerprint(asked[r]), j)
    BY <1>15, <2>2, Taken DEF ReadKind, Parts
  <2>3. ASSUME NEW j, j # None, j = got'[q]["summary"]
        PROVE  asked[q] # None /\ Fits(Fingerprint(asked[q]), j)
    <3>1. j = got[q]["summary"]
      BY <1>15, <2>3, Taken DEF ReadKind, Parts
    <3> QED
      BY <2>3, <3>1
  <2>4. ASSUME NEW r \in Requests, NEW j, j # None, j = got'[r]["summary"]
        PROVE  asked[r] # None /\ Fits(Fingerprint(asked[r]), j)'
    <3>1. Fits(Fingerprint(asked[r]), j) /\ asked[r] # None
      BY <2>2, <2>3, <2>4
    <3> QED
      BY <2>1, <3>1 DEF Fits
  <2> QED
    BY <2>1, <2>4
<1>16. CASE UNCHANGED vars
  BY <1>16 DEF vars
<1> QED
  BY <1>1, <1>2, <1>3, <1>4, <1>5, <1>6, <1>7, <1>8, <1>9, <1>10, <1>11, <1>12, <1>13,
     <1>14, <1>15, <1>16 DEF Next, Summary, Query

\* A summary is served only for a model of its kind and background, and of its
\* configuration while no estimator has come back without its own (cache.py:41-44, 87-122).
THEOREM SummariesFit == Spec => []SummaryOfTheModel
<1>1. Init => Remembered /\ Stored /\ Found
  BY DEF Init, Remembered, Stored, Found, Nothing, Parts
<1>2. Loop /\ Remembered /\ Found => SummaryOfTheModel
  <2> SUFFICES ASSUME Loop, Remembered, Found, NEW q \in Requests, got[q]["summary"] # None
               PROVE  /\ KindOf[asked[q].job] = KindOf[got[q]["summary"]]
                      /\ BackgroundOf[asked[q].job] = BackgroundOf[got[q]["summary"]]
                      /\ \/ forgot /\ KindOf[asked[q].job] \in Forgetting
                         \/ CfgOf[asked[q].job] = CfgOf[got[q]["summary"]]
    BY DEF SummaryOfTheModel
  <2>1. asked[q] # None /\ Fits(Fingerprint(asked[q]), got[q]["summary"])
    BY DEF Found
  <2>2. ConfigNow(asked[q]) = CfgOf[asked[q].job] \/ forgot
    BY <2>1 DEF Remembered
  <2> QED
    BY <2>1, <2>2 DEF Fits, Fingerprint, ConfigNow
<1> QED
  BY <1>1, <1>2, LoopAlways, StepRemembered, StepStored, StepFound, PTL DEF Spec
=============================================================================
