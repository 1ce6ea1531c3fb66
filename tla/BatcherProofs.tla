---------------------------- MODULE BatcherProofs ----------------------------
(***************************************************************************)
(* What holds of the micro-batcher for every set of callers, every         *)
(* max_batch and any number of runtime faults.                             *)
(***************************************************************************)
EXTENDS Batcher, SequenceTheorems, TLAPS

USE BatcherAssumption

Items == Requests \cup {Sentinel}

-----------------------------------------------------------------------------
(* Sequences: what taking a row from the queue does to batch \o queue.     *)

\* Moving the head of the queue to the end of the batch leaves their line as it was.
LEMMA MoveHead ==
  ASSUME NEW S, NEW b \in Seq(S), NEW q \in Seq(S), q # <<>>
  PROVE  /\ Append(b, Head(q)) \in Seq(S)
         /\ Tail(q) \in Seq(S)
         /\ Append(b, Head(q)) \o Tail(q) = b \o q
  OBVIOUS

\* The batch is the front of the line and the queue is the rest.
LEMMA DropPrefix ==
  ASSUME NEW S, NEW b \in Seq(S), NEW q \in Seq(S)
  PROVE  /\ b \o q \in Seq(S)
         /\ Len(b) <= Len(b \o q)
         /\ q = SubSeq(b \o q, Len(b) + 1, Len(b \o q))
         /\ \A i \in 1..Len(b) : (b \o q)[i] = b[i]
  OBVIOUS

\* A row put into the queue is put at the end of the line.
LEMMA AppendLast ==
  ASSUME NEW S, NEW b \in Seq(S), NEW q \in Seq(S), NEW e \in S
  PROVE  b \o Append(q, e) = Append(b \o q, e)
  OBVIOUS

\* With no batch the line is the queue.
LEMMA EmptyLeft ==
  ASSUME NEW S, NEW q \in Seq(S)
  PROVE  <<>> \o q = q
  OBVIOUS

\* The number a future receives was computed from the row of its own caller.
LEMMA OwnNumber ==
  ASSUME PredictOk
  PROVE  val' = [r \in Requests |-> IF r \in Unsettled(batch) THEN r ELSE val[r]]
<1> DEFINE at(r) == CHOOSE i \in Real(batch) : batch[i] = r
<1>1. ASSUME NEW r \in Requests, r \in Unsettled(batch)
      PROVE  Predictions(batch)[at(r)] = r
  <2>1. \E i \in Real(batch) : batch[i] = r
    BY <1>1 DEF Unsettled
  <2>2. at(r) \in Real(batch) /\ batch[at(r)] = r
    BY <2>1
  <2> HIDE DEF at
  <2> QED
    BY <2>2 DEF Predictions
<1>2. val' = [r \in Requests |->
                IF r \in Unsettled(batch) THEN Predictions(batch)[at(r)] ELSE val[r]]
  BY DEF PredictOk
<1> HIDE DEF at
<1> QED
  BY <1>1, <1>2

-----------------------------------------------------------------------------
\* Every reachable state has the right types, and the worker holds rows exactly
\* between taking the first one and calling the runtime (batcher.py:69-105).
THEOREM TypeCorrect == Spec => []TypeOK
<1>1. Init => TypeOK
  <2> SUFFICES ASSUME Init PROVE TypeOK
    OBVIOUS
  <2> USE DEF Init
  <2>1. queue \in Seq(Items) /\ batch \in Seq(Items) /\ log \in Seq(Requests)
    OBVIOUS
  <2>2. Len(batch) = 0
    OBVIOUS
  <2>3. fut \in [Requests -> FutStates]
    BY DEF FutStates
  <2>4. kind \in [Requests -> Kinds]
    BY DEF Kinds
  <2>5. val \in [Requests -> Requests \cup {NoRow}]
    OBVIOUS
  <2>6. worker \in WorkerStates /\ worker \notin {"fill", "wait_for", "predict"} /\ batch = <<>>
    BY DEF WorkerStates
  <2>7. closed \in BOOLEAN /\ loop \in {"up", "down"} /\ stopper \in {"absent", "awaiting", "returned", "skipped"}
    OBVIOUS
  <2>8. faults \in 0..MaxFaults
    OBVIOUS
  <2> QED
    BY <2>1, <2>2, <2>3, <2>4, <2>5, <2>6, <2>7, <2>8 DEF TypeOK, Items
<1>2. TypeOK /\ [Next]_vars => TypeOK'
  <2> SUFFICES ASSUME TypeOK, [Next]_vars PROVE TypeOK'
    OBVIOUS
  <2> USE DEF TypeOK, WorkerStates, Waiting, Running, FutStates, Kinds
  <2>1. CASE WorkerBegins BY <2>1 DEF WorkerBegins
  <2>2. CASE LoopTop BY <2>2 DEF LoopTop
  <2>3. CASE GetFirst BY <2>3 DEF GetFirst
  <2>4. CASE Fill BY <2>4 DEF Fill
  <2>5. CASE GetMore BY <2>5 DEF GetMore
  <2>6. CASE Deadline BY <2>6 DEF Deadline
  <2>7. CASE PredictOk
    <3>1. val' \in [Requests -> Requests \cup {NoRow}]
      BY <2>7, OwnNumber
    <3>2. fut' \in [Requests -> FutStates]
      BY <2>7 DEF PredictOk
    <3> QED
      BY <2>7, <3>1, <3>2 DEF PredictOk
  <2>8. CASE PredictFails BY <2>8 DEF PredictFails
  <2>9. CASE Start BY <2>9 DEF Start, Yielded
  <2>10. CASE Stop
    <3>1. CASE worker = "absent" BY <2>10, <3>1 DEF Stop, Yielded
    <3>2. CASE worker # "absent"
      <4>1. Append(queue, Sentinel) \in Seq(Requests \cup {Sentinel})
        OBVIOUS
      <4> QED
        BY <2>10, <3>2, <4>1 DEF Stop, Yielded
    <3> QED BY <3>1, <3>2
  <2>11. CASE StopReturns BY <2>11 DEF StopReturns, Yielded
  <2>12. CASE TearDown BY <2>12 DEF TearDown, Yielded
  <2>13. ASSUME NEW r \in Requests, Submit(r) PROVE TypeOK'
    BY <2>13 DEF Submit, Yielded
  <2>14. ASSUME NEW r \in Requests, Refuse(r) PROVE TypeOK'
    BY <2>14 DEF Refuse, Yielded
  <2>15. ASSUME NEW r \in Requests, Cancel(r) PROVE TypeOK'
    BY <2>15 DEF Cancel, Yielded
  <2>16. CASE UNCHANGED vars BY <2>16 DEF vars
  <2> QED
    BY <2>1, <2>2, <2>3, <2>4, <2>5, <2>6, <2>7, <2>8, <2>9, <2>10, <2>11, <2>12,
       <2>13, <2>14, <2>15, <2>16 DEF Next, Worker, Callers
<1> QED
  BY <1>1, <1>2, PTL DEF Spec

-----------------------------------------------------------------------------
(* The refinement.  Taking rows is invisible to the service; a runtime     *)
(* call serves the prefix of the line that the worker holds.               *)

\* A row of no features belongs to a request that was made.
Unmade == \A r \in Requests : fut[r] = "none" => kind[r] # "empty"

\* submit() is the only step that fixes the kind of a row.
LEMMA UnmadeStep == TypeOK /\ Unmade /\ [Next]_vars => Unmade'
<1> SUFFICES ASSUME TypeOK, Unmade, [Next]_vars, NEW r \in Requests, fut'[r] = "none"
             PROVE  kind'[r] # "empty"
  BY DEF Unmade
<1> USE DEF TypeOK
<1>1. ASSUME NEW q \in Requests, Submit(q) PROVE kind'[r] # "empty"
  BY <1>1 DEF Submit, Unmade
<1>2. ASSUME NEW q \in Requests, Refuse(q) \/ Cancel(q) PROVE kind'[r] # "empty"
  BY <1>2 DEF Refuse, Cancel, Unmade
<1>3. CASE PredictOk \/ PredictFails \/ TearDown
  BY <1>3 DEF PredictOk, PredictFails, TearDown, Unmade
<1>4. CASE WorkerBegins \/ LoopTop \/ GetFirst \/ Fill \/ GetMore \/ Deadline
  BY <1>4 DEF WorkerBegins, LoopTop, GetFirst, Fill, GetMore, Deadline, Unmade
<1>5. CASE Start \/ Stop \/ StopReturns \/ UNCHANGED vars
  BY <1>5 DEF Start, Stop, StopReturns, vars, Unmade
<1> QED
  BY <1>1, <1>2, <1>3, <1>4, <1>5 DEF Next, Worker, Callers

\* The callers of the batch are the callers of the prefix of the line it forms.
LEMMA BatchCallers ==
  ASSUME TypeOK
  PROVE  /\ line \in Seq(Items)
         /\ Len(batch) <= Len(line)
         /\ queue = SubSeq(line, Len(batch) + 1, Len(line))
         /\ Unsettled(batch) = Service!Callers(Len(batch))
<1>1. /\ line \in Seq(Items)
      /\ Len(batch) <= Len(line)
      /\ queue = SubSeq(line, Len(batch) + 1, Len(line))
      /\ \A i \in 1..Len(batch) : line[i] = batch[i]
  BY DropPrefix DEF TypeOK, line, Items
<1>2. DOMAIN batch = 1..Len(batch)
  BY DEF TypeOK
<1>3. \A r \in Requests : (\E i \in Real(batch) : batch[i] = r)
                          <=> kind[r] # "empty" /\ \E i \in 1..Len(batch) : line[i] = r
  BY <1>1, <1>2 DEF Real
<1> QED
  BY <1>1, <1>3 DEF Unsettled, Service!Callers

\* Every step of the batcher is a step of the row service or leaves it as it is.
LEMMA StepRefines ==
  TypeOK /\ Unmade /\ [Next]_vars => [Service!SNext]_(Service!svars)
<1> SUFFICES ASSUME TypeOK, Unmade, [Next]_vars
             PROVE  [Service!SNext]_(Service!svars)
  OBVIOUS
<1> DEFINE quiet == UNCHANGED <<line, fut, val, kind, closed>>
<1>0. quiet => UNCHANGED Service!svars
  BY DEF Service!svars
<1>1. CASE GetFirst
  <2>1. batch = <<>>
    BY <1>1 DEF GetFirst, TypeOK
  <2>2. line' = line
    BY <1>1, <2>1 DEF GetFirst, TypeOK, line
  <2> QED
    BY <1>0, <1>1, <2>2 DEF GetFirst
<1>2. CASE GetMore
  <2>1. line' = line
    BY <1>2, MoveHead DEF GetMore, TypeOK, line
  <2> QED
    BY <1>0, <1>2, <2>1 DEF GetMore
<1>3. CASE WorkerBegins \/ LoopTop \/ Fill \/ Deadline \/ Start \/ StopReturns \/ UNCHANGED vars
  <2>1. quiet
    BY <1>3 DEF WorkerBegins, LoopTop, Fill, Deadline, Start, StopReturns, vars, line
  <2> QED
    BY <1>0, <2>1
<1>4. CASE PredictOk \/ PredictFails
  <2>1. worker = "predict" /\ batch # <<>> /\ batch' = <<>> /\ queue' = queue
    BY <1>4 DEF PredictOk, PredictFails, TypeOK
  <2>2. Len(batch) \in 1..MaxBatch
    BY <2>1 DEF TypeOK
  <2>3. line' = SubSeq(line, Len(batch) + 1, Len(line))
    BY <2>1, BatchCallers, EmptyLeft DEF line, TypeOK
  <2>4. kind' = kind /\ closed' = closed
    BY <1>4 DEF PredictOk, PredictFails
  <2>5. \/ /\ fut' = [r \in Requests |->
                        IF r \in Service!Callers(Len(batch)) THEN "result" ELSE fut[r]]
           /\ val' = [r \in Requests |->
                        IF r \in Service!Callers(Len(batch)) THEN r ELSE val[r]]
        \/ /\ fut' = [r \in Requests |->
                        IF r \in Service!Callers(Len(batch)) THEN "exception" ELSE fut[r]]
           /\ val' = val
    <3>1. CASE PredictOk
      BY <3>1, OwnNumber, BatchCallers DEF PredictOk
    <3>2. CASE PredictFails
      BY <3>2, BatchCallers DEF PredictFails
    <3> QED
      BY <1>4, <3>1, <3>2
  <2> QED
    BY <2>2, <2>3, <2>4, <2>5, BatchCallers DEF Service!SNext, Service!Serve
<1>5. CASE TearDown
  <2>1. line' = SubSeq(line, Len(batch) + 1, Len(line))
    BY <1>5, BatchCallers, EmptyLeft DEF TearDown, line, TypeOK
  <2>2. Len(batch) \in 0..MaxBatch
    BY DEF TypeOK
  <2> QED
    BY <1>5, <2>1, <2>2, BatchCallers DEF TearDown, Service!SNext, Service!GiveUpAll
<1>6. CASE Stop
  <2>1. line' \in {line, Append(line, Sentinel)}
    <3>1. CASE UNCHANGED <<batch, queue>>
      BY <3>1 DEF line
    <3>2. CASE batch' = batch /\ queue' = Append(queue, Sentinel)
      BY <3>2, AppendLast DEF TypeOK, line
    <3> QED
      BY <1>6, <3>1, <3>2 DEF Stop
  <2> QED
    BY <1>6, <2>1 DEF Stop, Service!SNext, Service!Close
<1>7. ASSUME NEW r \in Requests, Submit(r) PROVE Service!SNext
  <2>1. line' = Append(line, r)
    BY <1>7, AppendLast DEF Submit, TypeOK, line
  <2>2. PICK k \in Kinds : kind' = [kind EXCEPT ![r] = k]
    BY <1>7 DEF Submit
  <2>3. {q \in Requests : kind'[q] = "empty"}
          \in {{q \in Requests : kind[q] = "empty"}, {q \in Requests : kind[q] = "empty"} \cup {r}}
    <3>1. kind[r] # "empty"
      BY <1>7 DEF Submit, Unmade
    <3>2. \A q \in Requests : kind'[q] = IF q = r THEN k ELSE kind[q]
      BY <2>2 DEF TypeOK
    <3> QED
      BY <3>1, <3>2
  <2>4. Service!Accept(r)
    BY <1>7, <2>1, <2>3 DEF Submit, Service!Accept
  <2> QED
    BY <2>4 DEF Service!SNext
<1>8. ASSUME NEW r \in Requests, Refuse(r) PROVE Service!SNext
  <2>1. Service!Refuse(r)
    BY <1>8 DEF Refuse, Service!Refuse, line
  <2> QED
    BY <2>1 DEF Service!SNext
<1>9. ASSUME NEW r \in Requests, Cancel(r) PROVE Service!SNext
  <2>1. Service!GiveUp(r)
    BY <1>9 DEF Cancel, Service!GiveUp, line
  <2> QED
    BY <2>1 DEF Service!SNext
<1> QED
  BY <1>1, <1>2, <1>3, <1>4, <1>5, <1>6, <1>7, <1>8, <1>9 DEF Next, Worker, Callers

\* The micro-batcher implements the row service: whatever the interleaving of
\* collecting, closing, cancelling and failing, callers see a single line served in
\* prefixes of at most MaxBatch rows (batcher.py:53-105).
THEOREM ImplementsService == Spec => ServiceSpec
<1>1. Init => Service!SInit /\ Unmade
  <2> SUFFICES ASSUME Init PROVE Service!SInit /\ Unmade
    OBVIOUS
  <2>1. line = <<>>
    BY DEF Init, line
  <2> QED
    BY <2>1 DEF Init, Service!SInit, Unmade
<1>2. Spec => []Unmade
  <2>1. TypeOK /\ Unmade /\ [Next]_vars => Unmade'
    BY UnmadeStep
  <2> QED
    BY <1>1, <2>1, TypeCorrect, PTL DEF Spec
<1> QED
  BY <1>1, <1>2, StepRefines, TypeCorrect, PTL DEF Spec, ServiceSpec, Service!SSpec

-----------------------------------------------------------------------------
(* What the service's steps keep, the batcher keeps.  A batch is one step  *)
(* there, which is what makes the argument short.                          *)

\* Every step of the row service keeps each waiting row in the line exactly once.
LEMMA ServiceStepKeepsExactlyOnce ==
  ASSUME TypeOK, ExactlyOnce, Service!SNext
  PROVE  ExactlyOnce'
<1> DEFINE V == {r \in Requests : kind[r] = "empty"}
<1> USE DEF ExactlyOnce
<1>0. line \in Seq(Items) /\ fut \in [Requests -> FutStates] /\ kind \in [Requests -> Kinds]
  BY BatchCallers DEF TypeOK
<1>v. \A r \in Requests : r \notin V <=> kind[r] # "empty"
  OBVIOUS
<1>1. ASSUME NEW q \in Requests, Service!Accept(q)
      PROVE  ExactlyOnce'
  <2>1. fut[q] = "none" /\ fut' = [fut EXCEPT ![q] = "pending"] /\ line' = Append(line, q)
    BY <1>1 DEF Service!Accept
  <2>2. V' \in {V, V \cup {q}}
    BY <1>1 DEF Service!Accept
  <2>3. \A i \in DOMAIN line : line[i] # q
    BY <2>1
  <2>4. /\ DOMAIN line' = 1..(Len(line) + 1)
        /\ \A i \in 1..Len(line) : line'[i] = line[i]
        /\ line'[Len(line) + 1] = q
        /\ DOMAIN line = 1..Len(line)
        /\ Len(line) \in Nat
    BY <1>0, <2>1 DEF Items
  <2>5. \A i, j \in DOMAIN line' : line'[i] = line'[j] /\ line'[i] # Sentinel => i = j
    BY <2>3, <2>4
  <2>6. ASSUME NEW r \in Requests, fut'[r] = "pending", kind'[r] # "empty"
        PROVE  \E i \in DOMAIN line' : line'[i] = r
    <3>1. CASE r = q
      BY <2>4, <3>1
    <3>2. CASE r # q
      <4>1. fut[r] = "pending" /\ r \notin V'
        BY <1>0, <2>1, <2>6, <3>2
      <4>2. kind[r] # "empty"
        BY <2>2, <4>1
      <4>3. PICK i \in DOMAIN line : line[i] = r
        BY <4>1, <4>2
      <4> QED
        BY <2>4, <4>3
    <3> QED
      BY <3>1, <3>2
  <2>7. ASSUME NEW r \in Requests, fut'[r] \in {"none", "refused", "result", "exception"}
        PROVE  \A i \in DOMAIN line' : line'[i] # r
    <3>1. r # q /\ fut[r] = fut'[r]
      BY <1>0, <2>1, <2>7
    <3> QED
      BY <2>4, <2>7, <3>1
  <2> QED
    BY <2>5, <2>6, <2>7
<1>2. ASSUME NEW q \in Requests, Service!Refuse(q) \/ Service!GiveUp(q)
      PROVE  ExactlyOnce'
  <2>1. line' = line /\ V' = V
    BY <1>2 DEF Service!Refuse, Service!GiveUp
  <2>2. \A r \in Requests :
          /\ fut'[r] = "pending" => fut[r] = "pending"
          /\ fut'[r] \in {"none", "refused", "result", "exception"}
               => fut[r] \in {"none", "refused", "result", "exception"}
    BY <1>0, <1>2 DEF Service!Refuse, Service!GiveUp
  <2>3. \A r \in Requests : kind'[r] # "empty" => kind[r] # "empty"
    BY <2>1
  <2>4. \A i, j \in DOMAIN line' : line'[i] = line'[j] /\ line'[i] # Sentinel => i = j
    BY <2>1
  <2>5. ASSUME NEW r \in Requests, fut'[r] = "pending", kind'[r] # "empty"
        PROVE  \E i \in DOMAIN line' : line'[i] = r
    <3>1. fut[r] = "pending" /\ kind[r] # "empty"
      BY <2>2, <2>3, <2>5
    <3>2. PICK i \in DOMAIN line : line[i] = r
      BY <3>1
    <3> QED
      BY <2>1, <3>2
  <2>6. ASSUME NEW r \in Requests, fut'[r] \in {"none", "refused", "result", "exception"}
        PROVE  \A i \in DOMAIN line' : line'[i] # r
    BY <2>1, <2>2, <2>6
  <2> HIDE DEF V
  <2> QED
    BY <2>4, <2>5, <2>6
<1>3. CASE Service!Close
  <2>1. fut' = fut /\ V' = V /\ line' \in {line, Append(line, Sentinel)}
    BY <1>3 DEF Service!Close
  <2>2. \A r \in Requests : kind'[r] # "empty" => kind[r] # "empty"
    BY <2>1
  <2>3. CASE line' = line
    BY <2>1, <2>2, <2>3
  <2>4. CASE line' = Append(line, Sentinel)
    <3>1. /\ DOMAIN line' = 1..(Len(line) + 1)
          /\ \A i \in 1..Len(line) : line'[i] = line[i]
          /\ line'[Len(line) + 1] = Sentinel
          /\ DOMAIN line = 1..Len(line)
          /\ Len(line) \in Nat
      BY <1>0, <2>4 DEF Items
    <3>2. \A i, j \in DOMAIN line' : line'[i] = line'[j] /\ line'[i] # Sentinel => i = j
      BY <3>1
    <3>3. ASSUME NEW r \in Requests, fut'[r] = "pending", kind'[r] # "empty"
          PROVE  \E i \in DOMAIN line' : line'[i] = r
      <4>1. PICK i \in DOMAIN line : line[i] = r
        BY <2>1, <2>2, <3>3
      <4> QED
        BY <3>1, <4>1
    <3>4. ASSUME NEW r \in Requests, fut'[r] \in {"none", "refused", "result", "exception"}
          PROVE  \A i \in DOMAIN line' : line'[i] # r
      <4>1. \A i \in DOMAIN line : line[i] # r
        BY <2>1, <3>4
      <4> QED
        BY <3>1, <4>1
    <3> QED
      BY <3>2, <3>3, <3>4
  <2> QED
    BY <2>1, <2>3, <2>4
<1>4. ASSUME NEW n \in 0..MaxBatch, n <= Len(line),
             line' = SubSeq(line, n + 1, Len(line)),
             V' = V,
             \A r \in Requests :
               \/ fut'[r] = fut[r] /\ ~(fut[r] = "pending" /\ r \in Service!Callers(n))
               \/ fut[r] = "pending" /\ fut'[r] \in {"result", "exception"} /\ r \in Service!Callers(n)
               \/ fut[r] = "pending" /\ fut'[r] = "cancelled"
      PROVE  ExactlyOnce'
  <2>1. /\ DOMAIN line = 1..Len(line)
        /\ DOMAIN line' = 1..(Len(line) - n)
        /\ \A i \in 1..(Len(line) - n) : line'[i] = line[i + n]
        /\ Len(line) \in Nat /\ n \in Nat
    BY <1>0, <1>4
  <2>2. \A i \in 1..(Len(line) - n) : i + n \in DOMAIN line
    BY <2>1, <1>4
  <2>3. \A i, j \in DOMAIN line' : line'[i] = line'[j] /\ line'[i] # Sentinel => i = j
    <3> SUFFICES ASSUME NEW i \in DOMAIN line', NEW j \in DOMAIN line',
                        line'[i] = line'[j], line'[i] # Sentinel
                 PROVE  i = j
      OBVIOUS
    <3>1. i + n = j + n
      BY <2>1, <2>2
    <3> QED
      BY <2>1, <3>1
  <2>4. ASSUME NEW r \in Requests, fut'[r] = "pending", kind'[r] # "empty"
        PROVE  \E i \in DOMAIN line' : line'[i] = r
    <3>1. fut[r] = "pending" /\ r \notin Service!Callers(n) /\ kind[r] # "empty"
      BY <1>4, <2>4
    <3>2. PICK i \in DOMAIN line : line[i] = r
      BY <3>1
    <3>3. i \notin 1..n
      BY <3>1, <3>2 DEF Service!Callers
    <3>4. i - n \in DOMAIN line' /\ line'[i - n] = line[(i - n) + n]
      BY <2>1, <3>2, <3>3
    <3>5. (i - n) + n = i
      BY <2>1, <3>2
    <3> QED
      BY <3>2, <3>4, <3>5
  <2>5. ASSUME NEW r \in Requests, fut'[r] \in {"none", "refused", "result", "exception"},
               NEW i \in DOMAIN line'
        PROVE  line'[i] # r
    <3>1. i + n \in DOMAIN line /\ line'[i] = line[i + n]
      BY <2>1, <2>2
    <3>2. CASE fut'[r] = fut[r]
      BY <2>5, <3>1, <3>2
    <3>3. CASE r \in Service!Callers(n)
      <4>1. PICK k \in 1..n : line[k] = r
        BY <3>3 DEF Service!Callers
      <4>2. k \in DOMAIN line /\ k # i + n
        BY <1>4, <2>1, <4>1
      <4> QED
        BY <3>1, <4>1, <4>2, BatcherAssumption
    <3> QED
      BY <1>4, <2>5, <3>2, <3>3
  <2> QED
    BY <2>3, <2>4, <2>5
<1>5. CASE Service!Serve
  <2>1. PICK n \in 1..MaxBatch :
          /\ n <= Len(line)
          /\ line' = SubSeq(line, n + 1, Len(line))
          /\ \/ fut' = [r \in Requests |->
                          IF r \in Service!Callers(n) THEN "result" ELSE fut[r]]
             \/ fut' = [r \in Requests |->
                          IF r \in Service!Callers(n) THEN "exception" ELSE fut[r]]
          /\ V' = V
    BY <1>5 DEF Service!Serve
  <2>2. \A r \in Requests : r \in Service!Callers(n) => fut[r] = "pending"
    BY DEF Service!Callers
  <2>3. \A r \in Requests :
          \/ r \notin Service!Callers(n) /\ fut'[r] = fut[r]
          \/ r \in Service!Callers(n) /\ fut'[r] \in {"result", "exception"}
    BY <2>1
  <2>4. n \in 0..MaxBatch
    OBVIOUS
  <2>5. \A r \in Requests :
          \/ fut'[r] = fut[r] /\ ~(fut[r] = "pending" /\ r \in Service!Callers(n))
          \/ fut[r] = "pending" /\ fut'[r] \in {"result", "exception"} /\ r \in Service!Callers(n)
          \/ fut[r] = "pending" /\ fut'[r] = "cancelled"
    BY <2>2, <2>3
  <2> HIDE DEF V
  <2> QED
    BY <1>4, <2>1, <2>4, <2>5
<1>6. CASE Service!GiveUpAll
  <2>1. PICK n \in 0..MaxBatch : n <= Len(line) /\ line' = SubSeq(line, n + 1, Len(line))
    BY <1>6 DEF Service!GiveUpAll
  <2>2. fut' = [r \in Requests |-> IF fut[r] = "pending" THEN "cancelled" ELSE fut[r]]
        /\ V' = V
    BY <1>6 DEF Service!GiveUpAll
  <2>3. ASSUME NEW r \in Requests
        PROVE  \/ fut'[r] = fut[r] /\ fut[r] # "pending"
               \/ fut[r] = "pending" /\ fut'[r] = "cancelled"
    <3>1. fut'[r] = IF fut[r] = "pending" THEN "cancelled" ELSE fut[r]
      BY <2>2, Zenon
    <3> QED
      BY <3>1
  <2> QED
    BY <1>4, <2>1, <2>2, <2>3
<1> QED
  BY <1>1, <1>2, <1>3, <1>5, <1>6 DEF Service!SNext

\* No row is lost between queue and batch and none is computed twice, for every
\* number of callers and every batch size (batcher.py:62-105).
THEOREM RowsExactlyOnce == Spec => []ExactlyOnce
<1>1. Init => ExactlyOnce /\ Unmade
  <2> SUFFICES ASSUME Init PROVE ExactlyOnce /\ Unmade
    OBVIOUS
  <2>1. line = <<>>
    BY DEF Init, line
  <2> QED
    BY <2>1 DEF Init, ExactlyOnce, Unmade
<1>2. TypeOK /\ Unmade /\ ExactlyOnce /\ [Next]_vars => (Unmade /\ ExactlyOnce)'
  <2> SUFFICES ASSUME TypeOK, Unmade, ExactlyOnce, [Next]_vars
               PROVE  Unmade' /\ ExactlyOnce'
    OBVIOUS
  <2>1. Unmade'
    BY UnmadeStep
  <2>2. CASE Service!SNext
    BY <2>1, <2>2, ServiceStepKeepsExactlyOnce
  <2>3. CASE UNCHANGED Service!svars
    <3>1. line' = line /\ fut' = fut
          /\ {r \in Requests : kind'[r] = "empty"} = {r \in Requests : kind[r] = "empty"}
      BY <2>3 DEF Service!svars
    <3>2. \A r \in Requests : kind'[r] # "empty" => kind[r] # "empty"
      BY <3>1
    <3> QED
      BY <2>1, <3>1, <3>2 DEF ExactlyOnce
  <2> QED
    BY <2>2, <2>3, StepRefines
<1> QED
  BY <1>1, <1>2, TypeCorrect, PTL DEF Spec

\* A future is settled at most once: a caller that was cancelled, refused or
\* answered sees the same for ever (batcher.py:85, 89).
THEOREM FuturesSettleOnce == Spec => SettledOnce
<1>1. TypeOK /\ [Next]_vars
        => [\A r \in Requests : fut[r] \in Settled => fut'[r] = fut[r] /\ val'[r] = val[r]]_vars
  <2> SUFFICES ASSUME TypeOK, Next, NEW r \in Requests, fut[r] \in Settled
               PROVE  fut'[r] = fut[r] /\ val'[r] = val[r]
    BY DEF vars
  <2> USE DEF TypeOK, Settled
  <2>1. CASE PredictOk
    BY <2>1, OwnNumber DEF PredictOk, Unsettled
  <2>2. CASE PredictFails \/ TearDown
    BY <2>2 DEF PredictFails, TearDown, Unsettled
  <2>3. ASSUME NEW q \in Requests, Submit(q) \/ Refuse(q) \/ Cancel(q)
        PROVE  fut'[r] = fut[r] /\ val'[r] = val[r]
    BY <2>3 DEF Submit, Refuse, Cancel
  <2>4. CASE WorkerBegins \/ LoopTop \/ GetFirst \/ Fill \/ GetMore \/ Deadline
    BY <2>4 DEF WorkerBegins, LoopTop, GetFirst, Fill, GetMore, Deadline
  <2>5. CASE Start \/ Stop \/ StopReturns
    BY <2>5 DEF Start, Stop, StopReturns
  <2> QED
    BY <2>1, <2>2, <2>3, <2>4, <2>5 DEF Next, Worker, Callers
<1> QED
  BY <1>1, TypeCorrect, PTL DEF Spec, SettledOnce

-----------------------------------------------------------------------------
(* Errors.  An exception has a cause, and a cause stays on record.         *)

Blamed == /\ \A r \in Requests : fut[r] = "none" => kind[r] = "good"
          /\ (\E r \in Requests : fut[r] = "exception")
               => faults # 0 \/ \E q \in Requests : kind[q] = "bad"

\* Only a misshapen row of the batch or the runtime itself makes a batch fail.
LEMMA StepBlamed == TypeOK /\ Blamed /\ [Next]_vars => Blamed'
<1> SUFFICES ASSUME TypeOK, Blamed, [Next]_vars PROVE Blamed'
  OBVIOUS
<1> USE DEF TypeOK, Blamed
<1>1. ASSUME NEW q \in Requests, Submit(q) PROVE Blamed'
  BY <1>1 DEF Submit
<1>2. ASSUME NEW q \in Requests, Refuse(q) \/ Cancel(q) PROVE Blamed'
  BY <1>2 DEF Refuse, Cancel
<1>3. CASE PredictFails
  <2>1. \A r \in Requests : fut'[r] = "none" => fut[r] = "none"
    BY <1>3 DEF PredictFails
  <2>2. faults' # 0 \/ \E q \in Requests : kind[q] = "bad"
    <3>1. CASE faults' = faults + 1
      BY <3>1
    <3>2. ASSUME NEW i \in Real(batch), kind[batch[i]] = "bad"
          PROVE  \E q \in Requests : kind[q] = "bad"
      <4>1. batch[i] \in Requests
        BY <3>2 DEF Real
      <4> QED
        BY <3>2, <4>1
    <3> QED
      BY <1>3, <3>1, <3>2 DEF PredictFails
  <2> QED
    BY <1>3, <2>1, <2>2 DEF PredictFails
<1>4. CASE PredictOk \/ TearDown
  BY <1>4 DEF PredictOk, TearDown
<1>5. CASE WorkerBegins \/ LoopTop \/ GetFirst \/ Fill \/ GetMore \/ Deadline
  BY <1>5 DEF WorkerBegins, LoopTop, GetFirst, Fill, GetMore, Deadline
<1>6. CASE Start \/ Stop \/ StopReturns \/ UNCHANGED vars
  BY <1>6 DEF Start, Stop, StopReturns, vars
<1> QED
  BY <1>1, <1>2, <1>3, <1>4, <1>5, <1>6 DEF Next, Worker, Callers

\* Without a misshapen row or a runtime fault nobody sees an exception, whoever
\* cancelled and whenever the batcher was closed (batcher.py:80-91).
THEOREM ErrorsHaveACause == Spec => []NoSpuriousError
<1>1. Init => Blamed
  BY DEF Init, Blamed
<1>2. Blamed => NoSpuriousError
  BY DEF Blamed, NoSpuriousError
<1> QED
  BY <1>1, <1>2, TypeCorrect, StepBlamed, PTL DEF Spec

-----------------------------------------------------------------------------
(* Order.  The line keeps the order of the log, and a batch is a prefix of *)
(* the line: who is answered leaves nobody behind who came first.          *)

\* Only requests that were accepted are in the log.
Logged == \A r \in Requests : fut[r] \in {"none", "refused"} => \A i \in DOMAIN log : log[i] # r

\* Two rows of the line stand in the order of the log.
Ordered(queued, accepted) ==
  \A k, l \in DOMAIN queued : \A i, j \in DOMAIN accepted :
    k < l /\ accepted[i] = queued[k] /\ accepted[j] = queued[l] => i < j

\* A line that loses a prefix keeps its order.
LEMMA OrderedPrefix ==
  ASSUME NEW S, NEW l \in Seq(S), NEW g, Ordered(l, g), NEW n \in Nat, n <= Len(l)
  PROVE  Ordered(SubSeq(l, n + 1, Len(l)), g)
<1> DEFINE rest == SubSeq(l, n + 1, Len(l))
<1>1. /\ DOMAIN rest = 1..(Len(l) - n)
      /\ \A k \in 1..(Len(l) - n) : rest[k] = l[n + k]
  OBVIOUS
<1>2. \A k \in 1..(Len(l) - n) : n + k \in DOMAIN l
  OBVIOUS
<1> HIDE DEF rest
<1>3. Ordered(rest, g)
  BY <1>1, <1>2 DEF Ordered
<1> QED
  BY <1>3 DEF rest

\* The marker of stop() stands for no request.
LEMMA OrderedMarker ==
  ASSUME NEW l \in Seq(Items), NEW g \in Seq(Requests), Ordered(l, g)
  PROVE  Ordered(Append(l, Sentinel), g)
<1>1. /\ DOMAIN Append(l, Sentinel) = 1..(Len(l) + 1)
      /\ \A k \in 1..Len(l) : Append(l, Sentinel)[k] = l[k]
      /\ Append(l, Sentinel)[Len(l) + 1] = Sentinel
      /\ DOMAIN l = 1..Len(l)
  OBVIOUS
<1>2. \A i \in DOMAIN g : g[i] # Sentinel
  OBVIOUS
<1>3. \A k \in 1..(Len(l) + 1) : k = Len(l) + 1 \/ k \in 1..Len(l)
  OBVIOUS
<1> QED
  BY <1>1, <1>2, <1>3 DEF Ordered

\* A new request is the last of the line and of the log.
LEMMA OrderedAppend ==
  ASSUME NEW l \in Seq(Items), NEW g \in Seq(Requests), Ordered(l, g), NEW r \in Requests,
         \A k \in DOMAIN l : l[k] # r,
         \A i \in DOMAIN g : g[i] # r
  PROVE  Ordered(Append(l, r), Append(g, r))
<1> DEFINE l2 == Append(l, r)
           g2 == Append(g, r)
<1>1. /\ DOMAIN l2 = 1..(Len(l) + 1) /\ DOMAIN l = 1..Len(l) /\ Len(l) \in Nat
      /\ \A k \in 1..Len(l) : l2[k] = l[k]
      /\ l2[Len(l) + 1] = r
  OBVIOUS
<1>2. /\ DOMAIN g2 = 1..(Len(g) + 1) /\ DOMAIN g = 1..Len(g) /\ Len(g) \in Nat
      /\ \A i \in 1..Len(g) : g2[i] = g[i]
      /\ g2[Len(g) + 1] = r
  OBVIOUS
<1> HIDE DEF l2, g2
<1>3. ASSUME NEW k \in DOMAIN l2, NEW m \in DOMAIN l2, NEW i \in DOMAIN g2, NEW j \in DOMAIN g2,
             k < m, g2[i] = l2[k], g2[j] = l2[m]
      PROVE  i < j
  <2>1. k \in 1..Len(l) /\ l2[k] = l[k] /\ l[k] # r
    BY <1>1, <1>3
  <2>2. i \in 1..Len(g) /\ g2[i] = g[i]
    BY <1>2, <1>3, <2>1
  <2>3. CASE m = Len(l) + 1
    <3>1. j = Len(g) + 1
      BY <1>1, <1>2, <1>3, <2>3
    <3> QED
      BY <1>2, <2>2, <3>1
  <2>4. CASE m \in 1..Len(l)
    <3>1. l2[m] = l[m] /\ l[m] # r
      BY <1>1, <2>4
    <3>2. j \in 1..Len(g) /\ g2[j] = g[j]
      BY <1>2, <1>3, <3>1
    <3> QED
      BY <1>1, <1>2, <1>3, <2>1, <2>2, <2>4, <3>1, <3>2 DEF Ordered
  <2> QED
    BY <1>1, <2>3, <2>4
<1>4. Ordered(l2, g2)
  BY <1>3 DEF Ordered
<1> QED
  BY <1>4 DEF l2, g2

\* submit() alone writes the log, and only submit() makes a caller wait.
LEMMA OthersKeepTheLog ==
  ASSUME TypeOK, [Next]_vars, ~\E q \in Requests : Submit(q)
  PROVE  /\ log' = log
         /\ kind' = kind
         /\ \A r \in Requests : fut'[r] = "pending" => fut[r] = "pending"
         /\ \A r \in Requests : fut'[r] \in {"none", "refused"} => fut[r] \in {"none", "refused"}
<1> USE DEF TypeOK
<1>1. CASE PredictOk \/ PredictFails \/ TearDown
  BY <1>1 DEF PredictOk, PredictFails, TearDown
<1>2. ASSUME NEW q \in Requests, Refuse(q) \/ Cancel(q)
      PROVE  /\ log' = log
             /\ kind' = kind
             /\ \A r \in Requests : fut'[r] = "pending" => fut[r] = "pending"
             /\ \A r \in Requests : fut'[r] \in {"none", "refused"}
                                      => fut[r] \in {"none", "refused"}
  BY <1>2 DEF Refuse, Cancel
<1>3. CASE WorkerBegins \/ LoopTop \/ GetFirst \/ Fill \/ GetMore \/ Deadline
  BY <1>3 DEF WorkerBegins, LoopTop, GetFirst, Fill, GetMore, Deadline
<1>4. CASE Start \/ Stop \/ StopReturns \/ UNCHANGED vars
  BY <1>4 DEF Start, Stop, StopReturns, vars
<1> QED
  BY <1>1, <1>2, <1>3, <1>4 DEF Next, Worker, Callers

\* A submission goes to the end of the line and of the log.
LEMMA SubmitKeepsOrder ==
  ASSUME TypeOK, ExactlyOnce, Logged, Ordered(line, log), FirstComeFirstServed,
         NEW q \in Requests, Submit(q)
  PROVE  Logged' /\ Ordered(line', log') /\ FirstComeFirstServed'
<1>1. /\ line \in Seq(Items)
      /\ log \in Seq(Requests)
  BY BatchCallers DEF TypeOK
<1>2. line' = Append(line, q)
  BY AppendLast DEF Submit, TypeOK, line
<1>3. /\ log' = Append(log, q)
      /\ fut' = [fut EXCEPT ![q] = "pending"]
      /\ fut[q] = "none"
      /\ \A r \in Requests : r # q => kind'[r] = kind[r]
  BY DEF Submit, TypeOK
<1>4. (\A k \in DOMAIN line : line[k] # q) /\ \A i \in DOMAIN log : log[i] # q
  BY <1>3 DEF ExactlyOnce, Logged
<1>5. Ordered(line', log')
  BY <1>1, <1>2, <1>3, <1>4, OrderedAppend
<1>6. /\ DOMAIN log' = 1..(Len(log) + 1) /\ DOMAIN log = 1..Len(log) /\ Len(log) \in Nat
      /\ \A i \in 1..Len(log) : log'[i] = log[i] /\ log[i] \in Requests
      /\ log'[Len(log) + 1] = q
  BY <1>1, <1>3
<1>7. \A r \in Requests : fut'[r] = IF r = q THEN "pending" ELSE fut[r]
  BY <1>3 DEF TypeOK
<1>8. Logged'
  BY <1>6, <1>7 DEF Logged
<1>9. FirstComeFirstServed'
  <2> SUFFICES ASSUME NEW j \in DOMAIN log', NEW i \in 1..(j - 1),
                      fut'[log'[j]] \in {"result", "exception"}, kind'[log'[i]] # "empty"
               PROVE  fut'[log'[i]] # "pending"
    BY DEF FirstComeFirstServed
  <2>1. j \in 1..Len(log) /\ i \in 1..Len(log)
    BY <1>6, <1>7
  <2>2. log'[j] = log[j] /\ log'[i] = log[i] /\ log[i] # q /\ log[j] # q
    BY <1>4, <1>6, <2>1
  <2> QED
    BY <1>3, <1>4, <1>6, <1>7, <2>1, <2>2 DEF FirstComeFirstServed
<1> QED
  BY <1>5, <1>8, <1>9

\* Serving a prefix of the line leaves nobody behind who came first.
LEMMA ServeKeepsOrder ==
  ASSUME TypeOK, ExactlyOnce, Ordered(line, log), FirstComeFirstServed,
         log' = log, kind' = kind,
         \A r \in Requests : fut'[r] = "pending" => fut[r] = "pending",
         NEW n \in 1..MaxBatch, n <= Len(line),
         \A r \in Requests : r \in Service!Callers(n) => fut'[r] # "pending",
         \A r \in Requests : r \notin Service!Callers(n) => fut'[r] = fut[r]
  PROVE  FirstComeFirstServed'
<1> SUFFICES ASSUME NEW j \in DOMAIN log, NEW i \in 1..(j - 1),
                    fut'[log[j]] \in {"result", "exception"}, kind[log[i]] # "empty",
                    fut'[log[i]] = "pending"
             PROVE  FALSE
  BY DEF FirstComeFirstServed
<1>1. /\ log \in Seq(Requests)
      /\ line \in Seq(Items)
  BY BatchCallers DEF TypeOK
<1>2. i \in DOMAIN log /\ log[i] \in Requests /\ log[j] \in Requests /\ i < j /\ j \in Nat
  BY <1>1
<1>3. fut[log[i]] = "pending" /\ log[i] \notin Service!Callers(n)
  BY <1>2
<1>4. fut[log[j]] \notin {"result", "exception"}
  BY <1>3 DEF FirstComeFirstServed
<1>5. log[j] \in Service!Callers(n)
  BY <1>2, <1>4
<1>6. PICK k \in 1..n : line[k] = log[j]
  BY <1>5 DEF Service!Callers
<1>7. PICK m \in DOMAIN line : line[m] = log[i]
  BY <1>2, <1>3 DEF ExactlyOnce
<1>8. m \notin 1..n
  BY <1>2, <1>3, <1>7 DEF Service!Callers
<1>9. k < m /\ k \in DOMAIN line
  BY <1>1, <1>7, <1>8
<1>10. j < i
  BY <1>2, <1>6, <1>7, <1>9 DEF Ordered
<1> QED
  BY <1>2, <1>10

\* Every step keeps the order of the line and serves it in that order.
LEMMA StepOrdered ==
  ASSUME TypeOK, Unmade, ExactlyOnce, Logged, Ordered(line, log), FirstComeFirstServed,
         [Next]_vars
  PROVE  Logged' /\ Ordered(line', log') /\ FirstComeFirstServed'
<1>1. CASE \E q \in Requests : Submit(q)
  BY <1>1, SubmitKeepsOrder
<1>2. CASE ~\E q \in Requests : Submit(q)
  <2>1. /\ log' = log
        /\ kind' = kind
        /\ \A r \in Requests : fut'[r] = "pending" => fut[r] = "pending"
        /\ \A r \in Requests : fut'[r] \in {"none", "refused"} => fut[r] \in {"none", "refused"}
    BY <1>2, OthersKeepTheLog
  <2>2. Logged'
    BY <2>1 DEF Logged
  <2>3. line \in Seq(Items) /\ log \in Seq(Requests)
    BY BatchCallers DEF TypeOK
  <2>4. ASSUME \A r \in Requests : fut'[r] \in {"result", "exception"} => fut'[r] = fut[r]
        PROVE  FirstComeFirstServed'
    <3>1. \A i \in DOMAIN log : log[i] \in Requests
      BY <2>3
    <3>2. \A j \in DOMAIN log : \A i \in 1..(j - 1) : i \in DOMAIN log
      BY <2>3
    <3> QED
      BY <2>1, <2>4, <3>1, <3>2 DEF FirstComeFirstServed
  <2>5. CASE UNCHANGED Service!svars
    <3>1. line' = line /\ fut' = fut
      BY <2>5 DEF Service!svars
    <3> QED
      BY <2>1, <2>2, <2>4, <3>1
  <2>6. ASSUME NEW r \in Requests, Service!Accept(r) PROVE FALSE
    BY <2>1, <2>6 DEF Service!Accept, TypeOK
  <2>7. ASSUME NEW r \in Requests, Service!Refuse(r) \/ Service!GiveUp(r)
        PROVE  Logged' /\ Ordered(line', log') /\ FirstComeFirstServed'
    <3>1. line' = line
      BY <2>7 DEF Service!Refuse, Service!GiveUp
    <3>2. \A q \in Requests : fut'[q] \in {"result", "exception"} => fut'[q] = fut[q]
      BY <2>7 DEF Service!Refuse, Service!GiveUp, TypeOK
    <3> QED
      BY <2>1, <2>2, <2>4, <3>1, <3>2
  <2>8. CASE Service!Close
    <3>1. fut' = fut /\ line' \in {line, Append(line, Sentinel)}
      BY <2>8 DEF Service!Close
    <3>2. Ordered(line', log')
      BY <2>1, <2>3, <3>1, OrderedMarker
    <3> QED
      BY <2>2, <2>4, <3>1, <3>2
  <2>9. CASE Service!GiveUpAll
    <3>1. \A q \in Requests : fut'[q] \in {"result", "exception"} => fut'[q] = fut[q]
      BY <2>9 DEF Service!GiveUpAll
    <3>2. PICK n \in 0..MaxBatch : n <= Len(line) /\ line' = SubSeq(line, n + 1, Len(line))
      BY <2>9 DEF Service!GiveUpAll
    <3>3. Ordered(line', log')
      BY <2>1, <2>3, <3>2, OrderedPrefix
    <3> QED
      BY <2>2, <2>4, <3>1, <3>3
  <2>10. CASE Service!Serve
    <3>1. PICK n \in 1..MaxBatch :
            /\ n <= Len(line)
            /\ line' = SubSeq(line, n + 1, Len(line))
            /\ \/ fut' = [r \in Requests |->
                             IF r \in Service!Callers(n) THEN "result" ELSE fut[r]]
               \/ fut' = [r \in Requests |->
                             IF r \in Service!Callers(n) THEN "exception" ELSE fut[r]]
      BY <2>10 DEF Service!Serve
    <3>2. Ordered(line', log')
      BY <2>1, <2>3, <3>1, OrderedPrefix
    <3>3. /\ \A r \in Requests : r \in Service!Callers(n) => fut'[r] # "pending"
          /\ \A r \in Requests : r \notin Service!Callers(n) => fut'[r] = fut[r]
      BY <3>1
    <3>4. FirstComeFirstServed'
      BY <2>1, <3>1, <3>3, ServeKeepsOrder
    <3> QED
      BY <2>2, <3>2, <3>4
  <2> QED
    BY <2>5, <2>6, <2>7, <2>8, <2>9, <2>10, StepRefines DEF Service!SNext
<1> QED
  BY <1>1, <1>2

\* Callers are answered in the order of their submission (batcher.py:93-105).
THEOREM AnsweredInOrder == Spec => []FirstComeFirstServed
<1> DEFINE Inv == Unmade /\ Logged /\ Ordered(line, log) /\ FirstComeFirstServed
<1>1. Init => Inv
  <2> SUFFICES ASSUME Init PROVE Inv
    OBVIOUS
  <2>1. line = <<>> /\ log = <<>>
    BY DEF Init, line
  <2>2. Ordered(line, log)
    BY <2>1 DEF Ordered
  <2> QED
    BY <2>1, <2>2 DEF Init, Unmade, Logged, FirstComeFirstServed
<1>2. TypeOK /\ ExactlyOnce /\ Inv /\ [Next]_vars => Inv'
  <2> SUFFICES ASSUME TypeOK, ExactlyOnce, Inv, [Next]_vars PROVE Inv'
    OBVIOUS
  <2>1. Unmade'
    BY UnmadeStep
  <2>2. Logged' /\ Ordered(line', log') /\ FirstComeFirstServed'
    BY StepOrdered
  <2>3. Ordered(line, log)' <=> Ordered(line', log')
    BY DEF Ordered
  <2> QED
    BY <2>1, <2>2, <2>3
<1>3. Inv => FirstComeFirstServed
  OBVIOUS
<1> HIDE DEF Inv
<1> QED
  BY <1>1, <1>2, <1>3, TypeCorrect, RowsExactlyOnce, PTL DEF Spec
=============================================================================
