----------------------------- MODULE FlowsProofs -----------------------------
(***************************************************************************)
(* Proofs about Flows, for every horizon, period, chunk period, set of     *)
(* spans and number of flows: what the flows leave in the environment of   *)
(* the process, what the result says of a chunk, that the windows of the   *)
(* bench leave no hole, and that success covers the whole period.          *)
(***************************************************************************)
EXTENDS Flows, FiniteSetTheorems, WellFoundedInduction, TLAPS

(* Arithmetic.                                                             *)

\* A set of bounded numbers has a greatest, and Max is it.
LEMMA MaxOf ==
  ASSUME NEW n \in Nat, NEW S, S \subseteq 0 .. n, S # {}
  PROVE  Max(S) \in S
<1> DEFINE T == {n - x : x \in S}
<1>1. T \subseteq Nat /\ T # {}
  <2>1. \A x \in S : n - x \in Nat
    OBVIOUS
  <2> QED
    BY <2>1
<1>2. PICK t \in T : \A u \in T : ~(<<u, t>> \in OpToRel(<, Nat))
  BY <1>1, WFMin, NatLessThanWellFounded
<1>3. PICK x \in S : t = n - x
  OBVIOUS
<1>4. ASSUME NEW y \in S PROVE x >= y
  <2>1. n - y \in T /\ n - y \in Nat /\ t \in Nat
    BY <1>1
  <2>2. CASE n - y < t
    <3>1. <<n - y, t>> \in {p \in Nat \X Nat : p[1] < p[2]}
      BY <2>1, <2>2
    <3> QED
      BY <1>2, <2>1, <3>1 DEF OpToRel
  <2>3. x \in Nat /\ y \in Nat
    OBVIOUS
  <2> QED
    BY <1>3, <2>1, <2>2, <2>3
<1> QED
  BY <1>4 DEF Max

\* A period that is not empty has a chunk.
LEMMA ChunksAreSlices ==
  ASSUME NEW s \in Nat, NEW e \in Nat, s < e, NEW period \in Nat \ {0}
  PROVE  Chunks(s, e, period) \in Seq(Slices) /\ Chunks(s, e, period) # <<>>
<1> DEFINE n == (e - s + period - 1) \div period
<1>1. n \in Nat /\ n >= 1
  OBVIOUS
<1>2. ASSUME NEW i \in 1 .. n
      PROVE  <<s + (i - 1) * period, Smaller(s + i * period, e)>> \in Slices
  <2>1. (i - 1) * period \in Nat /\ i * period \in Nat
    BY <1>1
  <2> QED
    BY <2>1 DEF Slices, Smaller
<1>3. Chunks(s, e, period) \in [1 .. n -> Slices]
  BY <1>2 DEF Chunks
<1>4. Chunks(s, e, period) \in Seq(Slices) /\ Len(Chunks(s, e, period)) = n
  BY <1>1, <1>3
<1> QED
  BY <1>1, <1>4

\* Slices follow each other when each begins where the one before ends ...
Follow(c) == \A i \in 1 .. (Len(c) - 1) : c[i][2] = c[i + 1][1]

\* ... and cover from s to e when they do so from the one to the other.
Cover(c, s, e) == c[1][1] = s /\ c[Len(c)][2] = e /\ Follow(c)

\* Chunks cover the period.
LEMMA ChunksCover ==
  ASSUME NEW s \in Nat, NEW e \in Nat, s < e, NEW period \in Nat \ {0}
  PROVE  Cover(Chunks(s, e, period), s, e)
<1> DEFINE c == Chunks(s, e, period)
           n == (e - s + period - 1) \div period
<1>1. n \in Nat /\ n >= 1
  OBVIOUS
<1>2. (n - 1) * period <= e - s - 1 /\ n * period >= e - s
  OBVIOUS
<1>3. /\ Len(c) = n
      /\ \A i \in 1 .. n : c[i] = <<s + (i - 1) * period, Smaller(s + i * period, e)>>
  BY <1>1 DEF Chunks
<1> HIDE DEF n, c
<1>4. c[1][1] = s
  BY <1>1, <1>3
<1>5. c[n][2] = e
  <2>1. n * period \in Nat
    BY <1>1
  <2> QED
    BY <1>1, <1>2, <1>3, <2>1 DEF Smaller
<1>6. ASSUME NEW i \in 1 .. (n - 1) PROVE c[i][2] = c[i + 1][1]
  <2>1. i * period <= (n - 1) * period /\ i * period \in Nat /\ (n - 1) * period \in Nat
    BY <1>1
  <2>2. (i + 1) - 1 = i /\ i \in 1 .. n /\ i + 1 \in 1 .. n
    BY <1>1
  <2>3. c[i][2] = Smaller(s + i * period, e) /\ c[i + 1][1] = s + i * period
    BY <1>3, <2>2
  <2> QED
    BY <1>2, <2>1, <2>3 DEF Smaller
<1> QED
  BY <1>3, <1>4, <1>5, <1>6 DEF Cover, Follow, c

\* A window is its only chunk.
LEMMA WindowIsOneChunk ==
  ASSUME NEW s \in Nat, NEW e \in Nat, s < e
  PROVE  Chunks(s, e, e - s) = <<<<s, e>>>>
<1>1. (e - s + (e - s) - 1) \div (e - s) = 1
  OBVIOUS
<1>2. Chunks(s, e, e - s) = [i \in 1 .. 1 |-> <<s, e>>]
  <2>1. \A i \in 1 .. 1 : s + (i - 1) * (e - s) = s /\ Smaller(s + i * (e - s), e) = e
    BY DEF Smaller
  <2> QED
    BY <1>1, <2>1 DEF Chunks
<1> QED
  BY <1>2

\* One overlay less.
LEMMA RestoreOne ==
  ASSUME NEW a, saved = <<a>>, Restore
  PROVE  env' = a /\ saved' = <<>>
BY DEF Restore

LEMMA RestoreTwo ==
  ASSUME NEW a, NEW b, saved = <<a, b>>, Restore
  PROVE  env' = b /\ saved' = <<a>>
<1>1. Len(saved) = 2 /\ saved[2] = b /\ saved[1] = a
  OBVIOUS
<1>2. SubSeq(saved, 1, 1) = [i \in 1 .. 1 |-> a]
  BY <1>1
<1>3. [i \in 1 .. 1 |-> a] = <<a>>
  OBVIOUS
<1>4. saved' = SubSeq(saved, 1, 1) /\ env' = saved[2]
  BY <1>1 DEF Restore
<1> QED
  BY <1>1, <1>2, <1>3, <1>4

-----------------------------------------------------------------------------
(* Types.                                                                  *)

Scored == {"evaluate", "promote", "finish", "tag_start", "tag_end"}

\* Which flow comes where; only a simulation has a VM.  A chunk is handled while one is
\* left and promoted when it was scored; the bench has a run for it and a window within
\* the year.
Ready ==
  /\ pc \in {"train", "poll", "promote"} => kind # "retrain"
  /\ pc \in {"tag_start", "tag_end"} => kind = "nightly"
  /\ pc = "prepare" => kind = "retrain"
  /\ vm => kind = "simulate"
  /\ pc = "fit" => ~vm
  /\ pc = "poll" => vm
  /\ pc = "evaluate" /\ kind # "retrain" => todo # <<>>
  /\ pc = "promote" => model # None /\ seen # None
  /\ kind = "nightly" /\ pc \in {"train", "fit"} \cup Scored =>
       window[1] < window[2] /\ window[2] <= Horizon
  /\ kind = "nightly" /\ pc \in Scored => run \in 1 .. Len(runs)
  /\ \A r \in 1 .. Len(runs) : runs[r].upto \in (0 .. Horizon) \cup {None}

\* The constants, without the assumption's shape.
LEMMA Constants ==
  /\ Horizon \in Nat /\ Horizon > 0 /\ Period \in Nat /\ Period > 0
  /\ ChunkPeriod \in Nat \ {0} /\ Listed \in Nat /\ MaxFlows \in Nat
  /\ Spans \subseteq Slices /\ \A s \in Spans : s[1] \in Nat /\ s[2] \in Nat /\ s[1] < s[2]
  /\ Reference \in Slices /\ <<0, 0>> \in Slices
BY FlowsAssumption DEF Slices, Reference

LEMMA NoneApart == None \notin Slices /\ None \notin Nat /\ None # Local /\ Local \notin Slices
BY FlowsAssumption DEF Slices

\* The cursor is an end that a run carries.
LEMMA CursorIsAnEnd ==
  ASSUME TypeOK, Ready, Cursor # None
  PROVE  Cursor \in 0 .. Horizon /\ \E r \in 1 .. Len(runs) : runs[r].upto = Cursor
<1> DEFINE mine == {r \in 1..Len(runs) : visible \/ runs[r].name = None}
           latest == {r \in mine : Cardinality({q \in mine : q > r}) < Listed}
           ends == {runs[r].upto : r \in latest} \ {None}
<1>1. ends # {} /\ Cursor = Max(ends)
  BY DEF Cursor
<1>2. latest \subseteq 1 .. Len(runs)
  OBVIOUS
<1>3. ends \subseteq 0 .. Horizon
  BY <1>2 DEF Ready
<1> HIDE DEF ends
<1>4. Max(ends) \in ends
  BY <1>1, <1>3, MaxOf, Constants
<1> QED
  BY <1>1, <1>2, <1>3, <1>4 DEF ends

\* The next window is one, inside the year.
LEMMA WindowFits ==
  ASSUME TypeOK, Ready, NEW w, w = NextWindow(Cursor)
  PROVE  /\ w \in Slices /\ w[1] \in Nat /\ w[2] \in Nat /\ w = <<w[1], w[2]>>
         /\ w[1] < w[2] /\ w[2] <= Horizon
         /\ w[1] = 0 \/ \E r \in 1 .. Len(runs) : runs[r].upto = w[1]
<1>1. CASE Cursor = None \/ Cursor >= Horizon
  <2>1. w = <<0, Smaller(Period, Horizon)>>
    BY <1>1, Constants DEF NextWindow
  <2> QED
    BY <2>1, Constants DEF Smaller, Slices
<1>2. CASE Cursor # None /\ ~(Cursor >= Horizon)
  <2>1. Cursor \in 0 .. Horizon /\ \E r \in 1 .. Len(runs) : runs[r].upto = Cursor
    BY <1>2, CursorIsAnEnd
  <2>2. w = <<Cursor, Smaller(Cursor + Period, Horizon)>>
    BY <1>2 DEF NextWindow
  <2> HIDE DEF Cursor
  <2> QED
    BY <1>2, <2>1, <2>2, Constants DEF Smaller, Slices
<1> QED
  BY <1>1, <1>2

-----------------------------------------------------------------------------
(* Overlays.                                                               *)

\* The bench has an overlay of its own around the one of a chunk, a simulation only that,
\* a retraining none; outside all of them the environment is the outer one.
Nested ==
  /\ saved \in {<<>>, <<outer>>, <<outer, Reference>>}
  /\ saved = <<>> => env = outer
  /\ pc \in Over \cup {"idle", "prepare", "tag_start", "tag_end"} => saved = <<>>
  /\ pc \in {"train", "evaluate", "promote", "finish"} =>
       IF kind = "nightly" THEN saved = <<outer>> /\ env = Reference ELSE saved = <<>>
  /\ pc \in {"fit", "poll"} =>
       saved = CASE kind = "nightly" -> <<outer, Reference>>
                 [] kind = "simulate" -> <<outer>>
                 [] kind = "retrain" -> <<>>

\* Leaving an overlay leaves one of the shapes.
LEMMA RestoreNested ==
  ASSUME Nested, saved # <<>>, Restore
  PROVE  \/ saved = <<outer>> /\ saved' = <<>> /\ env' = outer
         \/ saved = <<outer, Reference>> /\ saved' = <<outer>> /\ env' = Reference
<1>1. CASE saved = <<outer>>
  BY <1>1, RestoreOne
<1>2. CASE saved = <<outer, Reference>>
  BY <1>2, RestoreTwo
<1> QED
  BY <1>1, <1>2 DEF Nested

\* What is put on top of a shape.
LEMMA AppendNested ==
  /\ Append(<<>>, outer) = <<outer>> /\ Append(<<outer>>, Reference) = <<outer, Reference>>
  /\ <<outer>> # <<>> /\ <<outer, Reference>> # <<>> /\ <<outer, Reference>> # <<outer>>
<1>1. Append(<<outer>>, Reference) = [i \in 1 .. 2 |-> IF i = 2 THEN Reference ELSE <<outer>>[i]]
  OBVIOUS
<1>2. [i \in 1 .. 2 |-> IF i = 2 THEN Reference ELSE <<outer>>[i]] = <<outer, Reference>>
  OBVIOUS
<1>3. Append(<<>>, outer) = <<outer>>
  OBVIOUS
<1>4. /\ Len(<<>>) = 0 /\ Len(<<outer>>) = 1 /\ Len(<<outer, Reference>>) = 2
      /\ 0 # 1 /\ 0 # 2 /\ 1 # 2
  OBVIOUS
<1>5. <<outer>> # <<>> /\ <<outer, Reference>> # <<>> /\ <<outer, Reference>> # <<outer>>
  BY Zenon, <1>4
<1> QED
  BY <1>1, <1>2, <1>3, <1>5

\* Every action keeps the overlays as they are nested.
LEMMA StepNested == TypeOK /\ Ready /\ Nested /\ [Next]_vars => Nested'
<1> SUFFICES ASSUME TypeOK, Ready, Nested, [Next]_vars PROVE Nested'
  OBVIOUS
<1>0. kind \in Kinds
  BY DEF TypeOK
<1> USE AppendNested DEF Nested, Busy, Over, mlflow, environ, request, result
<1>1. CASE NightlyIdle
  BY <1>1 DEF NightlyIdle, Begin
<1>2. CASE BeginNightly
  <2>1. /\ pc' = "train" /\ kind' = "nightly" /\ env' = Reference /\ outer' = outer
        /\ saved = <<>> /\ env = outer /\ saved' = Append(saved, env)
    BY <1>2 DEF BeginNightly, Begin, Overlay
  <2> QED
    BY <2>1 DEF Reference
<1>3. CASE BeginSimulate
  <2>1. /\ pc' = "train" /\ kind' = "simulate" /\ UNCHANGED <<env, saved, outer>>
        /\ saved = <<>> /\ env = outer
    BY <1>3 DEF BeginSimulate, Begin
  <2> QED
    BY <2>1 DEF Reference
<1>4. CASE BeginRetrain
  <2>1. /\ pc' = "prepare" /\ UNCHANGED <<env, saved, outer>> /\ saved = <<>> /\ env = outer
    BY <1>4 DEF BeginRetrain, Begin
  <2> QED
    BY <2>1 DEF Reference
<1>5. CASE \/ VmStarts \/ VmEnds \/ UNCHANGED vars
  <2>1. UNCHANGED <<pc, kind, saved, env, outer>>
    BY <1>5 DEF VmStarts, VmEnds, vars
  <2> QED
    BY <2>1 DEF Reference
<1>6. CASE Prepare
  <2>1. /\ pc' \in {"fit", "raising"} /\ UNCHANGED <<kind, saved, env, outer>>
        /\ saved = <<>> /\ env = outer /\ kind = "retrain"
    BY <1>6 DEF Prepare, Raise, Ready
  <2> QED
    BY <2>1 DEF Reference
<1>7. CASE EnterTrain
  <2>1. /\ pc = "train" /\ pc' \in {"fit", "poll", "raising"} /\ UNCHANGED <<kind, outer>>
        /\ kind \in {"nightly", "simulate"} /\ saved' = Append(saved, env)
    BY <1>0, <1>7 DEF EnterTrain, Raise, Overlay, Ready, Kinds
  <2>2. CASE kind = "nightly"
    <3>1. saved' = <<outer, Reference>>
      BY <2>1, <2>2
    <3> QED
      BY <2>1, <2>2, <3>1 DEF Reference
  <2>3. CASE kind = "simulate"
    <3>1. saved' = <<outer>>
      BY <2>1, <2>3
    <3> QED
      BY <2>1, <2>3, <3>1 DEF Reference
  <2> QED
    BY <2>1, <2>2, <2>3
<1>8. CASE Fit \/ Poll
  <2>1. pc \in {"fit", "poll"} /\ UNCHANGED <<kind, outer>>
    BY <1>8 DEF Fit, Poll, Step
  <2>2. CASE pc' = "raising" /\ UNCHANGED <<saved, env>>
    BY <2>1, <2>2 DEF Reference
  <2>3. CASE pc' = "evaluate" /\ kind = "retrain" /\ UNCHANGED <<saved, env>>
    BY <2>1, <2>3 DEF Reference
  <2>4. CASE pc' = "evaluate" /\ kind # "retrain" /\ Restore
    <3>1. \/ kind = "nightly" /\ saved = <<outer, Reference>>
          \/ kind = "simulate" /\ saved = <<outer>>
      <4>1. CASE kind = "nightly"
        BY <2>1, <4>1
      <4>2. CASE kind = "simulate"
        BY <2>1, <4>2
      <4> QED
        BY <1>0, <2>4, <4>1, <4>2 DEF Kinds
    <3>2. \/ kind = "nightly" /\ saved' = <<outer>> /\ env' = Reference
          \/ kind = "simulate" /\ saved' = <<>> /\ env' = outer
      BY <2>4, <3>1, RestoreNested
    <3> QED
      BY <2>1, <2>4, <3>2 DEF Reference
  <2> QED
    BY <1>8, <2>1, <2>2, <2>3, <2>4 DEF Fit, Poll, Step, Raise, Ready
<1>9. CASE PollTimesOut
  <2>1. pc' = "raising" /\ UNCHANGED <<kind, saved, env, outer>>
    BY <1>9 DEF PollTimesOut, Raise
  <2> QED
    BY <2>1 DEF Reference
<1>10. CASE Evaluate \/ Promote
  <2>1. /\ pc \in {"evaluate", "promote"} /\ UNCHANGED <<kind, saved, env, outer>>
        /\ pc' \in {"promote", "finish", "train", "raising"}
    BY <1>10 DEF Evaluate, Promote, Raise
  <2> QED
    BY <2>1 DEF Reference
<1>11. CASE Finish
  <2>1. pc = "finish" /\ UNCHANGED <<kind, outer>>
    BY <1>11 DEF Finish, Step
  <2>2. CASE kind = "nightly"
    <3>1. pc' = "tag_start" /\ saved = <<outer>> /\ Restore
      BY <1>11, <2>1, <2>2 DEF Finish, Step
    <3>2. saved' = <<>> /\ env' = outer
      BY <3>1, RestoreNested
    <3> QED
      BY <2>1, <3>1, <3>2 DEF Reference
  <2>3. CASE kind # "nightly"
    <3>1. pc' = "returned" /\ saved = <<>> /\ UNCHANGED <<saved, env>>
      BY <1>11, <2>1, <2>3 DEF Finish, Step
    <3> QED
      BY <2>1, <3>1 DEF Reference
  <2> QED
    BY <2>2, <2>3
<1>12. CASE TagStart \/ TagEnd
  <2>1. /\ pc \in {"tag_start", "tag_end"} /\ UNCHANGED <<kind, saved, env, outer>>
        /\ pc' \in {"tag_end", "returned", "raising"}
    BY <1>12 DEF TagStart, TagEnd, Raise
  <2> QED
    BY <2>1 DEF Reference
<1>13. CASE Unwind
  <2>1. pc = "raising" /\ UNCHANGED <<kind, outer>>
    BY <1>13 DEF Unwind
  <2>2. CASE saved # <<>> /\ Restore /\ pc' = pc
    <3>1. \/ saved' = <<>> /\ env' = outer
          \/ saved' = <<outer>>
      BY <2>2, RestoreNested
    <3> QED
      BY <2>1, <2>2, <3>1 DEF Reference
  <2>3. CASE saved = <<>> /\ pc' = "raised" /\ UNCHANGED <<saved, env>>
    BY <2>1, <2>3 DEF Reference
  <2> QED
    BY <1>13, <2>2, <2>3 DEF Unwind
<1>14. CASE Crash
  <2>1. pc' = "crashed" /\ saved' = <<>> /\ env' = outer /\ UNCHANGED <<kind, outer>>
    BY <1>14 DEF Crash
  <2> QED
    BY <2>1 DEF Reference
<1> QED
  BY <1>1, <1>2, <1>3, <1>4, <1>5, <1>6, <1>7, <1>8, <1>9, <1>10, <1>11, <1>12, <1>13, <1>14
     DEF Next, GoOn

-----------------------------------------------------------------------------
(* The types, step by step.                                                *)

\* What an overlay saved is a selection.
LEMMA RestoreTyped ==
  ASSUME TypeOK, Nested, saved # <<>>, Restore
  PROVE  env' \in Slices \cup {Local} /\ saved' \in Seq(Slices \cup {Local})
<1>1. outer \in Slices \cup {Local}
  BY DEF TypeOK
<1>2. <<outer>> \in Seq(Slices \cup {Local}) /\ <<>> \in Seq(Slices \cup {Local})
  BY <1>1
<1> QED
  BY <1>1, <1>2, RestoreNested, Constants

\* One run more.
LEMMA RunsGrow ==
  ASSUME TypeOK, NEW x \in Runs
  PROVE  /\ Append(runs, x) \in Seq(Runs) /\ Len(Append(runs, x)) = Len(runs) + 1
         /\ \A r \in 1 .. Len(runs) : Append(runs, x)[r] = runs[r]
         /\ Append(runs, x)[Len(runs) + 1] = x
         /\ Len(runs) \in Nat
BY DEF TypeOK

\* One of the runs changed.
LEMMA RunsChange ==
  ASSUME TypeOK, NEW r \in 1 .. Len(runs), NEW x \in Runs, runs' = [runs EXCEPT ![r] = x]
  PROVE  /\ runs' \in Seq(Runs) /\ Len(runs') = Len(runs)
         /\ runs'[r] = x
         /\ \A q \in 1 .. Len(runs) : q # r => runs'[q] = runs[q]
BY DEF TypeOK

\* A reference to a run stays one while runs are added.
LEMMA RunsTyped ==
  ASSUME TypeOK, runs' \in Seq(Runs), Len(runs') >= Len(runs)
  PROVE  /\ run \in (1 .. Len(runs')) \cup {None}
         /\ done \in Seq([slice : Slices, run : 1 .. Len(runs'), model : Slices \cup {Local},
                          on : Slices \cup {Local}, promoted : BOOLEAN])
<1> DEFINE Entries(n) == [slice : Slices, run : 1 .. n, model : Slices \cup {Local},
                          on : Slices \cup {Local}, promoted : BOOLEAN]
<1>1. Len(runs) \in Nat /\ Len(runs') \in Nat /\ 1 .. Len(runs) \subseteq 1 .. Len(runs')
  BY DEF TypeOK
<1>2. Entries(Len(runs)) \subseteq Entries(Len(runs'))
  BY <1>1
<1>3. done \in Seq(Entries(Len(runs))) /\ run \in (1 .. Len(runs)) \cup {None}
  BY DEF TypeOK
<1> HIDE DEF Entries
<1>4. done \in Seq(Entries(Len(runs')))
  BY <1>2, <1>3
<1> QED
  BY <1>1, <1>3, <1>4 DEF Entries

\* What every beginning leaves alone or empties.
LEMMA BeginTyped ==
  ASSUME TypeOK, NEW k \in Kinds, Begin(k)
  PROVE  /\ runs' \in Seq(Runs) /\ jobs' \subseteq Nat \X Slices /\ visible' \in BOOLEAN
         /\ outer' \in Slices \cup {Local} /\ kind' \in Kinds
         /\ run' \in (1 .. Len(runs')) \cup {None}
         /\ model' \in Slices \cup {Local, None} /\ seen' \in Slices \cup {Local, None}
         /\ done' \in Seq([slice : Slices, run : 1 .. Len(runs'), model : Slices \cup {Local},
                           on : Slices \cup {Local}, promoted : BOOLEAN])
         /\ promotions' \in Nat /\ champion' \in Nat \cup {None} /\ flows' \in 0 .. MaxFlows
         /\ runs' = runs
<1> USE DEF TypeOK, Begin, mlflow
<1>1. run' = None /\ model' = None /\ seen' = None /\ done' = <<>> /\ promotions' = 0
  OBVIOUS
<1>2. done' \in Seq([slice : Slices, run : 1 .. Len(runs'), model : Slices \cup {Local},
                    on : Slices \cup {Local}, promoted : BOOLEAN])
  BY <1>1
<1>3. champion' = None /\ kind' = k /\ UNCHANGED <<runs, jobs, visible, outer>>
  OBVIOUS
<1>4. flows' \in 0 .. MaxFlows
  BY Constants
<1> QED
  BY <1>1, <1>2, <1>3, <1>4

\* No action leaves the types.
LEMMA StepTyped == TypeOK /\ Ready /\ Nested /\ [Next]_vars => (TypeOK /\ Ready)'
<1> SUFFICES ASSUME TypeOK, Ready, Nested, [Next]_vars PROVE (TypeOK /\ Ready)'
  OBVIOUS
<1>0. runs \in Seq(Runs) /\ Len(runs) \in Nat /\ \A r \in 1 .. Len(runs) : runs[r] \in Runs
  BY DEF TypeOK
<1> USE Constants, NoneApart
        DEF TypeOK, Ready, Kinds, Busy, Over, Scored, mlflow, environ, request, result
<1>1. CASE NightlyIdle
  <2>1. Begin("nightly") /\ UNCHANGED <<env, saved>>
    BY <1>1 DEF NightlyIdle
  <2>2. /\ window' \in Slices /\ todo' \in Seq(Slices) /\ pc' \in {"returned", "raised"}
        /\ vm' = FALSE /\ said' = "nothing"
    BY <1>1 DEF NightlyIdle
  <2>3. kind' = "nightly"
    BY <2>1 DEF Begin
  <2>4. TypeOK'
    BY <2>1, <2>2, <2>3, BeginTyped
  <2>5. Ready'
    BY <2>1, <2>2, <2>3, BeginTyped
  <2> QED
    BY <2>4, <2>5
<1>2. CASE BeginNightly
  <2> DEFINE w == NextWindow(Cursor)
  <2>1. /\ w \in Slices /\ w[1] \in Nat /\ w[2] \in Nat /\ w[1] < w[2] /\ w[2] <= Horizon
    BY WindowFits
  <2>2. Chunks(w[1], w[2], w[2] - w[1]) \in Seq(Slices) \ {<<>>}
    <3>1. w[2] - w[1] \in Nat \ {0}
      BY <2>1
    <3> HIDE DEF w
    <3> QED
      BY <2>1, <3>1, ChunksAreSlices
  <2> HIDE DEF w
  <2>3. /\ window' = w /\ todo' \in Seq(Slices) /\ todo' # <<>> /\ pc' = "train"
        /\ kind' = "nightly" /\ vm' = FALSE /\ said' = "running"
    BY <1>2, <2>2 DEF BeginNightly, Begin, w
  <2>4. env' \in Slices \cup {Local} /\ saved' \in Seq(Slices \cup {Local})
    BY <1>2 DEF BeginNightly, Overlay
  <2>5. Begin("nightly")
    BY <1>2 DEF BeginNightly
  <2>6. TypeOK'
    BY <2>1, <2>3, <2>4, <2>5, BeginTyped
  <2>7. Ready'
    BY <2>1, <2>3, <2>5, BeginTyped
  <2> QED
    BY <2>6, <2>7
<1>3. CASE BeginSimulate
  <2>1. window' \in Slices /\ todo' \in Seq(Slices) \ {<<>>}
    BY <1>3, ChunksAreSlices DEF BeginSimulate
  <2> QED
    BY <1>3, <2>1 DEF BeginSimulate, Begin
<1>4. CASE BeginRetrain
  <2>1. Begin("retrain") /\ UNCHANGED <<env, saved>>
    BY <1>4 DEF BeginRetrain
  <2>2. /\ window' \in Slices /\ todo' \in Seq(Slices) /\ pc' = "prepare"
        /\ vm' = FALSE /\ said' = "running"
    BY <1>4 DEF BeginRetrain
  <2>3. kind' = "retrain"
    BY <2>1 DEF Begin
  <2>4. TypeOK'
    BY <2>1, <2>2, <2>3, BeginTyped
  <2>5. Ready'
    BY <2>1, <2>2, <2>3, BeginTyped
  <2> QED
    BY <2>4, <2>5
<1>5. CASE VmStarts
  <2>1. PICK j \in jobs :
          /\ runs' = Append(runs, [name |-> j[1], status |-> "RUNNING", slice |-> j[2],
                                   upto |-> None])
          /\ jobs' = jobs \ {j}
    BY <1>5 DEF VmStarts
  <2> DEFINE x == [name |-> j[1], status |-> "RUNNING", slice |-> j[2], upto |-> None]
  <2>2. x \in Runs /\ x.upto = None
    BY DEF Runs
  <2> HIDE DEF x
  <2>3. /\ runs' \in Seq(Runs) /\ Len(runs') = Len(runs) + 1
        /\ \A r \in 1 .. Len(runs') : runs'[r].upto \in (0 .. Horizon) \cup {None}
    BY <1>0, <2>1, <2>2, RunsGrow DEF x
  <2>4. /\ jobs' \subseteq Nat \X Slices
        /\ UNCHANGED <<visible, environ, pc, request, todo, run, model, seen, result, said, flows>>
    BY <1>5, <2>1 DEF VmStarts
  <2>5. TypeOK'
    BY <1>0, <2>3, <2>4, RunsTyped
  <2>6. Ready'
    BY <1>0, <2>3, <2>4
  <2> QED
    BY <2>5, <2>6
<1>6. CASE VmEnds
  <2>1. PICK r \in 1 .. Len(runs), status \in {"FINISHED", "FAILED"} :
          runs' = [runs EXCEPT ![r].status = status]
    BY <1>6 DEF VmEnds
  <2> DEFINE x == [runs[r] EXCEPT !.status = status]
  <2>2. x \in Runs /\ x.upto = runs[r].upto /\ runs' = [runs EXCEPT ![r] = x]
    BY <1>0, <2>1 DEF Runs
  <2> HIDE DEF x
  <2>3. /\ runs' \in Seq(Runs) /\ Len(runs') = Len(runs)
        /\ \A q \in 1 .. Len(runs) : runs'[q].upto = runs[q].upto
    BY <2>2, RunsChange
  <2> QED
    BY <1>0, <1>6, <2>3 DEF VmEnds
<1>7. CASE Prepare
  BY <1>7 DEF Prepare, Raise
<1>8. CASE EnterTrain
  BY <1>8 DEF EnterTrain, Raise, Overlay, Name
<1>9. CASE Fit
  <2> DEFINE x(status) == [name |-> None, status |-> status, slice |-> env, upto |-> None]
  <2>1. \A s \in {"FINISHED", "FAILED"} : x(s) \in Runs /\ x(s).upto = None
    BY DEF Runs
  <2>2. /\ pc = "fit" /\ pc' \in {"evaluate", "raising"}
        /\ UNCHANGED <<jobs, visible, outer, request, todo, seen, result, said, flows>>
        /\ model' \in {model, env} /\ (pc' = "evaluate" => model' = env)
    BY <1>9 DEF Fit, Raise
  <2>3. \/ runs' = runs /\ run' \in {run, None} /\ (pc' = "evaluate" => kind # "nightly")
        \/ /\ \E status \in {"FINISHED", "FAILED"} : runs' = Append(runs, x(status))
           /\ run' = Len(runs') \/ (run' = run /\ pc' = "raising")
    BY <1>9 DEF Fit, Raise
  <2>4. env' \in Slices \cup {Local} /\ saved' \in Seq(Slices \cup {Local})
    BY <1>9, RestoreTyped, AppendNested DEF Fit, Nested
  <2> HIDE DEF x
  <2>5. /\ runs' \in Seq(Runs) /\ Len(runs') >= Len(runs)
        /\ \A r \in 1 .. Len(runs') : runs'[r].upto \in (0 .. Horizon) \cup {None}
        /\ run' \in (1 .. Len(runs')) \cup {None}
        /\ kind = "nightly" /\ pc' = "evaluate" => run' \in 1 .. Len(runs')
    <3>1. CASE runs' = runs
      BY <1>0, <2>3, <3>1
    <3>2. ASSUME NEW status \in {"FINISHED", "FAILED"}, runs' = Append(runs, x(status))
          PROVE  /\ runs' \in Seq(Runs) /\ Len(runs') = Len(runs) + 1
                 /\ \A r \in 1 .. Len(runs') : runs'[r].upto \in (0 .. Horizon) \cup {None}
      <4>1. x(status) \in Runs /\ x(status).upto = None
        BY <2>1
      <4> QED
        BY <1>0, <3>2, <4>1, RunsGrow
    <3> QED
      BY <1>0, <2>3, <3>1, <3>2
  <2>6. TypeOK'
    BY <2>2, <2>4, <2>5, RunsTyped
  <2>7. Ready'
    BY <2>2, <2>5
  <2> QED
    BY <2>6, <2>7
<1>10. CASE Poll
  <2> DEFINE named == {r \in 1 .. Len(runs) : runs[r].name = Name}
  <2>1. named # {} /\ run' = Max(named)
    BY <1>10 DEF Poll
  <2>2. run' \in 1 .. Len(runs)
    <3>1. named \subseteq 1 .. Len(runs) /\ named \subseteq 0 .. Len(runs)
      BY <1>0
    <3> HIDE DEF named
    <3> QED
      BY <1>0, <2>1, <3>1, MaxOf
  <2>3. env' \in Slices \cup {Local} /\ saved' \in Seq(Slices \cup {Local})
    BY <1>10, RestoreTyped, AppendNested DEF Poll, Step, Nested
  <2>4. /\ pc = "poll" /\ pc' = "evaluate"
        /\ UNCHANGED <<mlflow, outer, request, todo, model, seen, result, said, flows>>
    BY <1>10 DEF Poll, Step
  <2> HIDE DEF named
  <2>5. TypeOK'
    BY <2>2, <2>3, <2>4
  <2>6. Ready'
    BY <2>2, <2>4
  <2> QED
    BY <2>5, <2>6
<1>11. CASE PollTimesOut
  BY <1>11 DEF PollTimesOut, Raise
<1>12. CASE Evaluate
  BY <1>12 DEF Evaluate, Raise
<1>13. CASE Promote
  <2>1. /\ pc = "promote"
        /\ UNCHANGED <<mlflow, environ, request, run, model, seen, said, flows>>
    BY <1>13 DEF Promote
  <2>2. ASSUME NEW promoted \in BOOLEAN, run # None,
               done' = Append(done, [slice |-> Head(todo), run |-> run, model |-> model,
                                     on |-> seen, promoted |-> promoted])
        PROVE  done' \in Seq([slice : Slices, run : 1 .. Len(runs), model : Slices \cup {Local},
                              on : Slices \cup {Local}, promoted : BOOLEAN])
    <3>1. [slice |-> Head(todo), run |-> run, model |-> model, on |-> seen, promoted |-> promoted]
            \in [slice : Slices, run : 1 .. Len(runs), model : Slices \cup {Local},
                 on : Slices \cup {Local}, promoted : BOOLEAN]
      BY <2>1, <2>2
    <3> QED
      BY <2>2, <3>1
  <2>3. CASE pc' = "raising" /\ UNCHANGED <<result, todo>>
    BY <2>1, <2>3
  <2>4. CASE /\ run # None /\ pc' = (IF Len(todo) = 1 THEN "finish" ELSE "train")
             /\ todo' = Tail(todo)
             /\ promotions' \in {promotions, promotions + 1} /\ champion' \in {champion, run}
             /\ done' \in Seq([slice : Slices, run : 1 .. Len(runs), model : Slices \cup {Local},
                               on : Slices \cup {Local}, promoted : BOOLEAN])
    <3>1. todo' \in Seq(Slices) /\ (pc' = "train" => todo' # <<>>)
      <4>1. todo \in Seq(Slices) /\ todo # <<>> /\ todo' = Tail(todo)
        BY <2>1, <2>4
      <4>2. todo' \in Seq(Slices) /\ Len(todo') = Len(todo) - 1 /\ Len(todo) \in Nat
        BY <4>1
      <4>3. Len(todo) # 1 => Len(todo') # 0
        BY <4>2
      <4> QED
        BY <2>4, <4>2, <4>3
    <3>2. promotions' \in Nat /\ champion' \in Nat \cup {None}
      BY <1>0, <2>1, <2>4
    <3>3. TypeOK'
      BY <2>1, <2>4, <3>1, <3>2
    <3>4. Ready'
      BY <2>1, <2>4
    <3> QED
      BY <3>3, <3>4
  <2> QED
    BY <1>13, <2>2, <2>3, <2>4 DEF Promote, Raise
<1>14. CASE Finish
  <2>1. env' \in Slices \cup {Local} /\ saved' \in Seq(Slices \cup {Local})
    BY <1>14, RestoreTyped, AppendNested DEF Finish, Step, Nested
  <2> QED
    BY <1>14, <2>1 DEF Finish, Step
<1>15. CASE TagStart
  <2>1. /\ pc = "tag_start" /\ pc' \in {"tag_end", "raising"}
        /\ UNCHANGED <<mlflow, environ, request, todo, run, model, seen, result, said, flows>>
    BY <1>15 DEF TagStart, Raise
  <2>2. TypeOK'
    BY <2>1
  <2>3. Ready'
    BY <2>1
  <2> QED
    BY <2>2, <2>3
<1>16. CASE TagEnd
  <2>1. /\ pc = "tag_end" /\ kind = "nightly" /\ pc' \in {"returned", "raising"}
        /\ run \in 1 .. Len(runs) /\ window[2] \in Nat /\ window[2] <= Horizon
        /\ UNCHANGED <<jobs, visible, environ, request, todo, run, model, seen, result, said,
                       flows>>
    BY <1>16 DEF TagEnd, Raise, Slices
  <2>2. /\ runs' \in Seq(Runs) /\ Len(runs') = Len(runs)
        /\ \A r \in 1 .. Len(runs') : runs'[r].upto \in (0 .. Horizon) \cup {None}
    <3>1. CASE runs' = runs
      BY <1>0, <3>1
    <3>2. CASE runs' = [runs EXCEPT ![run].upto = window[2]]
      <4> DEFINE x == [runs[run] EXCEPT !.upto = window[2]]
      <4>1. x \in Runs /\ x.upto = window[2] /\ runs' = [runs EXCEPT ![run] = x]
        BY <1>0, <2>1, <3>2 DEF Runs
      <4> HIDE DEF x
      <4>2. /\ runs' \in Seq(Runs) /\ Len(runs') = Len(runs) /\ runs'[run].upto = window[2]
            /\ \A q \in 1 .. Len(runs) : q # run => runs'[q] = runs[q]
        BY <2>1, <4>1, RunsChange
      <4> QED
        BY <2>1, <4>2
    <3> QED
      BY <1>16, <3>1, <3>2 DEF TagEnd
  <2>3. TypeOK'
    BY <1>0, <2>1, <2>2, RunsTyped
  <2>4. Ready'
    BY <2>1, <2>2
  <2> QED
    BY <2>3, <2>4
<1>17. CASE Unwind
  <2>1. env' \in Slices \cup {Local} /\ saved' \in Seq(Slices \cup {Local})
    BY <1>17, RestoreTyped DEF Unwind
  <2> QED
    BY <1>17, <2>1 DEF Unwind
<1>18. CASE Crash
  BY <1>18 DEF Crash
<1>19. CASE UNCHANGED vars
  BY <1>19 DEF vars
<1> QED
  BY <1>1, <1>2, <1>3, <1>4, <1>5, <1>6, <1>7, <1>8, <1>9, <1>10, <1>11, <1>12, <1>13, <1>14,
     <1>15, <1>16, <1>17, <1>18, <1>19 DEF Next, GoOn

\* The initial states.
LEMMA InitGood == Init => TypeOK /\ Ready /\ Nested
<1> SUFFICES ASSUME Init PROVE TypeOK /\ Ready /\ Nested
  OBVIOUS
<1>1. /\ runs = <<>> /\ jobs = {} /\ visible \in BOOLEAN /\ outer \in {Local, <<0, Horizon>>}
      /\ env = outer /\ saved = <<>> /\ pc = "idle" /\ kind = "retrain" /\ vm = FALSE
      /\ window = <<0, 0>> /\ todo = <<>> /\ run = None /\ model = None /\ seen = None
      /\ done = <<>> /\ promotions = 0 /\ champion = None /\ said = "nothing" /\ flows = 0
  BY DEF Init
<1>2. <<0, Horizon>> \in Slices
  BY Constants DEF Slices
<1>3. /\ runs \in Seq(Runs) /\ done \in Seq([slice : Slices, run : 1 .. Len(runs),
        model : Slices \cup {Local}, on : Slices \cup {Local}, promoted : BOOLEAN])
  BY <1>1
<1>4. TypeOK
  <2>1. /\ outer \in Slices \cup {Local} /\ env \in Slices \cup {Local} /\ window \in Slices
        /\ saved \in Seq(Slices \cup {Local}) /\ todo \in Seq(Slices)
    BY <1>1, <1>2, Constants
  <2>2. /\ pc \in Busy \cup Over \cup {"idle"} /\ kind \in Kinds /\ vm \in BOOLEAN
        /\ said \in {"nothing", "running", "success", "failed"}
    BY <1>1 DEF Kinds
  <2>3. /\ promotions \in Nat /\ flows \in 0 .. MaxFlows /\ jobs \subseteq Nat \X Slices
    BY <1>1, Constants
  <2>4. pc \notin {"train", "fit", "poll", "promote"}
    BY <1>1
  <2> QED
    BY <1>1, <1>3, <2>1, <2>2, <2>3, <2>4 DEF TypeOK
<1>5. Ready
  BY <1>1 DEF Ready, Scored
<1>6. Nested
  BY <1>1 DEF Nested
<1> QED
  BY <1>4, <1>5, <1>6

\* Every variable stays in its type, whatever is asked for and whatever fails.
THEOREM TypeCorrect == Spec => []TypeOK
<1>1. TypeOK /\ Ready /\ Nested /\ [Next]_vars => (TypeOK /\ Ready /\ Nested)'
  BY StepTyped, StepNested
<1> QED
  BY <1>1, InitGood, PTL DEF Spec

\* simulate.py:65-97, nightly.py:125: however a flow ends, the environment is the one the
\* process had, and a chunk is scored and promoted in that of the caller.
THEOREM EnvironmentIsRestored == Spec => []EnvRestored
<1>1. Nested => EnvRestored
  <2>1. ASSUME Nested PROVE EnvRestored
    BY <2>1, AppendNested DEF Nested, EnvRestored, Over
  <2> QED
    BY <2>1
<1>2. TypeOK /\ Ready /\ Nested /\ [Next]_vars => (TypeOK /\ Ready /\ Nested)'
  BY StepTyped, StepNested
<1> QED
  BY <1>1, <1>2, InitGood, PTL DEF Spec

-----------------------------------------------------------------------------
(* Runs.                                                                   *)

\* What a step may do to the runs there are: a VM's ends, the bench's gets its window; a
\* new one has none.
RunsStay ==
  /\ Len(runs') \in Nat /\ Len(runs') >= Len(runs)
  /\ \A r \in 1 .. Len(runs) :
       /\ runs'[r].slice = runs[r].slice
       /\ runs[r].status = "FINISHED" => runs'[r].status = "FINISHED"
       /\ \/ runs'[r].upto = runs[r].upto
          \/ pc = "tag_end" /\ r = run /\ runs'[r].upto = window[2]
  /\ \A r \in (Len(runs) + 1) .. Len(runs') : runs'[r].upto = None

\* They are no worse after any step.
LEMMA StepRunsStay == TypeOK /\ Ready /\ [Next]_vars => RunsStay
<1> SUFFICES ASSUME TypeOK, Ready, [Next]_vars PROVE RunsStay
  OBVIOUS
<1>0. runs \in Seq(Runs) /\ Len(runs) \in Nat /\ \A r \in 1 .. Len(runs) : runs[r] \in Runs
  BY DEF TypeOK
<1>1. CASE runs' = runs
  BY <1>0, <1>1 DEF RunsStay
<1>2. ASSUME NEW x, x \in Runs, x.upto = None, runs' = Append(runs, x) PROVE RunsStay
  <2>1. /\ Len(runs') = Len(runs) + 1 /\ runs'[Len(runs) + 1] = x
        /\ \A r \in 1 .. Len(runs) : runs'[r] = runs[r]
    BY <1>2, RunsGrow
  <2> QED
    BY <1>0, <1>2, <2>1 DEF RunsStay
<1>3. CASE VmStarts
  <2>1. PICK j \in jobs : runs' = Append(runs, [name |-> j[1], status |-> "RUNNING",
                                               slice |-> j[2], upto |-> None])
    BY <1>3 DEF VmStarts
  <2> DEFINE x == [name |-> j[1], status |-> "RUNNING", slice |-> j[2], upto |-> None]
  <2>2. x \in Runs /\ x.upto = None
    BY DEF Runs, TypeOK
  <2> QED
    BY <1>2, <2>1, <2>2
<1>4. CASE VmEnds
  <2>1. PICK r \in 1 .. Len(runs), status \in {"FINISHED", "FAILED"} :
          runs[r].status = "RUNNING" /\ runs' = [runs EXCEPT ![r].status = status]
    BY <1>4 DEF VmEnds
  <2> DEFINE x == [runs[r] EXCEPT !.status = status]
  <2>2. /\ x \in Runs /\ x.upto = runs[r].upto /\ x.slice = runs[r].slice
        /\ runs' = [runs EXCEPT ![r] = x]
    BY <1>0, <2>1 DEF Runs
  <2> HIDE DEF x
  <2>3. /\ Len(runs') = Len(runs) /\ runs'[r] = x
        /\ \A q \in 1 .. Len(runs) : q # r => runs'[q] = runs[q]
    BY <2>2, RunsChange
  <2> QED
    BY <1>0, <2>1, <2>2, <2>3 DEF RunsStay
<1>5. CASE Fit
  <2>1. runs' = runs \/ \E status \in {"FINISHED", "FAILED"} :
          runs' = Append(runs, [name |-> None, status |-> status, slice |-> env, upto |-> None])
    BY <1>5 DEF Fit
  <2>2. \A status \in {"FINISHED", "FAILED"} :
          [name |-> None, status |-> status, slice |-> env, upto |-> None] \in Runs
    BY DEF Runs, TypeOK
  <2> QED
    BY <1>1, <1>2, <2>1, <2>2
<1>6. CASE TagEnd
  <2>1. pc = "tag_end" /\ run \in 1 .. Len(runs) /\ window[2] \in Nat
    BY <1>6 DEF TagEnd, Ready, Scored, TypeOK, Slices
  <2>2. CASE runs' = [runs EXCEPT ![run].upto = window[2]]
    <3> DEFINE x == [runs[run] EXCEPT !.upto = window[2]]
    <3>1. /\ x \in Runs /\ x.upto = window[2] /\ x.slice = runs[run].slice
          /\ x.status = runs[run].status /\ runs' = [runs EXCEPT ![run] = x]
      BY <1>0, <2>1, <2>2 DEF Runs
    <3> HIDE DEF x
    <3>2. /\ Len(runs') = Len(runs) /\ runs'[run] = x
          /\ \A q \in 1 .. Len(runs) : q # run => runs'[q] = runs[q]
      BY <2>1, <3>1, RunsChange
    <3> QED
      BY <1>0, <2>1, <3>1, <3>2 DEF RunsStay
  <2> QED
    BY <1>1, <1>6, <2>2 DEF TagEnd
<1>7. CASE \/ NightlyIdle \/ BeginNightly \/ BeginSimulate \/ BeginRetrain \/ Prepare
           \/ EnterTrain \/ Poll \/ PollTimesOut \/ Evaluate \/ Promote \/ Finish
           \/ TagStart \/ Unwind \/ Crash \/ UNCHANGED vars
  BY <1>1, <1>7 DEF NightlyIdle, BeginNightly, BeginSimulate, BeginRetrain, Begin, Prepare,
     EnterTrain, Poll, PollTimesOut, Evaluate, Promote, Finish, TagStart, Unwind, Crash, vars,
     mlflow
<1> QED
  BY <1>3, <1>4, <1>5, <1>6, <1>7 DEF Next, GoOn

-----------------------------------------------------------------------------
(* Chunks.                                                                 *)

\* A run that finished on the slice.
Fitted(r, slice) ==
  r \in 1 .. Len(runs) /\ runs[r].slice = slice /\ runs[r].status = "FINISHED"

\* A VM leaves no model in the process, so that what is scored was fitted here, in the
\* chunk's overlay.
Owned ==
  /\ vm => model = None
  /\ pc = "fit" /\ kind # "retrain" => env = Head(todo)
  /\ pc \in {"evaluate", "promote"} /\ kind # "retrain" /\ ~vm =>
       /\ model = Head(todo)
       /\ run # None => Fitted(run, Head(todo))
  /\ pc = "promote" => seen = IF kind = "nightly" THEN Reference ELSE outer

\* A run that finished stays one.
LEMMA FittedStays ==
  ASSUME TypeOK, RunsStay, NEW r, NEW slice, Fitted(r, slice)
  PROVE  Fitted(r, slice)'
BY DEF Fitted, RunsStay, TypeOK

\* What is in the result stays true while the result is not touched.
LEMMA ResultStays ==
  ASSUME TypeOK, RunsStay, ChunkIsItsOwn, UNCHANGED <<done, kind, outer>>
  PROVE  ChunkIsItsOwn'
<1>1. ASSUME NEW i \in 1 .. Len(done) PROVE done[i].run \in 1 .. Len(runs)
  <2> DEFINE Entry == [slice : Slices, run : 1 .. Len(runs), model : Slices \cup {Local},
                       on : Slices \cup {Local}, promoted : BOOLEAN]
  <2>1. done \in Seq(Entry)
    BY DEF TypeOK
  <2>2. \A x \in Entry : x.run \in 1 .. Len(runs)
    OBVIOUS
  <2> HIDE DEF Entry
  <2>3. done[i] \in Entry
    BY <2>1
  <2> QED
    BY <2>2, <2>3
<1> QED
  BY <1>1 DEF ChunkIsItsOwn, RunsStay, Reference

\* Every action keeps both.
LEMMA StepOwned ==
  TypeOK /\ Ready /\ Nested /\ Owned /\ ChunkIsItsOwn /\ [Next]_vars => (Owned /\ ChunkIsItsOwn)'
<1> SUFFICES ASSUME TypeOK, Ready, Nested, Owned, ChunkIsItsOwn, [Next]_vars
             PROVE  (Owned /\ ChunkIsItsOwn)'
  OBVIOUS
<1>0. RunsStay
  BY StepRunsStay
<1> USE DEF mlflow, environ, request, result
<1>1. ASSUME NEW k \in Kinds, Begin(k), pc' \in Over \cup {"train", "prepare"}
      PROVE  (Owned /\ ChunkIsItsOwn)'
  <2>1. done' = <<>> /\ model' = None
    BY <1>1 DEF Begin
  <2>2. ChunkIsItsOwn'
    BY <2>1 DEF ChunkIsItsOwn
  <2>3. Owned'
    BY <1>1, <2>1 DEF Owned, Over
  <2> QED
    BY <2>2, <2>3
<1>2. CASE NightlyIdle \/ BeginNightly \/ BeginSimulate \/ BeginRetrain
  BY <1>1, <1>2 DEF NightlyIdle, BeginNightly, BeginSimulate, BeginRetrain, Kinds, Over
<1>3. CASE VmStarts \/ VmEnds
  <2>1. UNCHANGED <<environ, pc, request, todo, run, model, seen, result>>
    BY <1>3 DEF VmStarts, VmEnds
  <2>2. ChunkIsItsOwn'
    BY <1>0, <2>1, ResultStays
  <2>3. Owned'
    BY <1>0, <2>1, FittedStays DEF Owned, Reference
  <2> QED
    BY <2>2, <2>3
<1>4. CASE Prepare \/ PollTimesOut \/ Finish \/ TagStart \/ TagEnd \/ Unwind \/ Crash
  <2>1. /\ UNCHANGED <<done, kind, outer, vm, model>>
        /\ pc' \notin {"evaluate", "promote"} /\ (pc' = "fit" => kind' = "retrain")
    BY <1>4 DEF Prepare, PollTimesOut, Finish, TagStart, TagEnd, Unwind, Crash, Raise, Step, Ready
  <2>2. ChunkIsItsOwn'
    BY <1>0, <2>1, ResultStays
  <2>3. Owned'
    BY <2>1 DEF Owned
  <2> QED
    BY <2>2, <2>3
<1>5. CASE EnterTrain
  <2>1. /\ UNCHANGED <<done, kind, outer, vm, model, todo>> /\ env' = Head(todo)
        /\ pc' \notin {"evaluate", "promote"}
    BY <1>5 DEF EnterTrain, Overlay, Raise
  <2>2. ChunkIsItsOwn'
    BY <1>0, <2>1, ResultStays
  <2>3. Owned'
    BY <2>1 DEF Owned
  <2> QED
    BY <2>2, <2>3
<1>6. CASE Fit
  <2>1. /\ UNCHANGED <<done, kind, outer, vm, todo>> /\ ~vm /\ pc = "fit"
        /\ pc' = "raising" \/ pc' = "evaluate"
    BY <1>6 DEF Fit, Raise, Ready
  <2>2. ChunkIsItsOwn'
    BY <1>0, <2>1, ResultStays
  <2>3. CASE pc' = "raising"
    <3>1. Owned'
      BY <2>1, <2>3 DEF Owned
    <3> QED
      BY <2>2, <3>1
  <2>4. CASE pc' = "evaluate"
    <3>1. /\ model' = env
          /\ \/ runs' = Append(runs, [name |-> None, status |-> "FINISHED", slice |-> env,
                                      upto |-> None]) /\ run' = Len(runs')
             \/ run' = None
      BY <1>6, <2>4 DEF Fit, Raise
    <3>2. CASE run' = None
      <4>1. Owned'
        BY <2>1, <2>4, <3>1, <3>2 DEF Owned
      <4> QED
        BY <2>2, <4>1
    <3>3. CASE runs' = Append(runs, [name |-> None, status |-> "FINISHED", slice |-> env,
                                     upto |-> None]) /\ run' = Len(runs')
      <4> DEFINE x == [name |-> None, status |-> "FINISHED", slice |-> env, upto |-> None]
      <4>1. x \in Runs /\ x.slice = env /\ x.status = "FINISHED"
        BY DEF Runs, TypeOK
      <4> HIDE DEF x
      <4>2. run' \in 1 .. Len(runs') /\ runs'[run'] = x
        BY <3>3, <4>1, RunsGrow DEF x
      <4>3. kind # "retrain" => Head(todo') = env
        BY <2>1 DEF Owned
      <4>4. Owned'
        BY <2>1, <2>4, <3>1, <4>1, <4>2, <4>3 DEF Owned, Fitted
      <4> QED
        BY <2>2, <4>4
    <3> QED
      BY <3>1, <3>2, <3>3
  <2> QED
    BY <2>1, <2>3, <2>4
<1>7. CASE Poll
  <2>1. UNCHANGED <<done, kind, outer, vm, todo, model>> /\ vm /\ pc' = "evaluate"
    BY <1>7 DEF Poll, Step, Ready
  <2>2. ChunkIsItsOwn'
    BY <1>0, <2>1, ResultStays
  <2>3. Owned'
    BY <2>1 DEF Owned
  <2> QED
    BY <2>2, <2>3
<1>8. CASE Evaluate
  <2>1. /\ UNCHANGED <<runs, done, kind, outer, env, vm, todo, model, run>> /\ pc = "evaluate"
        /\ \/ pc' = "raising"
           \/ kind = "retrain" /\ pc' = "finish"
           \/ kind # "retrain" /\ pc' = "promote" /\ seen' = env
    BY <1>8 DEF Evaluate, Raise
  <2>2. ChunkIsItsOwn'
    BY <1>0, <2>1, ResultStays
  <2>3. env = IF kind = "nightly" THEN Reference ELSE outer
    BY <2>1 DEF Nested
  <2>4. Owned'
    BY <2>1, <2>3 DEF Owned, Fitted, Reference
  <2> QED
    BY <2>2, <2>4
<1>9. CASE Promote
  <2>1. /\ UNCHANGED <<runs, kind, outer, vm, model>> /\ pc = "promote"
        /\ pc' \in {"raising", "finish", "train"}
    BY <1>9 DEF Promote, Raise
  <2>2. Owned'
    BY <2>1 DEF Owned
  <2>3. CASE done' = done
    BY <1>0, <2>1, <2>2, <2>3, ResultStays
  <2>4. ASSUME NEW x, x.slice = Head(todo), x.run = run, x.model = model, x.on = seen,
               run # None, done' = Append(done, x)
        PROVE  ChunkIsItsOwn'
    <3>1. ~vm /\ kind # "retrain"
      BY <2>1 DEF Owned, Ready
    <3>2. /\ Fitted(run, Head(todo)) /\ model = Head(todo)
          /\ seen = IF kind = "nightly" THEN Reference ELSE outer
      BY <2>1, <2>4, <3>1 DEF Owned
    <3>3. /\ Len(done) \in Nat /\ Len(done') = Len(done) + 1 /\ done'[Len(done) + 1] = x
          /\ \A i \in 1 .. Len(done) : done'[i] = done[i]
      BY <2>4 DEF TypeOK
    <3>4. \A i \in 1 .. Len(done') : i \in 1 .. Len(done) \/ i = Len(done) + 1
      BY <3>3
    <3> QED
      BY <2>1, <2>4, <3>2, <3>3, <3>4 DEF ChunkIsItsOwn, Fitted, Reference
  <2>5. done' = done \/ \E promoted \in BOOLEAN :
          /\ run # None
          /\ done' = Append(done, [slice |-> Head(todo), run |-> run, model |-> model,
                                   on |-> seen, promoted |-> promoted])
    BY <1>9 DEF Promote
  <2> QED
    BY <2>2, <2>3, <2>4, <2>5
<1>10. CASE UNCHANGED vars
  <2>1. UNCHANGED <<mlflow, environ, pc, request, todo, run, model, seen, result>>
    BY <1>10 DEF vars
  <2>2. ChunkIsItsOwn'
    BY <1>0, <2>1, ResultStays
  <2>3. Owned'
    BY <2>1 DEF Owned, Fitted, Reference
  <2> QED
    BY <2>2, <2>3
<1> QED
  BY <1>2, <1>3, <1>4, <1>5, <1>6, <1>7, <1>8, <1>9, <1>10 DEF Next, GoOn

\* simulate.py:271-300, 402-417: an entry of the result is about one model, fitted on the
\* chunk and scored on the slice of all, by a run that finished, whatever else ran.
THEOREM ChunksAreTheirOwn == Spec => []ChunkIsItsOwn
<1>1. Init => Owned /\ ChunkIsItsOwn
  BY DEF Init, Owned, ChunkIsItsOwn
<1>2. TypeOK /\ Ready /\ Nested /\ Owned /\ ChunkIsItsOwn /\ [Next]_vars
        => (TypeOK /\ Ready /\ Nested /\ Owned /\ ChunkIsItsOwn)'
  BY StepTyped, StepNested, StepOwned
<1> QED
  BY <1>1, <1>2, InitGood, PTL DEF Spec

-----------------------------------------------------------------------------
(* Windows.                                                                *)

\* One of the first n runs carries the end t, or t is the floor.
Reached(n, t) == t = 0 \/ \E q \in 1 .. n : runs[q].upto = t

\* The bench has its window as the one chunk; it begins where a run ends, and the run that
\* is tagged with its end is a newer one, fitted on it and not tagged yet.
Walking ==
  /\ kind = "nightly" /\ pc \in {"train", "fit", "evaluate", "promote"} => todo = <<window>>
  /\ kind = "nightly" /\ pc \in {"train", "fit"} => Reached(Len(runs), window[1])
  /\ kind = "nightly" /\ pc \in Scored =>
       Fitted(run, window) /\ runs[run].upto = None /\ Reached(run - 1, window[1])
  /\ \A r \in 1 .. Len(runs) : runs[r].upto # None => runs[r].slice \in Slices

\* What is reached stays so, but for the run being tagged.
LEMMA ReachedStays ==
  ASSUME TypeOK, RunsStay, NEW n \in 0 .. Len(runs), NEW t \in Nat, Reached(n, t),
         pc = "tag_end" => run \in 1 .. Len(runs) /\ runs[run].upto = None
  PROVE  t = 0 \/ \E q \in 1 .. n : runs'[q].upto = t
<1>1. CASE t = 0
  BY <1>1
<1>2. CASE t # 0
  <2>1. PICK q \in 1 .. n : runs[q].upto = t
    BY <1>2 DEF Reached
  <2>2. q \in 1 .. Len(runs) /\ ~(pc = "tag_end" /\ q = run)
    BY <2>1, NoneApart DEF TypeOK
  <2>3. runs'[q].upto = t
    BY <2>1, <2>2 DEF RunsStay
  <2> QED
    BY <2>1, <2>3
<1> QED
  BY <1>1, <1>2

\* A VM does not tag.
LEMMA RunsKeepEnds ==
  ASSUME TypeOK, VmStarts \/ VmEnds \/ UNCHANGED vars
  PROVE  \A r \in 1 .. Len(runs) : runs'[r].upto = runs[r].upto
<1>0. \A r \in 1 .. Len(runs) : runs[r] \in Runs
  BY DEF TypeOK
<1>1. CASE VmStarts
  <2>1. PICK j \in jobs : runs' = Append(runs, [name |-> j[1], status |-> "RUNNING",
                                               slice |-> j[2], upto |-> None])
    BY <1>1 DEF VmStarts
  <2> QED
    BY <2>1 DEF TypeOK
<1>2. CASE VmEnds
  <2>1. PICK r \in 1 .. Len(runs), status \in {"FINISHED", "FAILED"} :
          runs' = [runs EXCEPT ![r].status = status]
    BY <1>2 DEF VmEnds
  <2> QED
    BY <1>0, <2>1 DEF TypeOK, Runs
<1>3. CASE UNCHANGED vars
  BY <1>3 DEF vars, mlflow
<1> QED
  BY <1>1, <1>2, <1>3

\* The windows of other runs stay contiguous.
LEMMA OthersStay ==
  ASSUME TypeOK, RunsStay, WindowsContiguous, NEW r \in 1 .. Len(runs), runs[r].upto # None,
         runs[r].slice \in Slices,
         pc = "tag_end" => run \in 1 .. Len(runs) /\ runs[run].upto = None
  PROVE  /\ runs'[r].upto = runs[r].upto /\ runs'[r].slice = runs[r].slice
         /\ runs'[r].status = "FINISHED" /\ runs'[r].slice[2] = runs'[r].upto
         /\ runs'[r].slice[1] = 0 \/ \E q \in 1 .. (r - 1) : runs'[q].upto = runs'[r].slice[1]
<1>1. /\ runs[r].status = "FINISHED" /\ runs[r].slice[2] = runs[r].upto
      /\ Reached(r - 1, runs[r].slice[1])
  BY DEF WindowsContiguous, Reached
<1>2. /\ runs'[r].upto = runs[r].upto /\ runs'[r].slice = runs[r].slice
      /\ runs'[r].status = "FINISHED"
  BY <1>1 DEF RunsStay
<1>3. CASE runs[r].slice[1] = 0
  BY <1>1, <1>2, <1>3
<1>4. CASE runs[r].slice[1] # 0
  <2>1. PICK q \in 1 .. (r - 1) : runs[q].upto = runs[r].slice[1]
    BY <1>1, <1>4 DEF Reached
  <2>2. q \in 1 .. Len(runs)
    BY DEF TypeOK
  <2>3. runs[q].upto # None
    <3>1. runs[r].slice[1] \in Nat
      BY DEF Slices
    <3> QED
      BY <2>1, <3>1, NoneApart
  <2>4. runs'[q].upto = runs[q].upto
    BY <2>2, <2>3 DEF RunsStay
  <2> QED
    BY <1>1, <1>2, <2>1, <2>4
<1> QED
  BY <1>3, <1>4

\* Every action keeps the walk, and the windows contiguous.
LEMMA StepWalking ==
  TypeOK /\ Ready /\ Owned /\ Walking /\ WindowsContiguous /\ [Next]_vars
    => (Walking /\ WindowsContiguous)'
<1> SUFFICES ASSUME TypeOK, Ready, Owned, Walking, WindowsContiguous, [Next]_vars
             PROVE  (Walking /\ WindowsContiguous)'
  OBVIOUS
<1> DEFINE Tagged == \A r \in 1 .. Len(runs) : runs[r].upto # None => runs[r].slice \in Slices
           Still(n, t) == t = 0 \/ \E q \in 1 .. n : runs'[q].upto = t
           Kept == /\ Tagged' /\ WindowsContiguous'
                   /\ \A n \in 0 .. Len(runs), t \in Nat : Reached(n, t) => Still(n, t)
<1>0. /\ RunsStay /\ runs \in Seq(Runs) /\ Len(runs) \in Nat
      /\ pc = "tag_end" => /\ run \in 1 .. Len(runs) /\ runs[run].upto = None
                           /\ Fitted(run, window) /\ Reached(run - 1, window[1])
      /\ window \in Slices /\ window[1] \in Nat /\ window[2] \in Nat
  BY StepRunsStay DEF TypeOK, Ready, Walking, Fitted, Scored, Slices
<1>1. Kept
  <2>1. \A n \in 0 .. Len(runs), t \in Nat : Reached(n, t) => Still(n, t)
    BY <1>0, ReachedStays
  <2>2. ASSUME NEW r \in 1 .. Len(runs'), runs'[r].upto # None
        PROVE  /\ runs'[r].slice \in Slices /\ runs'[r].status = "FINISHED"
               /\ runs'[r].slice[2] = runs'[r].upto
               /\ \/ runs'[r].slice[1] = 0
                  \/ \E q \in 1 .. (r - 1) : runs'[q].upto = runs'[r].slice[1]
    <3>1. r \in 1 .. Len(runs)
      BY <1>0, <2>2 DEF RunsStay
    <3>2. CASE runs[r].upto # None
      BY <1>0, <3>1, <3>2, OthersStay DEF Walking
    <3>3. CASE runs[r].upto = None
      <4>1. pc = "tag_end" /\ r = run /\ runs'[r].upto = window[2]
        BY <1>0, <2>2, <3>1, <3>3 DEF RunsStay
      <4>2. runs'[r].slice = window /\ runs'[r].status = "FINISHED"
        BY <1>0, <3>1, <4>1 DEF RunsStay, Fitted
      <4>3. Still(r - 1, window[1])
        BY <1>0, <2>1, <3>1, <4>1
      <4> QED
        BY <1>0, <4>1, <4>2, <4>3
    <3> QED
      BY <3>2, <3>3
  <2> QED
    BY <2>1, <2>2 DEF WindowsContiguous
<1> USE DEF mlflow, environ, request, result
<1>2. CASE pc' \notin {"train", "fit"} \cup Scored \/ kind' # "nightly"
  BY <1>1, <1>2 DEF Walking, Scored
<1>3. CASE BeginNightly
  <2> DEFINE w == NextWindow(Cursor)
  <2>1. /\ w \in Slices /\ w[1] \in Nat /\ w[2] \in Nat /\ w = <<w[1], w[2]>> /\ w[1] < w[2]
        /\ Reached(Len(runs), w[1])
    BY WindowFits DEF Reached
  <2> HIDE DEF w
  <2>2. Chunks(w[1], w[2], w[2] - w[1]) = <<w>>
    BY <2>1, WindowIsOneChunk
  <2>3. window' = w /\ todo' = <<w>> /\ pc' = "train" /\ kind' = "nightly" /\ runs' = runs
    BY <1>3, <2>2 DEF BeginNightly, Begin, w
  <2> QED
    BY <1>0, <1>1, <2>1, <2>3 DEF Walking, Scored, Reached
<1>4. ASSUME kind = "nightly", kind' = "nightly", window' = window,
             pc \in {"train", "fit"}, pc' \in {"train", "fit"}, todo' = todo
      PROVE  (Walking /\ WindowsContiguous)'
  <2>1. Reached(Len(runs), window[1]) /\ todo' = <<window'>>
    BY <1>4 DEF Walking
  <2>2. Still(Len(runs), window[1])
    BY <1>0, <1>1, <2>1
  <2>3. Still(Len(runs'), window'[1])
    BY <1>0, <1>4, <2>2 DEF RunsStay
  <2> QED
    BY <1>1, <1>4, <2>1, <2>3 DEF Walking, Scored, Reached
<1>5. ASSUME kind = "nightly", kind' = "nightly", window' = window, run' = run,
             pc = "tag_end" => runs'[run].upto = runs[run].upto, pc \in Scored, pc' \in Scored,
             pc' \in {"evaluate", "promote"} => pc \in {"evaluate", "promote"} /\ todo' = todo
      PROVE  (Walking /\ WindowsContiguous)'
  <2>1. Fitted(run, window) /\ runs[run].upto = None /\ Reached(run - 1, window[1])
    BY <1>5 DEF Walking
  <2>2. /\ Fitted(run, window)' /\ runs'[run'].upto = None /\ run \in 1 .. Len(runs)
    BY <1>0, <1>5, <2>1 DEF Fitted, RunsStay
  <2>3. Still(run - 1, window[1])
    <3>1. run - 1 \in 0 .. Len(runs) /\ window[1] \in Nat
      BY <1>0, <2>2
    <3> HIDE DEF Still
    <3> QED
      BY <1>1, <2>1, <3>1
  <2>4. pc' \in {"evaluate", "promote"} => todo' = <<window'>>
    BY <1>5 DEF Walking
  <2> QED
    BY <1>1, <1>5, <2>2, <2>3, <2>4 DEF Walking, Scored, Reached
<1>6. CASE VmStarts \/ VmEnds \/ UNCHANGED vars
  <2>1. UNCHANGED <<pc, kind, todo, window, run>>
    BY <1>6 DEF VmStarts, VmEnds, vars
  <2>2. \A r \in 1 .. Len(runs) : runs'[r].upto = runs[r].upto
    BY <1>0, <1>6, RunsKeepEnds
  <2>3. pc \in Scored /\ kind = "nightly" => run \in 1 .. Len(runs)
    BY DEF Ready
  <2> QED
    BY <1>2, <1>4, <1>5, <2>1, <2>2, <2>3 DEF Scored
<1>7. CASE EnterTrain
  <2>1. pc = "train" /\ UNCHANGED <<kind, todo, window>>
    BY <1>7 DEF EnterTrain
  <2>2. pc' \in {"fit", "poll", "raising"}
    BY <1>7 DEF EnterTrain, Raise
  <2> QED
    BY <1>2, <1>4, <2>1, <2>2 DEF Scored
<1>8. CASE Fit
  <2>1. pc = "fit" /\ UNCHANGED <<kind, todo, window>> /\ pc' \in {"evaluate", "raising"}
    BY <1>8 DEF Fit, Raise
  <2>2. CASE kind = "nightly" /\ pc' = "evaluate"
    <3> DEFINE x == [name |-> None, status |-> "FINISHED", slice |-> env, upto |-> None]
    <3>1. runs' = Append(runs, x) /\ run' = Len(runs')
      BY <1>8, <2>2 DEF Fit, Raise
    <3>2. env = window /\ todo = <<window>> /\ Reached(Len(runs), window[1])
      BY <2>1, <2>2 DEF Owned, Walking
    <3>3. x \in Runs /\ x.slice = window /\ x.status = "FINISHED" /\ x.upto = None
      BY <1>0, <3>2 DEF Runs
    <3> HIDE DEF x
    <3>4. run' = Len(runs) + 1 /\ runs'[run'] = x /\ run' \in 1 .. Len(runs')
      BY <1>0, <3>1, <3>3, RunsGrow
    <3>5. Fitted(run, window)'
      BY <2>1, <3>3, <3>4 DEF Fitted
    <3>6. Still(run' - 1, window'[1])
      <4>1. run' - 1 = Len(runs) /\ window' = window /\ Len(runs) \in 0 .. Len(runs)
        BY <1>0, <2>1, <3>4
      <4> HIDE DEF Still
      <4> QED
        BY <1>0, <1>1, <3>2, <4>1
    <3> QED
      BY <1>1, <2>1, <2>2, <3>2, <3>3, <3>4, <3>5, <3>6 DEF Walking, Scored, Reached
  <2> QED
    BY <1>2, <2>1, <2>2 DEF Scored
<1>9. CASE Evaluate \/ Finish \/ TagStart
  <2>1. /\ UNCHANGED <<kind, todo, window, run>> /\ pc \in {"evaluate", "finish", "tag_start"}
        /\ pc' \in {"promote", "finish", "raising", "tag_start", "returned", "tag_end"}
        /\ pc' = "promote" => pc = "evaluate"
    BY <1>9 DEF Evaluate, Finish, TagStart, Raise, Step
  <2> QED
    BY <1>2, <1>5, <2>1 DEF Scored
<1>10. CASE Promote
  <2>1. /\ UNCHANGED <<kind, window, run>> /\ pc = "promote"
        /\ pc' \in {"finish", "raising"} \/ Len(todo) # 1
    BY <1>10 DEF Promote, Raise
  <2>2. kind = "nightly" => Len(todo) = 1
    BY <2>1 DEF Walking
  <2> QED
    BY <1>2, <1>5, <2>1, <2>2 DEF Scored
<1>11. CASE \/ NightlyIdle \/ BeginSimulate \/ BeginRetrain \/ Prepare \/ Poll \/ PollTimesOut
            \/ TagEnd \/ Unwind \/ Crash
  <2>1. kind' # "nightly" \/ pc' \in Over \cup {"raising"}
    BY <1>11 DEF NightlyIdle, BeginSimulate, BeginRetrain, Begin, Prepare, Poll, PollTimesOut,
       TagEnd, Unwind, Crash, Raise, Step, Ready, Over
  <2> QED
    BY <1>2, <2>1 DEF Over, Scored
<1> QED
  BY <1>3, <1>6, <1>7, <1>8, <1>9, <1>10, <1>11 DEF Next, GoOn

\* nightly.py:55-89, 112-138: the bench leaves no hole, whatever broke off in between.
THEOREM TheBenchLeavesNoHole == Spec => []WindowsContiguous
<1>1. Init => Owned /\ ChunkIsItsOwn /\ Walking /\ WindowsContiguous
  BY DEF Init, Owned, ChunkIsItsOwn, Walking, WindowsContiguous, Scored
<1>2. TypeOK /\ Ready /\ Nested /\ Owned /\ ChunkIsItsOwn /\ Walking /\ WindowsContiguous
        /\ [Next]_vars
        => (TypeOK /\ Ready /\ Nested /\ Owned /\ ChunkIsItsOwn /\ Walking
              /\ WindowsContiguous)'
  BY StepTyped, StepNested, StepOwned, StepWalking
<1> QED
  BY <1>1, <1>2, InitGood, PTL DEF Spec

-----------------------------------------------------------------------------
(* The whole period.                                                       *)

\* What was handled reaches from the start of the period up to t.
Handled(t) == done[1].slice[1] = window[1] /\ done[Len(done)].slice[2] = t

DoneFollow == \A i \in 1 .. (Len(done) - 1) : done[i].slice[2] = done[i + 1].slice[1]

\* The promotions are counted, and the champion is the last.
Counted ==
  /\ promotions = Cardinality({i \in 1 .. Len(done) : done[i].promoted})
  /\ promotions > 0 => \E i \in 1 .. Len(done) :
       /\ done[i].promoted /\ champion = done[i].run
       /\ \A j \in (i + 1) .. Len(done) : ~done[j].promoted

\* What is left follows on what was handled, up to the end of the period; success is said
\* when nothing is left.
Covering ==
  /\ kind # "retrain" /\ pc \in {"train", "fit", "poll", "evaluate", "promote"} =>
       /\ Follow(todo) /\ todo[Len(todo)][2] = window[2]
       /\ done = <<>> => todo[1][1] = window[1]
       /\ done # <<>> => Handled(todo[1][1])
  /\ kind # "retrain" /\ pc = "finish" => done # <<>> /\ Handled(window[2])
  /\ kind # "retrain" /\ said = "success" =>
       /\ done # <<>> /\ Handled(window[2])
       /\ pc \in Over \cup {"tag_start", "tag_end", "raising"}
  /\ DoneFollow /\ Counted

\* The result with an entry more.
LEMMA DoneGrows ==
  ASSUME TypeOK, NEW x, done' = Append(done, x)
  PROVE  /\ Len(done) \in Nat /\ Len(done') = Len(done) + 1 /\ done'[Len(done) + 1] = x
         /\ \A i \in 1 .. Len(done) : done'[i] = done[i]
BY DEF TypeOK

\* The slices without the first.
LEMMA RestOf ==
  ASSUME NEW c \in Seq(Slices), Len(c) >= 1, Len(c) # 1
  PROVE  /\ Len(Tail(c)) = Len(c) - 1 /\ Len(Tail(c)) >= 1
         /\ \A i \in 1 .. Len(Tail(c)) : Tail(c)[i] = c[i + 1]
<1>1. Len(c) \in Nat /\ c # <<>>
  OBVIOUS
<1>2. Tail(c) \in Seq(Slices) /\ Len(Tail(c)) = Len(c) - 1
  BY <1>1
<1>3. ASSUME NEW i \in 1 .. (Len(c) - 1) PROVE Tail(c)[i] = c[i + 1]
  BY <1>1
<1> QED
  BY <1>1, <1>2, <1>3

\* A chunk joins the result.
LEMMA PromoteCounts ==
  ASSUME TypeOK, Counted, NEW x, run # None,
         x.promoted \in BOOLEAN, x.run = run,
         done' = Append(done, x),
         promotions' = IF x.promoted THEN promotions + 1 ELSE promotions,
         champion' = IF x.promoted THEN run ELSE champion
  PROVE  Counted'
<1> DEFINE P == {i \in 1 .. Len(done) : done[i].promoted}
           n == Len(done)
<1>1. /\ n \in Nat /\ Len(done') = n + 1 /\ done'[n + 1] = x
      /\ \A i \in 1 .. n : done'[i] = done[i]
  BY DoneGrows
<1>2. IsFiniteSet(P) /\ Cardinality(P) \in Nat /\ n + 1 \notin P
  <2>1. IsFiniteSet(1 .. n)
    BY <1>1, FS_Interval
  <2>2. P \in SUBSET (1 .. n)
    OBVIOUS
  <2>3. IsFiniteSet(P)
    BY <2>1, <2>2, FS_Subset
  <2> QED
    BY <1>1, <2>2, <2>3, FS_CardinalityType
<1>3. promotions = Cardinality(P)
  BY DEF Counted
<1>4. CASE x.promoted
  <2>1. {i \in 1 .. Len(done') : done'[i].promoted} = P \cup {n + 1}
    BY <1>1, <1>4
  <2>2. Cardinality(P \cup {n + 1}) = Cardinality(P) + 1
    BY <1>2, FS_AddElement
  <2>3. promotions' = Cardinality({i \in 1 .. Len(done') : done'[i].promoted})
    BY <1>3, <1>4, <2>1, <2>2
  <2>4. /\ n + 1 \in 1 .. Len(done') /\ done'[n + 1].promoted /\ champion' = done'[n + 1].run
        /\ \A j \in ((n + 1) + 1) .. Len(done') : ~done'[j].promoted
    BY <1>1, <1>4
  <2> QED
    BY <2>3, <2>4 DEF Counted
<1>5. CASE ~x.promoted
  <2>1. {i \in 1 .. Len(done') : done'[i].promoted} = P
    BY <1>1, <1>5
  <2>2. promotions' = promotions /\ champion' = champion
    BY <1>5
  <2>3. ASSUME promotions > 0
        PROVE  \E i \in 1 .. Len(done') :
                 /\ done'[i].promoted /\ champion' = done'[i].run
                 /\ \A j \in (i + 1) .. Len(done') : ~done'[j].promoted
    <3>1. PICK i \in 1 .. n : /\ done[i].promoted /\ champion = done[i].run
                             /\ \A j \in (i + 1) .. n : ~done[j].promoted
      BY <2>3 DEF Counted
    <3>2. i \in 1 .. Len(done') /\ done'[i].promoted /\ champion' = done'[i].run
      BY <1>1, <2>2, <3>1
    <3>3. ASSUME NEW j \in (i + 1) .. Len(done') PROVE ~done'[j].promoted
      <4>1. j \in Nat /\ i \in Nat /\ i >= 1 /\ j >= i + 1 /\ j <= n + 1
        BY <1>1
      <4>2. j = n + 1 \/ (j \in (i + 1) .. n /\ j \in 1 .. n)
        BY <1>1, <4>1
      <4> QED
        BY <1>1, <1>5, <3>1, <4>2
    <3> QED
      BY <3>2, <3>3
  <2> QED
    BY <1>3, <2>1, <2>2, <2>3 DEF Counted
<1> QED
  BY <1>4, <1>5

\* Both depend on the result alone.
LEMMA ResultKept ==
  ASSUME UNCHANGED <<done, promotions, champion>>
  PROVE  (DoneFollow => DoneFollow') /\ (Counted => Counted')
BY DEF DoneFollow, Counted

\* Every action keeps the period covered.
LEMMA StepCovering == TypeOK /\ Ready /\ Covering /\ [Next]_vars => Covering'
<1> SUFFICES ASSUME TypeOK, Ready, Covering, [Next]_vars PROVE Covering'
  OBVIOUS
<1> USE DEF mlflow, environ, request, result
<1>1. ASSUME NEW k \in Kinds, Begin(k),
             \/ pc' \in {"returned", "raised", "prepare"}
             \/ /\ pc' = "train" /\ Follow(todo') /\ todo'[Len(todo')][2] = window'[2]
                /\ todo'[1][1] = window'[1],
             said' # "success"
      PROVE  Covering'
  <2>1. done' = <<>> /\ promotions' = 0
    BY <1>1 DEF Begin
  <2>2. DoneFollow'
    BY <2>1 DEF DoneFollow
  <2>3. Counted'
    <3>1. {i \in 1 .. Len(done') : done'[i].promoted} = {}
      BY <2>1
    <3> QED
      BY <2>1, <3>1, FS_EmptySet DEF Counted
  <2> QED
    BY <1>1, <2>1, <2>2, <2>3 DEF Covering, Follow
<1>2. CASE NightlyIdle \/ BeginRetrain
  BY <1>1, <1>2 DEF NightlyIdle, BeginRetrain, Kinds
<1>3. CASE BeginNightly
  <2> DEFINE w == NextWindow(Cursor)
  <2>1. /\ w[1] \in Nat /\ w[2] \in Nat /\ w[1] < w[2]
    BY WindowFits
  <2> HIDE DEF w
  <2>2. window' = w /\ todo' = Chunks(w[1], w[2], w[2] - w[1]) /\ pc' = "train"
        /\ Begin("nightly") /\ said' # "success"
    BY <1>3 DEF BeginNightly, w
  <2>3. w[2] - w[1] \in Nat \ {0}
    BY <2>1
  <2>4. /\ todo'[1][1] = w[1] /\ todo'[Len(todo')][2] = w[2] /\ Follow(todo')
    <3>1. Cover(Chunks(w[1], w[2], w[2] - w[1]), w[1], w[2])
      BY <2>1, <2>3, ChunksCover
    <3> QED
      BY <2>2, <3>1 DEF Cover
  <2> QED
    BY <1>1, <2>2, <2>4 DEF Kinds
<1>4. CASE BeginSimulate
  <2>1. /\ window'[1] \in Nat /\ window'[2] \in Nat /\ window'[1] < window'[2]
        /\ todo' = Chunks(window'[1], window'[2], ChunkPeriod)
        /\ pc' = "train" /\ Begin("simulate") /\ said' # "success"
    BY <1>4, Constants DEF BeginSimulate
  <2>2. todo'[1][1] = window'[1] /\ todo'[Len(todo')][2] = window'[2] /\ Follow(todo')
    <3>1. Cover(Chunks(window'[1], window'[2], ChunkPeriod), window'[1], window'[2])
      BY <2>1, Constants, ChunksCover
    <3> QED
      BY <2>1, <3>1 DEF Cover
  <2> QED
    BY <1>1, <2>1, <2>2 DEF Kinds
<1>5. CASE VmStarts \/ VmEnds \/ UNCHANGED vars
  <2>1. UNCHANGED <<pc, kind, window, todo, result, said>>
    BY <1>5 DEF VmStarts, VmEnds, vars
  <2> QED
    BY <2>1, ResultKept DEF Covering, Follow, Handled
<1>6. CASE Prepare \/ EnterTrain \/ Fit \/ Poll \/ PollTimesOut
  <2>1. UNCHANGED <<kind, window, todo, result, said>>
    BY <1>6 DEF Prepare, EnterTrain, Fit, Poll, PollTimesOut
  <2>2. /\ pc \in {"prepare", "train", "fit", "poll"} /\ (pc = "prepare" => kind = "retrain")
        /\ pc' \in {"fit", "poll", "evaluate", "raising"}
    BY <1>6 DEF Prepare, EnterTrain, Fit, Poll, PollTimesOut, Raise, Step, Ready
  <2> QED
    BY <2>1, <2>2, ResultKept DEF Covering, Follow, Handled, Over
<1>7. CASE Evaluate
  <2>1. /\ UNCHANGED <<kind, window, todo, result, said>> /\ pc = "evaluate"
        /\ pc' \in {"promote", "finish", "raising"} /\ (pc' = "finish" => kind = "retrain")
    BY <1>7 DEF Evaluate, Raise
  <2> QED
    BY <2>1, ResultKept DEF Covering, Follow, Handled, Over
<1>8. CASE Promote
  <2>1. /\ UNCHANGED <<kind, window, said>> /\ pc = "promote" /\ kind # "retrain"
        /\ todo \in Seq(Slices) /\ todo # <<>> /\ Len(todo) \in Nat /\ Len(todo) >= 1
    BY <1>8 DEF Promote, Ready, TypeOK
  <2>2. /\ Follow(todo) /\ todo[Len(todo)][2] = window[2] /\ said # "success"
        /\ done = <<>> => todo[1][1] = window[1]
        /\ done # <<>> => Handled(todo[1][1])
        /\ DoneFollow /\ Counted
    BY <2>1 DEF Covering, Over
  <2>3. CASE pc' = "raising" /\ UNCHANGED <<result, todo>>
    BY <2>1, <2>2, <2>3, ResultKept DEF Covering
  <2>4. ASSUME NEW promoted \in BOOLEAN, run # None,
               done' = Append(done, [slice |-> Head(todo), run |-> run, model |-> model,
                                     on |-> seen, promoted |-> promoted]),
               promotions' = IF promoted THEN promotions + 1 ELSE promotions,
               champion' = IF promoted THEN run ELSE champion,
               pc' = (IF Len(todo) = 1 THEN "finish" ELSE "train"), todo' = Tail(todo)
        PROVE  Covering'
    <3> DEFINE x == [slice |-> Head(todo), run |-> run, model |-> model, on |-> seen,
                     promoted |-> promoted]
               n == Len(done)
    <3>1. x.slice = todo[1] /\ x.run = run /\ x.promoted = promoted /\ done' = Append(done, x)
      BY <2>1, <2>4
    <3> HIDE DEF x
    <3>2. /\ n \in Nat /\ Len(done') = n + 1 /\ done'[n + 1] = x /\ done' # <<>>
          /\ \A i \in 1 .. n : done'[i] = done[i]
      <4>1. /\ n \in Nat /\ Len(done') = n + 1 /\ done'[n + 1] = x
            /\ \A i \in 1 .. n : done'[i] = done[i]
        BY <3>1, DoneGrows
      <4> QED
        BY <4>1
    <3>3. Counted'
      BY <2>2, <2>4, <3>1, PromoteCounts
    <3>4. done'[1].slice[1] = window'[1] /\ done'[Len(done')].slice = todo[1]
      <4>1. CASE done = <<>>
        BY <2>1, <2>2, <3>1, <3>2, <4>1
      <4>2. CASE done # <<>>
        <5>1. 1 \in 1 .. n
          BY <3>2, <4>2 DEF TypeOK
        <5> QED
          BY <2>1, <2>2, <3>1, <3>2, <4>2, <5>1 DEF Handled
      <4> QED
        BY <4>1, <4>2
    <3>5. DoneFollow'
      <4>1. ASSUME NEW i \in 1 .. (Len(done') - 1)
            PROVE  done'[i].slice[2] = done'[i + 1].slice[1]
        <5>1. i \in 1 .. n /\ n \in 1 .. n /\ done # <<>>
          BY <3>2
        <5>2. CASE i = n
          BY <2>2, <3>1, <3>2, <5>1, <5>2 DEF Handled
        <5>3. CASE i # n
          <6>1. i \in 1 .. (n - 1) /\ i + 1 \in 1 .. n
            BY <3>2, <5>1, <5>3
          <6> QED
            BY <2>2, <3>2, <5>1, <6>1 DEF DoneFollow
        <5> QED
          BY <5>2, <5>3
      <4> QED
        BY <4>1 DEF DoneFollow
    <3>6. CASE Len(todo) = 1
      <4>1. Handled(window[2])'
        BY <2>1, <2>2, <3>4, <3>6 DEF Handled
      <4> QED
        BY <2>1, <2>2, <2>4, <3>2, <3>3, <3>5, <3>6, <4>1 DEF Covering
    <3>7. CASE Len(todo) # 1
      <4>1. /\ Len(todo') = Len(todo) - 1 /\ Len(todo') >= 1
            /\ \A i \in 1 .. Len(todo') : todo'[i] = todo[i + 1]
        BY <2>1, <2>4, <3>7, RestOf
      <4>2. todo'[Len(todo')][2] = window'[2]
        BY <2>1, <2>2, <4>1
      <4>3. todo[1][2] = todo'[1][1]
        BY <2>1, <2>2, <4>1 DEF Follow
      <4>4. Follow(todo')
        <5>1. ASSUME NEW i \in 1 .. (Len(todo') - 1) PROVE todo'[i][2] = todo'[i + 1][1]
          <6>1. /\ i \in 1 .. Len(todo') /\ i + 1 \in 1 .. Len(todo')
                /\ i + 1 \in 1 .. (Len(todo) - 1)
            BY <2>1, <4>1
          <6> QED
            BY <2>2, <4>1, <6>1 DEF Follow
        <5> QED
          BY <5>1 DEF Follow
      <4>5. Handled(todo[1][1])'
        BY <3>4, <4>3 DEF Handled
      <4> QED
        BY <2>1, <2>2, <2>4, <3>2, <3>3, <3>5, <3>7, <4>2, <4>4, <4>5 DEF Covering
    <3> QED
      BY <3>6, <3>7
  <2> QED
    BY <1>8, <2>3, <2>4 DEF Promote, Raise
<1>9. CASE Finish
  <2>1. /\ UNCHANGED <<kind, window, todo, result>> /\ pc = "finish"
        /\ pc' \in {"tag_start", "returned"}
    BY <1>9 DEF Finish, Step
  <2> QED
    BY <2>1, ResultKept DEF Covering, Follow, Handled, Over
<1>10. CASE TagStart \/ TagEnd \/ Crash
  <2>1. /\ UNCHANGED <<kind, window, todo, result, said>>
        /\ pc' \in {"tag_end", "returned", "raising", "crashed"}
    BY <1>10 DEF TagStart, TagEnd, Crash, Raise
  <2> QED
    BY <2>1, ResultKept DEF Covering, Follow, Handled, Over
<1>11. CASE Unwind
  <2>1. /\ UNCHANGED <<kind, window, todo, result>> /\ pc = "raising"
        /\ pc' \in {"raising", "raised"} /\ (kind # "retrain" => said' = said)
    BY <1>11 DEF Unwind
  <2> QED
    BY <2>1, ResultKept DEF Covering, Follow, Handled, Over
<1> QED
  BY <1>2, <1>3, <1>4, <1>5, <1>6, <1>7, <1>8, <1>9, <1>10, <1>11 DEF Next, GoOn

\* simulate.py:363-371, 402-432: success is posted when the whole period was handled, and
\* reports the promotions that were decided.
THEOREM SuccessCoversThePeriod == Spec => []SuccessIsComplete
<1>1. Init => Covering
  <2>1. ASSUME Init PROVE Covering
    <3>1. done = <<>> /\ promotions = 0 /\ pc = "idle" /\ said = "nothing"
      BY <2>1 DEF Init
    <3>2. {i \in 1 .. Len(done) : done[i].promoted} = {}
      BY <3>1
    <3> QED
      BY <3>1, <3>2, FS_EmptySet DEF Covering, DoneFollow, Counted
  <2> QED
    BY <2>1
<1>2. Covering => SuccessIsComplete
  BY DEF Covering, Handled, DoneFollow, Counted, SuccessIsComplete
<1>3. TypeOK /\ Ready /\ Nested /\ Covering /\ [Next]_vars
        => (TypeOK /\ Ready /\ Nested /\ Covering)'
  BY StepTyped, StepNested, StepCovering
<1> QED
  BY <1>1, <1>2, <1>3, InitGood, PTL DEF Spec
=============================================================================
