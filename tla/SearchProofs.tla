---------------------------- MODULE SearchProofs ----------------------------
(***************************************************************************)
(* What holds of every study, every course of a training and every history *)
(* of runs.                                                                *)
(***************************************************************************)
EXTENDS Search, FiniteSetTheorems, WellFoundedInduction, TLAPS

-----------------------------------------------------------------------------
(* Studies.                                                                *)

\* config.py:29-80, hpo.py:43-92: a space has fields of its backend, and never its kind.
LEMMA SpaceFits ==
  ASSUME NEW kind \in Kinds
  PROVE  /\ DOMAIN Space[kind] \subseteq DOMAIN Default[kind]
         /\ "kind" \notin DOMAIN Space[kind] /\ "kind" \in DOMAIN Default[kind]
<1>1. Kinds = {"tf_mlp", "torch_mlp", "xgb", "lgbm", "catboost", "ft_transformer"}
  BY DEF Kinds, Default
<1>2. CASE kind = "tf_mlp"
  BY <1>2 DEF Space, Default, TfMlpSpace
<1>3. CASE kind = "torch_mlp"
  BY <1>3 DEF Space, Default, TorchMlpSpace
<1>4. CASE kind = "xgb"
  BY <1>4 DEF Space, Default, XgbSpace
<1>5. CASE kind = "lgbm"
  BY <1>5 DEF Space, Default, LgbmSpace
<1>6. CASE kind = "catboost"
  BY <1>6 DEF Space, Default, CatboostSpace
<1>7. CASE kind = "ft_transformer"
  BY <1>7 DEF Space, Default, FtSpace
<1> QED
  BY <1>1, <1>2, <1>3, <1>4, <1>5, <1>6, <1>7

\* hpo.py:152-156, config.py:25-80, ft_transformer.py:41: whatever a trial draws, the base
\* configuration with it is one of the same backend, with every field the backend has, and
\* an estimator can be built of it: also when the base itself could not be built.
THEOREM TrialConfigsBuild ==
  ASSUME NEW kind \in Kinds, NEW base, NEW params,
         Validates(kind, base), DOMAIN base = DOMAIN Default[kind], Suggests(kind, params)
  PROVE  /\ Validates(kind, Merged(base, params))
         /\ DOMAIN Merged(base, params) = DOMAIN Default[kind]
         /\ Builds(Merged(base, params))
<1>1. DOMAIN params \subseteq DOMAIN Default[kind]
  BY SpaceFits DEF Suggests
<1>2. "kind" \notin DOMAIN params /\ "kind" \in DOMAIN base
  BY SpaceFits DEF Suggests
<1>3. DOMAIN Merged(base, params) = DOMAIN Default[kind]
  BY <1>1 DEF Merged
<1>4. Merged(base, params).kind = kind
  BY <1>2 DEF Merged, Validates
<1>5. ASSUME kind = "ft_transformer" PROVE Merged(base, params).d_token % 8 = 0
  <2>1. /\ "d_token" \in DOMAIN Space["ft_transformer"]
        /\ Space["ft_transformer"]["d_token"] = {64, 128, 192, 256}
    <3>1. Space["ft_transformer"] = FtSpace
      BY DEF Space
    <3>2. "d_token" \in DOMAIN FtSpace /\ FtSpace["d_token"] = {64, 128, 192, 256}
      BY DEF FtSpace
    <3> QED
      BY <3>1, <3>2
  <2>2. "d_token" \in DOMAIN params /\ params.d_token \in {64, 128, 192, 256}
    BY <1>5, <2>1 DEF Suggests
  <2>3. Merged(base, params).d_token = params.d_token
    BY <2>2 DEF Merged
  <2> QED
    BY <2>2, <2>3
<1> QED
  BY <1>3, <1>4, <1>5 DEF Validates, Builds

\* A set of natural numbers that is not empty has a least one.
LEMMA LeastNumber ==
  ASSUME NEW S, S \subseteq Nat, S # {}
  PROVE  \E n \in S : \A m \in S : n <= m
<1>1. PICK n \in S : \A m \in S : ~(<<m, n>> \in OpToRel(<, Nat))
  BY WFMin, NatLessThanWellFounded
<1>2. ASSUME NEW m \in S, m < n PROVE FALSE
  <2>1. <<m, n>> \in {p \in Nat \X Nat : p[1] < p[2]}
    BY <1>2
  <2> QED
    BY <1>1, <2>1 DEF OpToRel
<1> QED
  BY <1>2

\* The values of a study's trials have a bound.
LEMMA ValuesAreBounded ==
  ASSUME NEW trials, NEW n \in Nat, DOMAIN trials = 1 .. n,
         \A i \in Completed(trials) : trials[i].value \in Nat
  PROVE  \E b \in Nat : \A i \in Completed(trials) : trials[i].value <= b
<1> DEFINE Bounded(k) == \E b \in Nat : \A i \in Completed(trials) :
                           i <= k => trials[i].value <= b
           Bad == {k \in Nat : ~Bounded(k)}
<1>1. Completed(trials) \subseteq 1 .. n
  BY DEF Completed
<1>2. SUFFICES ASSUME Bad # {} PROVE FALSE
  <2>1. Bounded(n)
    BY <1>2
  <2> QED
    BY <1>1, <2>1
<1>3. PICK k \in Bad : \A m \in Bad : k <= m
  <2>1. Bad \subseteq Nat
    OBVIOUS
  <2> HIDE DEF Bad
  <2> QED
    BY <1>2, <2>1, LeastNumber
<1>4. k \in Nat /\ ~Bounded(k)
  OBVIOUS
<1>5. k # 0
  BY <1>1, <1>4
<1>6. Bounded(k - 1)
  <2>1. k - 1 \in Nat /\ ~(k <= k - 1)
    BY <1>4, <1>5
  <2>2. k - 1 \notin Bad
    BY <1>3, <2>1
  <2> QED
    BY ONLY <2>1, <2>2
<1>7. PICK b \in Nat : \A i \in Completed(trials) : i <= k - 1 => trials[i].value <= b
  BY <1>6
<1>8. CASE k \in Completed(trials)
  <2> DEFINE v == trials[k].value
             c == IF v <= b THEN b ELSE v
  <2>1. v \in Nat /\ c \in Nat /\ b <= c /\ v <= c
    BY <1>8
  <2>2. ASSUME NEW i \in Completed(trials), i <= k PROVE trials[i].value <= c
    <3>1. i \in Nat /\ trials[i].value \in Nat
      BY <1>1
    <3>2. CASE i = k
      BY <2>1, <3>2
    <3>3. CASE i # k
      <4>1. i <= k - 1
        BY <1>4, <2>2, <3>1, <3>3
      <4>2. trials[i].value <= b
        BY <1>7, <4>1
      <4> HIDE DEF c
      <4> QED
        BY <2>1, <3>1, <4>2
    <3> QED
      BY <3>2, <3>3
  <2> QED
    BY <1>4, <2>1, <2>2
<1>9. CASE k \notin Completed(trials)
  <2>1. ASSUME NEW i \in Completed(trials), i <= k PROVE i <= k - 1
    BY <1>1, <1>4, <1>9, <2>1
  <2> QED
    BY <1>4, <1>7, <2>1
<1> QED
  BY <1>8, <1>9

\* Of the trials that ran to their end one is the best, whichever way the study looks.
LEMMA BestExists ==
  ASSUME NEW trials, NEW n \in Nat, DOMAIN trials = 1 .. n,
         \A i \in Completed(trials) : trials[i].value \in Nat, Completed(trials) # {},
         NEW direction \in {"minimize", "maximize"}
  PROVE  \E i \in DOMAIN trials : IsBest(i, trials, direction)
<1> DEFINE values == {trials[i].value : i \in Completed(trials)}
<1>1. values \subseteq Nat /\ values # {}
  OBVIOUS
<1>2. CASE direction = "minimize"
  <2>1. PICK v \in values : \A w \in values : v <= w
    BY <1>1, LeastNumber
  <2>2. PICK i \in Completed(trials) : trials[i].value = v
    OBVIOUS
  <2> QED
    BY <1>2, <2>1, <2>2 DEF IsBest, Completed
<1>3. CASE direction = "maximize"
  <2> DEFINE bounds == {b \in Nat : \A w \in values : w <= b}
  <2>1. bounds # {}
    <3>1. PICK b \in Nat : \A i \in Completed(trials) : trials[i].value <= b
      BY ValuesAreBounded
    <3>2. b \in bounds
      BY <3>1
    <3> QED
      BY <3>2
  <2>2. PICK b \in bounds : \A c \in bounds : b <= c
    <3>1. bounds \subseteq Nat
      OBVIOUS
    <3> HIDE DEF bounds
    <3> QED
      BY <2>1, <3>1, LeastNumber
  <2>3. b \in Nat /\ \A w \in values : w <= b
    OBVIOUS
  <2>4. b \in values
    <3> SUFFICES ASSUME b \notin values PROVE FALSE
      OBVIOUS
    <3>0. b - 1 \notin bounds
      BY <2>2, <2>3
    <3> HIDE DEF values
    <3>1. \A w \in values : w \in Nat /\ w < b
      BY <1>1, <2>3
    <3>2. b - 1 \in Nat
      <4>1. PICK w \in values : w \in Nat /\ w < b
        BY <1>1, <3>1
      <4> QED
        BY <2>3, <4>1
    <3>3. ASSUME NEW w \in values PROVE w <= b - 1
      BY <2>3, <3>1
    <3> QED
      BY <3>0, <3>2, <3>3
  <2>5. PICK i \in Completed(trials) : trials[i].value = b
    BY <2>4
  <2>6. i \in DOMAIN trials
    BY DEF Completed
  <2>7. \A j \in Completed(trials) : trials[i].value >= trials[j].value
    BY <2>3, <2>5
  <2> QED
    BY <1>3, <2>6, <2>7 DEF IsBest
<1> QED
  BY <1>2, <1>3

\* hpo.py:159-168: a study returns if and only if no trial raised and one ran to its end:
\* one exception of the objective loses every trial before it, and values that are not
\* numbers lose nothing as long as one is.
THEOREM StudiesReturn ==
  ASSUME NEW base, NEW trials, NEW n \in Nat, DOMAIN trials = 1 .. n,
         \A i \in 1 .. n : trials[i].value \in Nat \cup {Diverged, Raised},
         NEW direction \in {"minimize", "maximize"}
  PROVE  (\E result : Tunes(result, base, trials, direction))
           <=> /\ \A i \in 1 .. n : trials[i].value # Raised
               /\ \E i \in 1 .. n : trials[i].value \in Nat
<1> DEFINE result(i) == [best_value |-> trials[i].value, best_params |-> trials[i].params,
                         best_backend_cfg |-> Merged(base, trials[i].params),
                         n_trials |-> Len(trials)]
<1>1. \A i \in 1 .. n : i \in Completed(trials) <=> trials[i].value \in Nat
  BY DEF Completed, Diverged, Raised
<1>2. ASSUME NEW r, Tunes(r, base, trials, direction)
      PROVE  /\ \A i \in 1 .. n : trials[i].value # Raised
             /\ \E i \in 1 .. n : trials[i].value \in Nat
  BY <1>1, <1>2 DEF Tunes, Optimizes, IsBest
<1>3. ASSUME \A i \in 1 .. n : trials[i].value # Raised,
             \E i \in 1 .. n : trials[i].value \in Nat
      PROVE  \E r : Tunes(r, base, trials, direction)
  <2>1. Completed(trials) # {} /\ Completed(trials) \subseteq 1 .. n
    BY <1>1, <1>3 DEF Completed
  <2>2. \A i \in Completed(trials) : trials[i].value \in Nat
    BY <1>1, <2>1
  <2>3. PICK i \in DOMAIN trials : IsBest(i, trials, direction)
    BY <2>1, <2>2, BestExists
  <2>4. Tunes(result(i), base, trials, direction)
    BY <1>3, <2>3 DEF Tunes, Optimizes
  <2> QED
    BY <2>4
<1> QED
  BY <1>2, <1>3

-----------------------------------------------------------------------------
(* The epoch that is kept.                                                 *)

\* What is true of the loop after e turns: the epoch kept has a loss, no epoch so far has
\* one that is lower by more than a millionth, and patience counts the epochs since.
Sound(s, losses, e) ==
  /\ s \in [epoch : 0 .. e, kept : 0 .. e, left : 0 .. Patience]
  /\ s.kept <= s.epoch /\ s.left = Patience - (s.epoch - s.kept)
  /\ s.kept # 0 => losses[s.kept] # Diverged
  /\ \A i \in 1 .. s.epoch :
       losses[i] # Diverged => s.kept # 0 /\ losses[s.kept] <= losses[i] + 1
  /\ s.left > 0 => s.epoch = e

\* One turn of the loop keeps it so.
LEMMA TurnIsSound ==
  ASSUME NEW losses \in Seq(Int), NEW e \in 1 .. Len(losses), NEW s, Sound(s, losses, e - 1)
  PROVE  Sound(IF s.left = 0 THEN s ELSE Epoch(s, losses), losses, e)
<1>1. CASE s.left = 0
  <2>1. s \in [epoch : 0 .. (e - 1), kept : 0 .. (e - 1), left : 0 .. Patience]
    BY DEF Sound
  <2>2. s \in [epoch : 0 .. e, kept : 0 .. e, left : 0 .. Patience]
    BY <2>1
  <2> QED
    BY <1>1, <2>2 DEF Sound
<1>2. CASE s.left # 0
  <2>1. s.epoch + 1 = e /\ s.epoch \in Nat /\ s.kept \in 0 .. (e - 1) /\ s.left \in 1 .. 5
    BY SMTT(30), <1>2 DEF Sound, Patience
  <2>2. \A i \in 1 .. Len(losses) : losses[i] \in Int
    OBVIOUS
  <2>3. CASE Improves(s, losses, e)
    <3>1. Epoch(s, losses) = [epoch |-> e, kept |-> e, left |-> Patience]
      BY <2>1, <2>3 DEF Epoch
    <3>2. ASSUME NEW i \in 1 .. e, losses[i] # Diverged PROVE losses[e] <= losses[i] + 1
      <4>1. losses[i] \in Int /\ losses[e] \in Int
        BY <2>2
      <4>2. CASE i = e
        BY <4>1, <4>2
      <4>3. CASE i # e
        <5>1. s.kept # 0 /\ losses[s.kept] <= losses[i] + 1
          <6>1. i \in 1 .. s.epoch
            BY SMTT(40), <2>1, <4>3
          <6> QED
            BY <3>2, <6>1 DEF Sound
        <5>2. losses[e] + 1 < losses[s.kept] /\ losses[s.kept] \in Int
          BY SMTT(30), <2>1, <2>2, <2>3, <5>1 DEF Improves
        <5> QED
          BY <4>1, <5>1, <5>2
      <4> QED
        BY <4>2, <4>3
    <3> QED
      BY SMTT(60), <1>2, <2>3, <3>1, <3>2 DEF Sound, Improves, Patience
  <2>4. CASE ~Improves(s, losses, e)
    <3>1. Epoch(s, losses) = [epoch |-> e, kept |-> s.kept, left |-> s.left - 1]
      BY <2>1, <2>4 DEF Epoch, Sound
    <3>2. \A i \in 1 .. e :
            losses[i] # Diverged => s.kept # 0 /\ losses[s.kept] <= losses[i] + 1
      <4>1. \A i \in 1 .. (e - 1) :
              losses[i] # Diverged => s.kept # 0 /\ losses[s.kept] <= losses[i] + 1
        BY SMTT(30), <2>1 DEF Sound
      <4>2. losses[e] # Diverged => s.kept # 0 /\ losses[s.kept] <= losses[e] + 1
        BY <2>1, <2>2, <2>4 DEF Improves
      <4> QED
        BY SMTT(40), <2>1, <4>1, <4>2
    <3> QED
      BY SMTT(60), <1>2, <2>1, <3>1, <3>2 DEF Sound, Patience
  <2> QED
    BY <2>3, <2>4
<1> QED
  BY <1>1, <1>2

\* torch_mlp.py:76-106: however the losses run, the weights the fit ends with are those of
\* an epoch whose loss no epoch that was trained beats by more than a millionth, and
\* training stops five epochs after it; if every loss was no number, after five epochs.
THEOREM KeptEpochIsBest ==
  ASSUME NEW losses \in Seq(Int), NEW after, IsFit(after, losses), NEW e \in 0 .. Len(losses)
  PROVE  Sound(after[e], losses, e)
<1> DEFINE Bad == {n \in Nat : n <= Len(losses) /\ ~Sound(after[n], losses, n)}
<1>1. SUFFICES ASSUME Bad # {} PROVE FALSE
  OBVIOUS
<1>2. PICK n \in Bad : \A m \in Bad : n <= m
  BY <1>1, LeastNumber
<1>3. n # 0
  BY <1>2 DEF IsFit, Start, Sound, Patience
<1>4. n \in 1 .. Len(losses) /\ n - 1 \in Nat /\ n - 1 \notin Bad
  BY <1>2, <1>3
<1>5. Sound(after[n - 1], losses, n - 1)
  BY <1>4
<1>6. after[n] = IF after[n - 1].left = 0 THEN after[n - 1] ELSE Epoch(after[n - 1], losses)
  BY <1>4 DEF IsFit
<1>7. Sound(after[n], losses, n)
  BY <1>4, <1>5, <1>6, TurnIsSound
<1> QED
  BY <1>2, <1>7

-----------------------------------------------------------------------------
(* Proposals.                                                              *)

\* memory.py:88-93: when the top runs are of one kind another kind is proposed, unless they
\* are all of LightGBM: then LightGBM is proposed again.
THEOREM SameKindProposals ==
  ASSUME NEW runs, NEW top, NEW kind, DOMAIN top # {},
         \A i \in DOMAIN top : runs[top[i]].kind = kind
  PROVE  Propose(top, runs) = kind <=> kind = "lgbm"
BY DEF Propose

\* memory.py:82-97: an experiment in which every run was proposed, each from those before
\* it, never leaves XGBoost and LightGBM.
THEOREM TwoBackendsOnly ==
  ASSUME NEW runs, NEW tops, DOMAIN runs = Nat \ {0},
         \A n \in Nat : LET before == [i \in 1 .. n |-> runs[i]]
                       IN /\ IsTop(tops[n], before, 3)
                          /\ runs[n + 1].kind = Propose(tops[n], before),
         NEW m \in Nat \ {0}
  PROVE  runs[m].kind \in {"xgb", "lgbm"}
<1> DEFINE Bad == {n \in Nat : n # 0 /\ runs[n].kind \notin {"xgb", "lgbm"}}
<1>1. SUFFICES ASSUME Bad # {} PROVE FALSE
  OBVIOUS
<1>2. PICK n \in Bad : \A i \in Bad : n <= i
  BY <1>1, LeastNumber
<1> DEFINE before == [i \in 1 .. (n - 1) |-> runs[i]]
           top == tops[n - 1]
<1>3. n - 1 \in Nat /\ (n - 1) + 1 = n
  BY <1>2
<1>4. IsTop(top, before, 3) /\ runs[n].kind = Propose(top, before)
  BY <1>3
<1>5. \A i \in 1 .. (n - 1) : before[i].kind \in {"xgb", "lgbm"}
  BY <1>2
<1>6. \A i \in DOMAIN top : top[i] \in 1 .. (n - 1)
  BY <1>4 DEF IsTop
<1>7. DOMAIN top # {} => 1 \in DOMAIN top
  <2> DEFINE k == IF Cardinality(DOMAIN before) < 3 THEN Cardinality(DOMAIN before) ELSE 3
  <2>1. DOMAIN top = 1 .. k
    BY <1>4 DEF IsTop
  <2>2. k \in Nat
    BY <1>3, FS_Interval, FS_CardinalityType, 1 \in Int, n - 1 \in Int
  <2> QED
    BY <2>1, <2>2
<1>8. Propose(top, before) \in {"xgb", "lgbm"}
  BY <1>5, <1>6, <1>7 DEF Propose
<1> QED
  BY <1>2, <1>4, <1>8

\* memory.py:112-119: the difference of some runs is empty only if they have the same
\* parameters with the same values.
THEOREM NoDifferenceMeansTheSame ==
  ASSUME NEW dicts, NEW none, Diff(dicts, none) = {},
         \A i \in DOMAIN dicts : \A k \in DOMAIN dicts[i] : dicts[i][k] # none,
         NEW i \in DOMAIN dicts, NEW j \in DOMAIN dicts
  PROVE  /\ DOMAIN dicts[i] = DOMAIN dicts[j]
         /\ \A k \in DOMAIN dicts[i] : dicts[i][k] = dicts[j][k]
<1>1. \A k \in DOMAIN dicts[i] \cup DOMAIN dicts[j] :
        Get(dicts[i], k, none) = Get(dicts[j], k, none)
  BY DEF Diff
<1> QED
  BY <1>1 DEF Get
=============================================================================
