------------------------- MODULE TrainingDataProofs -------------------------
(***************************************************************************)
(* What holds of every store, table, split, residual and sequence of       *)
(* times.                                                                  *)
(***************************************************************************)
EXTENDS TrainingData, FiniteSetTheorems, WellFoundedInduction, TLAPS

-----------------------------------------------------------------------------
(* The store.                                                              *)

\* A row keeps its fields when it is tagged.
LEMMA TaggedKeeps ==
  ASSUME NEW csv, NEW split, NEW t \in Tagged(csv, split)
  PROVE  /\ t.split = split
         /\ \E r \in csv : \A f \in DOMAIN r : f # "split" => f \in DOMAIN t /\ t[f] = r[f]
BY DEF Tagged

\* io.py:28-52, migrate.py:26-46: migrating the validation rows of a size after its
\* training rows replaces the files of the months both have; in the other months the
\* training rows stay.
THEOREM LaterMigrationReplaces ==
  ASSUME NEW store, NEW a, NEW b, NEW size, NEW month, <<size, month>> \in DOMAIN store,
         \A r \in b : "month" \in DOMAIN r
  PROVE  LET now == Migrate(Migrate(store, a, "train", size), b, "val", size)[<<size, month>>]
         IN IF \E r \in b : r.month = month
              THEN now # {} /\ \A q \in now : q.split = "val"
              ELSE now = Migrate(store, a, "train", size)[<<size, month>>]
<1> DEFINE before == Migrate(store, a, "train", size)
           part == {t \in Tagged(b, "val") : t.month = month}
<1>1. DOMAIN before = DOMAIN store
  BY DEF Migrate, Write
<1>2. Migrate(before, b, "val", size)[<<size, month>>] =
        IF part # {} THEN part ELSE before[<<size, month>>]
  BY <1>1 DEF Migrate, Write
<1>3. ASSUME NEW r \in b, r.month = month PROVE part # {}
  <2> DEFINE t == [f \in DOMAIN r \cup {"split"} |-> IF f = "split" THEN "val" ELSE r[f]]
  <2>1. t \in Tagged(b, "val")
    BY DEF Tagged
  <2>2. t.month = month
    BY <1>3
  <2> QED
    BY <2>1, <2>2
<1>4. ASSUME part # {} PROVE \E r \in b : r.month = month
  BY <1>4, TaggedKeeps
<1>5. \A q \in part : q.split = "val"
  BY TaggedKeeps
<1> QED
  BY <1>2, <1>3, <1>4, <1>5

-----------------------------------------------------------------------------
(* Training and validation rows.                                           *)

\* The least-number principle for a set of naturals.
LEMMA LeastOf ==
  ASSUME NEW T, T \subseteq Nat, T # {}
  PROVE  \E x \in T : \A y \in T : x <= y
<1>1. PICK x \in T : \A y \in T : ~(<<y, x>> \in OpToRel(<, Nat))
  BY WFMin, NatLessThanWellFounded
<1>2. ASSUME NEW y \in T, y < x PROVE FALSE
  <2>1. <<y, x>> \in Nat \X Nat
    OBVIOUS
  <2>2. <<y, x>> \in {ss \in Nat \X Nat : ss[1] < ss[2]}
    BY <2>1, <1>2
  <2> QED
    BY <2>2, <1>1 DEF OpToRel
<1> QED
  BY <1>2

Trips(rows) == {r.trip : r \in rows}

\* Every row of the store is tagged, and is of the raw file of its size and its tag.
FromRaw(store, raw) ==
  \A p \in DOMAIN store : \A t \in store[p] :
    /\ {"split", "trip"} \subseteq DOMAIN t
    /\ \E r \in raw[t.split][p[1]] : r.trip = t.trip

\* io.py:28-52, migrate.py:26-46: a migration leaves it so, whatever it replaces.
LEMMA MigrationKeepsSource ==
  ASSUME NEW store, NEW raw, NEW split, NEW size, FromRaw(store, raw),
         \A r \in raw[split][size] : "trip" \in DOMAIN r
  PROVE  FromRaw(Migrate(store, raw[split][size], split, size), raw)
<1> DEFINE new == Migrate(store, raw[split][size], split, size)
<1> SUFFICES ASSUME NEW p \in DOMAIN new, NEW t \in new[p]
             PROVE  /\ {"split", "trip"} \subseteq DOMAIN t
                    /\ \E r \in raw[t.split][p[1]] : r.trip = t.trip
  BY DEF FromRaw
<1>1. p \in DOMAIN store
  BY DEF Migrate, Write
<1>2. \/ t \in store[p]
      \/ p[1] = size /\ t \in Tagged(raw[split][size], split)
  BY <1>1 DEF Migrate, Write
<1>3. CASE t \in store[p]
  BY <1>1, <1>3 DEF FromRaw
<1>4. CASE p[1] = size /\ t \in Tagged(raw[split][size], split)
  <2>1. PICK r \in raw[split][size] :
          t = [f \in DOMAIN r \cup {"split"} |-> IF f = "split" THEN split ELSE r[f]]
    BY <1>4 DEF Tagged
  <2>2. "trip" \in DOMAIN r
    OBVIOUS
  <2>3. {"split", "trip"} \subseteq DOMAIN t /\ t.split = split /\ t.trip = r.trip
    BY <2>1, <2>2
  <2> QED
    BY <1>4, <2>3
<1> QED
  BY <1>2, <1>3, <1>4

\* What is loaded from such a store for a split has its trip in the file of that split.
LEMMA LoadedFromRaw ==
  ASSUME NEW store, NEW raw, NEW data, NEW split, FromRaw(store, raw),
         NEW t \in LocalLoad(store, data, split)
  PROVE  t.trip \in Trips(raw[split][SizeOf(data, split)])
<1> DEFINE rows == Scan(store, SizeOf(data, split))
<1>1. \A q \in rows : "split" \in DOMAIN q
  BY DEF Scan, FromRaw
<1>2. PICK q \in rows : q.split = split /\ t = Keyless(q)
  BY <1>1 DEF LocalLoad, Clean
<1>3. PICK p \in DOMAIN store : p[1] = SizeOf(data, split) /\ q \in store[p]
  BY DEF Scan
<1>4. "trip" \in DOMAIN q /\ \E r \in raw[q.split][p[1]] : r.trip = q.trip
  BY <1>3 DEF FromRaw
<1>5. t.trip = q.trip
  BY <1>2, <1>4 DEF Keyless
<1> QED
  BY <1>2, <1>3, <1>4, <1>5 DEF Trips

\* migrate.py:26-46, preprocess.py:75-85: whichever raw files were migrated, in any order
\* and however often, no trip is loaded both to fit a model and to judge it, as long as the
\* two files the DataRef names have none in common.  Rows are of trips here, with or without
\* a tag: the same trip may well be in a training file and in the validation file of another
\* size, and DataChecks shows that then it is loaded for both.
THEOREM LocalHoldsOut ==
  ASSUME NEW raw, NEW parts, NEW stores, NEW data, NEW n \in Nat,
         \A split \in Splits : \A size \in Sizes :
           \A r \in raw[split][size] : "trip" \in DOMAIN r,
         stores[0] = [p \in parts |-> {}],
         \A m \in Nat : \E split \in Splits : \E size \in Sizes :
           stores[m + 1] = Migrate(stores[m], raw[split][size], split, size),
         Trips(raw["train"][data.size]) \cap Trips(raw["val"][data.validation_size]) = {}
  PROVE  Trips(LocalLoad(stores[n], data, "train"))
           \cap Trips(LocalLoad(stores[n], data, "val")) = {}
<1> DEFINE Bad == {m \in Nat : ~FromRaw(stores[m], raw)}
<1>1. Bad = {}
  <2> SUFFICES ASSUME Bad # {} PROVE FALSE
    OBVIOUS
  <2>1. PICK m \in Bad : \A k \in Bad : m <= k
    <3>1. Bad \subseteq Nat
      OBVIOUS
    <3> HIDE DEF Bad
    <3> QED
      BY <3>1, LeastOf
  <2>2. m # 0
    BY DEF FromRaw
  <2>3. m - 1 \in Nat /\ (m - 1) + 1 = m /\ ~(m <= m - 1)
    BY <2>2
  <2>4. FromRaw(stores[m - 1], raw)
    BY <2>1, <2>3
  <2>5. PICK split \in Splits, size \in Sizes :
          stores[m] = Migrate(stores[m - 1], raw[split][size], split, size)
    BY <2>3
  <2>6. \A r \in raw[split][size] : "trip" \in DOMAIN r
    OBVIOUS
  <2>7. FromRaw(Migrate(stores[m - 1], raw[split][size], split, size), raw)
    BY ONLY <2>4, <2>6, MigrationKeepsSource
  <2>8. FromRaw(stores[m], raw)
    BY ONLY <2>5, <2>7
  <2> QED
    BY <2>8
<1>2. FromRaw(stores[n], raw)
  BY <1>1
<1>3. ASSUME NEW split, NEW t \in LocalLoad(stores[n], data, split)
      PROVE  t.trip \in Trips(raw[split][SizeOf(data, split)])
  BY <1>2, LoadedFromRaw
<1>4. SizeOf(data, "train") = data.size /\ SizeOf(data, "val") = data.validation_size
  BY DEF SizeOf
<1>5. Trips(LocalLoad(stores[n], data, "train")) \subseteq Trips(raw["train"][data.size])
  <2> SUFFICES ASSUME NEW t \in LocalLoad(stores[n], data, "train")
               PROVE  t.trip \in Trips(raw["train"][data.size])
    BY DEF Trips
  <2> QED
    BY <1>3, <1>4
<1>6. Trips(LocalLoad(stores[n], data, "val")) \subseteq Trips(raw["val"][data.validation_size])
  <2> SUFFICES ASSUME NEW t \in LocalLoad(stores[n], data, "val")
               PROVE  t.trip \in Trips(raw["val"][data.validation_size])
    BY DEF Trips
  <2> QED
    BY <1>3, <1>4
<1> QED
  BY <1>5, <1>6

\* The limits grow with the number of rows that match, and a query takes no more.
LEMMA LimitedBounds ==
  ASSUME NEW size \in Sizes, NEW n \in Nat
  PROVE  Limited(size, n) \in 0 .. n
BY DEF Limited, Sizes, Smaller

\* Of two queries over the same rows the smaller result is part of the larger.
LEMMA EarliestNest ==
  ASSUME NEW rows, IsFiniteSet(rows), NEW S, NEW T, NEW m \in Nat, NEW n \in Nat, m <= n,
         Earliest(S, rows, m), Earliest(T, rows, n), \A r \in rows : r.time \in Int,
         \A r, x \in rows : r.time = x.time => r = x
  PROVE  S \subseteq T
<1> SUFFICES ASSUME NEW x \in S, x \notin T PROVE FALSE
  OBVIOUS
<1>1. IsFiniteSet(S) /\ S \subseteq rows /\ T \subseteq rows
  BY FS_Subset DEF Earliest
<1>2. \A t \in T : t.time < x.time
  BY <1>1 DEF Earliest
<1>3. T \subseteq S
  BY <1>1, <1>2 DEF Earliest
<1>4. T # S
  OBVIOUS
<1>5. Cardinality(T) # Cardinality(S)
  BY <1>1, <1>3, <1>4, FS_Subset
<1>6. Cardinality(T) <= Cardinality(S)
  BY <1>1, <1>3, FS_Subset
<1> QED
  BY <1>5, <1>6 DEF Earliest

\* bigquery.py:62-69, preprocess.py:57-71: with DATA_SOURCE=query nothing is held out: the
\* rows a model is validated and calibrated on are rows it was fitted on, as long as the
\* limit is no higher for them and no two rows have the same time.
THEOREM QueryHoldsNothingOut ==
  ASSUME NEW table, IsFiniteSet(table), NEW slice, NEW data, NEW T, NEW V,
         data.size \in Sizes, data.validation_size \in Sizes,
         \A n \in Nat : Limited(data.validation_size, n) <= Limited(data.size, n),
         \A r \in table : r.time \in Int, \A r, x \in table : r.time = x.time => r = x,
         QueryLoads(T, table, slice, data, "train"), QueryLoads(V, table, slice, data, "val")
  PROVE  V \subseteq T
<1> DEFINE hits == {r \in table : slice[1] <= r.time /\ r.time < slice[2]}
           m == Limited(data.validation_size, Cardinality(hits))
           n == Limited(data.size, Cardinality(hits))
<1>1. PICK S : QueryReturns(S, table, slice, data.size) /\ T = Clean(S)
  BY DEF QueryLoads, SizeOf
<1>2. PICK W : QueryReturns(W, table, slice, data.validation_size) /\ V = Clean(W)
  BY DEF QueryLoads, SizeOf
<1>3. IsFiniteSet(hits) /\ Cardinality(hits) \in Nat
  BY FS_Subset, FS_CardinalityType
<1>4. m \in Nat /\ n \in Nat /\ m <= n
  BY <1>3, LimitedBounds
<1>5. Earliest(S, hits, n) /\ Earliest(W, hits, m)
  BY <1>1, <1>2 DEF QueryReturns
<1>6. (\A r \in hits : r.time \in Int) /\ \A r, x \in hits : r.time = x.time => r = x
  OBVIOUS
<1> HIDE DEF m, n, hits
<1>7. W \subseteq S
  BY <1>3, <1>4, <1>5, <1>6, EarliestNest
<1> QED
  BY <1>1, <1>2, <1>7 DEF Clean

-----------------------------------------------------------------------------
(* Calibration and cross-validation.                                       *)

\* train.py:98-115: metric and calibration rows make up the validation split, share none,
\* and there are enough of both; the calibration rows are the later ones.
THEOREM CalibrationIsTheTail ==
  ASSUME NEW n \in Nat
  PROVE  /\ Metric(n) \cup Calibration(n) = 1 .. n
         /\ \A i \in Metric(n), j \in Calibration(n) : i < j
         /\ IsCalibrated(n) <=> n >= 100
         /\ IsCalibrated(n) => CalibrationRows(n) >= 30 /\ 1 \in Metric(n)
BY DEF Metric, Calibration, IsCalibrated, CalibrationRows

\* evaluate.py:23-29: what the agent is shown of a calibrated run is measured on more rows
\* than the metric of the run, on those the interval was fitted to as well.
THEOREM EvaluatedIsMore ==
  ASSUME NEW n \in Nat
  PROVE  /\ Evaluated(n) = Metric(n) \cup Calibration(n)
         /\ Metric(n) # Evaluated(n) <=> IsCalibrated(n)
<1>1. CASE IsCalibrated(n)
  <2>1. CalibrationRows(n) \in Nat /\ CalibrationRows(n) >= 30 /\ CalibrationRows(n) <= n
    BY <1>1 DEF IsCalibrated, CalibrationRows
  <2>2. Evaluated(n) = Metric(n) \cup Calibration(n)
    BY <1>1, <2>1 DEF Evaluated, Metric, Calibration
  <2>3. n \in Evaluated(n) /\ n \notin Metric(n)
    BY <1>1, <2>1 DEF Evaluated, Metric
  <2> QED
    BY <1>1, <2>2, <2>3
<1>2. CASE ~IsCalibrated(n)
  BY <1>2 DEF Evaluated, Metric, Calibration
<1> QED
  BY <1>1, <1>2

\* A sorted sequence is sorted from any element to any later one: there is no least
\* distance at which it is not.
LEMMA SortedAtOnce ==
  ASSUME NEW times \in Seq(Int), IsSorted(times), NEW i \in 1 .. Len(times),
         NEW j \in i .. Len(times)
  PROVE  times[i] <= times[j]
<1> DEFINE Bad == {d \in Nat : i + d <= Len(times) /\ times[i] > times[i + d]}
<1> SUFFICES ASSUME times[i] > times[j] PROVE FALSE
  OBVIOUS
<1>1. j - i \in Bad
  OBVIOUS
<1>2. PICK d \in Bad : \A e \in Bad : d <= e
  BY <1>1, LeastOf
<1>3. d # 0
  <2>1. times[i] \in Int /\ i + 0 = i
    OBVIOUS
  <2> QED
    BY <1>2, <2>1
<1>4. d - 1 \in Nat /\ d \in Nat
  BY <1>2, <1>3
<1>5. d - 1 \notin Bad
  BY SMTT(30), <1>2, <1>4
<1>6. i + (d - 1) \in 1 .. Len(times) /\ i + d \in 1 .. Len(times)
  BY <1>2, <1>4
<1>7. times[i] <= times[i + (d - 1)]
  BY <1>4, <1>5, <1>6
<1>8. times[i + (d - 1)] <= times[i + d]
  BY <1>4, <1>6 DEF IsSorted
<1> QED
  BY <1>2, <1>6, <1>7, <1>8

\* Where the folds lie.
LEMMA FoldsInPlace ==
  ASSUME NEW n \in Nat, NEW k \in Nat, k > 1, k + 1 <= n
  PROVE  /\ TestSize(n, k) \in Nat /\ TestSize(n, k) >= 1
         /\ \A i \in 1 .. k : /\ TrainedOn(n, k, i) \in 1 .. n
                              /\ TrainedOn(n, k, i) + TestSize(n, k) \in 1 .. n
         /\ \A i, j \in 1 .. k : i < j =>
              TrainedOn(n, k, i) + TestSize(n, k) <= TrainedOn(n, k, j)
         /\ TrainedOn(n, k, k) + TestSize(n, k) = n
<1> DEFINE size == TestSize(n, k)
<1>1. size \in Nat /\ size >= 1 /\ (k + 1) * size <= n
  <2>1. n \div (k + 1) \in Nat /\ (k + 1) * (n \div (k + 1)) <= n
        /\ n < (k + 1) * (n \div (k + 1)) + (k + 1)
    OBVIOUS
  <2>2. n \div (k + 1) # 0
    BY <2>1
  <2> QED
    BY <2>1, <2>2 DEF TestSize
<1> HIDE DEF size
<1>2. ASSUME NEW x \in Nat, NEW y \in Nat, x <= y PROVE x * size <= y * size
  BY <1>1, <1>2
<1>3. \A x \in Nat : (x + 1) * size = x * size + size
  BY <1>1
<1>4. \A i \in 1 .. k : TrainedOn(n, k, i) = n - (k + 1 - i) * size
  BY DEF TrainedOn, size
<1>5. ASSUME NEW i \in 1 .. k
      PROVE  /\ TrainedOn(n, k, i) \in 1 .. n /\ TrainedOn(n, k, i) + size \in 1 .. n
  <2>1. (k + 1 - i) * size \in Nat /\ (k + 1 - i) * size <= k * size
        /\ 1 * size <= (k + 1 - i) * size
    BY <1>1, <1>2
  <2>2. k * size + size <= n
    BY <1>1, <1>3
  <2> QED
    BY <1>1, <1>4, <2>1, <2>2
<1>6. ASSUME NEW i \in 1 .. k, NEW j \in 1 .. k, i < j
      PROVE  TrainedOn(n, k, i) + size <= TrainedOn(n, k, j)
  <2>1. (k + 1 - j) * size + size = (k + 1 - j + 1) * size
    BY <1>3
  <2>2. (k + 1 - j + 1) * size <= (k + 1 - i) * size
    BY <1>2, <1>6
  <2>3. (k + 1 - j) * size \in Nat /\ (k + 1 - i) * size \in Nat
    BY <1>1
  <2> QED
    BY <1>1, <1>4, <2>1, <2>2, <2>3
<1>7. TrainedOn(n, k, k) + size = n
  BY <1>1, <1>4
<1> QED
  BY <1>1, <1>5, <1>6, <1>7 DEF size

\* splits.py:14-27, cv.py:43-58: no fold is fitted on a row later than one it is tested
\* on, every fold has rows of both, no row is tested twice, and the last is.
THEOREM FoldsLookBack ==
  ASSUME NEW times \in Seq(Int), NEW k \in Nat, Accepts(times, k)
  PROVE  LET n == Len(times)
         IN /\ \A i \in 1 .. k :
                 /\ 1 \in Train(n, k, i) /\ Train(n, k, i) \subseteq 1 .. n
                 /\ Test(n, k, i) # {} /\ Test(n, k, i) \subseteq 1 .. n
                 /\ \A a \in Train(n, k, i), b \in Test(n, k, i) :
                      a < b /\ times[a] <= times[b]
            /\ \A i, j \in 1 .. k : i < j => Test(n, k, i) \subseteq Train(n, k, j)
            /\ n \in Test(n, k, k)
<1> DEFINE n == Len(times)
<1>1. n \in Nat /\ k > 1 /\ k + 1 <= n /\ IsSorted(times)
  BY DEF Accepts
<1>2. /\ TestSize(n, k) \in Nat /\ TestSize(n, k) >= 1
      /\ \A i \in 1 .. k : /\ TrainedOn(n, k, i) \in 1 .. n
                           /\ TrainedOn(n, k, i) + TestSize(n, k) \in 1 .. n
      /\ \A i, j \in 1 .. k : i < j =>
           TrainedOn(n, k, i) + TestSize(n, k) <= TrainedOn(n, k, j)
      /\ TrainedOn(n, k, k) + TestSize(n, k) = n
  BY <1>1, FoldsInPlace
<1> HIDE DEF n
<1>3. ASSUME NEW i \in 1 .. k
      PROVE  /\ 1 \in Train(n, k, i) /\ Train(n, k, i) \subseteq 1 .. n
             /\ TrainedOn(n, k, i) + 1 \in Test(n, k, i) /\ Test(n, k, i) \subseteq 1 .. n
             /\ \A a \in Train(n, k, i), b \in Test(n, k, i) : a < b
  <2> DEFINE t == TrainedOn(n, k, i)
             u == TestSize(n, k)
  <2>1. t \in Nat /\ u \in Nat /\ t >= 1 /\ u >= 1 /\ t + u <= n
    BY <1>1, <1>2
  <2>2. Train(n, k, i) = 1 .. t /\ Test(n, k, i) = (t + 1) .. (t + u)
    BY DEF Train, Test
  <2> HIDE DEF t, u
  <2>3. 1 \in 1 .. t /\ t + 1 \in (t + 1) .. (t + u)
    BY <2>1
  <2>4. 1 .. t \subseteq 1 .. n /\ (t + 1) .. (t + u) \subseteq 1 .. n
    BY <1>1, <2>1
  <2>5. \A a \in 1 .. t, b \in (t + 1) .. (t + u) : a < b
    BY <2>1
  <2> QED
    BY <2>2, <2>3, <2>4, <2>5 DEF t
<1>4. ASSUME NEW i \in 1 .. k, NEW a \in Train(n, k, i), NEW b \in Test(n, k, i)
      PROVE  times[a] <= times[b]
  <2>1. a \in 1 .. Len(times) /\ b \in a .. Len(times)
    BY <1>3 DEF n
  <2> QED
    BY <1>1, <2>1, SortedAtOnce
<1>5. ASSUME NEW i \in 1 .. k, NEW j \in 1 .. k, i < j
      PROVE  Test(n, k, i) \subseteq Train(n, k, j)
  <2> DEFINE t == TrainedOn(n, k, i)
             u == TestSize(n, k)
             v == TrainedOn(n, k, j)
  <2>1. t \in Nat /\ u \in Nat /\ v \in Nat /\ t + u <= v
    BY <1>1, <1>2, <1>5
  <2>2. Test(n, k, i) = (t + 1) .. (t + u) /\ Train(n, k, j) = 1 .. v
    BY DEF Train, Test
  <2> HIDE DEF t, u, v
  <2> QED
    BY <2>1, <2>2
<1>6. n \in Test(n, k, k)
  <2>0. k \in 1 .. k
    BY <1>1
  <2>1. TrainedOn(n, k, k) \in Nat /\ TestSize(n, k) \in Nat /\ TestSize(n, k) >= 1
    BY <1>1, <1>2, <2>0
  <2> QED
    BY <1>2, <2>1 DEF Test
<1> QED
  BY <1>3, <1>4, <1>5, <1>6 DEF n

-----------------------------------------------------------------------------
(* Columns and intervals.                                                  *)

\* aggregate.py:26-32: each of the 65 columns is added to exactly one group.
THEOREM EveryColumnHasOneGroup ==
  \A c \in 0 .. (Dim - 1) :
    \E g \in DOMAIN ColumnGroups : /\ c \in ColumnsOf(g)
                                   /\ \A h \in DOMAIN ColumnGroups : c \in ColumnsOf(h) => h = g
BY DEF Dim, ColumnGroups, ColumnsOf

\* conformal.py:91-96: whatever is observed, alpha_t stays off both ends.
THEOREM AlphaStaysInside ==
  ASSUME NEW alpha \in 1 .. (Unit - 1), NEW y \in Int, NEW lower \in Int, NEW upper \in Int
  PROVE  /\ Update(alpha, y, lower, upper) \in 1 .. (Unit - 1)
         /\ y \in lower .. upper => Update(alpha, y, lower, upper) >= alpha
         /\ y \notin lower .. upper => Update(alpha, y, lower, upper) <= alpha
<1>1. (Nominal \div 200) = 5 /\ (Nominal - Unit) \div 200 = -45
  BY DEF Nominal, Unit
<1>2. y \in lower .. upper <=> lower <= y /\ y <= upper
  OBVIOUS
<1>3. /\ Clip(alpha + 5) \in 1 .. (Unit - 1) /\ Clip(alpha + 5) >= alpha
      /\ Clip(alpha - 45) \in 1 .. (Unit - 1) /\ Clip(alpha - 45) <= alpha
  <2>1. \A a \in Int : Clip(a) \in 1 .. (Unit - 1)
    BY SMTT(40) DEF Clip, Unit
  <2>2. Clip(alpha + 5) >= alpha
    BY SMTT(40) DEF Clip, Unit
  <2>3. Clip(alpha - 45) <= alpha
    BY SMTT(40) DEF Clip, Unit
  <2> QED
    BY <2>1, <2>2, <2>3
<1>4. CASE y \in lower .. upper
  <2>1. Update(alpha, y, lower, upper) = Clip(alpha + 5)
    BY <1>1, <1>2, <1>4 DEF Update
  <2> QED
    BY Zenon, <1>3, <1>4, <2>1
<1>5. CASE y \notin lower .. upper
  <2>1. Update(alpha, y, lower, upper) = Clip(alpha + (-45))
    BY <1>1, <1>2, <1>5 DEF Update
  <2>2. alpha + (-45) = alpha - 45
    OBVIOUS
  <2> QED
    BY Zenon, <1>3, <1>5, <2>1, <2>2
<1> QED
  BY <1>4, <1>5

\* conformal.py:78-89: the interval holds the point; and however often it was missed, it is
\* no wider than the largest residual of the calibration.
THEOREM BracketIsBounded ==
  ASSUME NEW residuals \in Seq(Nat), Len(residuals) > 0, NEW most \in Nat,
         \A i \in 1 .. Len(residuals) : residuals[i] <= most,
         NEW alpha \in 1 .. (Unit - 1), NEW point \in Int
  PROVE  LET b == Bracket(point, residuals, alpha)
         IN /\ b[1] <= Unit * point /\ Unit * point <= b[2]
            /\ b[2] - b[1] <= 2 * Unit * most
<1> DEFINE at == (Len(residuals) - 1) * (Unit - alpha)
           i == at \div Unit + 1
           above == at % Unit
<1>1. Unit - alpha \in 1 .. (Unit - 1) /\ Len(residuals) - 1 \in Nat
  BY DEF Unit
<1>2. at \in Nat /\ at <= (Len(residuals) - 1) * Unit
  <2>1. ASSUME NEW l \in Nat, NEW x \in Nat, NEW z \in Nat, x <= z
        PROVE  l * x \in Nat /\ l * x <= l * z
    BY <2>1
  <2>2. Unit - alpha \in Nat /\ Unit \in Nat /\ Unit - alpha <= Unit
    BY DEF Unit
  <2> QED
    BY <1>1, <2>1, <2>2
<1> HIDE DEF at
<1>3. at \div Unit \in 0 .. (Len(residuals) - 1) /\ above \in 0 .. (Unit - 1)
      /\ (above # 0 => at \div Unit < Len(residuals) - 1)
  BY <1>1, <1>2 DEF Unit
<1>4. Quantile(residuals, alpha) =
        residuals[i] * (Unit - above) + (IF above = 0 THEN 0 ELSE residuals[i + 1] * above)
  BY DEF Quantile, at
<1>5. i \in 1 .. Len(residuals) /\ (above # 0 => i + 1 \in 1 .. Len(residuals))
  BY <1>3
<1> HIDE DEF i, above
<1>6. ASSUME NEW a \in Nat, NEW b \in Nat, a <= most, b <= most
      PROVE  /\ a * (Unit - above) + b * above \in Nat
             /\ a * (Unit - above) + b * above <= most * Unit
  <2> DEFINE below == Unit - above
  <2>1. above \in Nat /\ below \in Nat /\ below + above = Unit
    BY <1>3 DEF Unit
  <2> HIDE DEF below
  <2>2. a * below \in Nat /\ b * above \in Nat
    BY <2>1
  <2>3. a * below <= most * below /\ b * above <= most * above
    BY <1>6, <2>1
  <2>4. most * below + most * above = most * Unit
    BY <2>1 DEF Unit
  <2>5. most * below \in Nat /\ most * above \in Nat
    BY <2>1
  <2>6. a * below + b * above \in Nat /\ a * below + b * above <= most * Unit
    BY <2>2, <2>3, <2>4, <2>5
  <2> QED
    BY <2>6 DEF below
<1>7. Quantile(residuals, alpha) \in Nat /\ Quantile(residuals, alpha) <= most * Unit
  <2>1. CASE above = 0
    BY SMTT(30), <1>4, <1>5, <1>6, <2>1
  <2>2. CASE above # 0
    <3>1. /\ residuals[i] \in Nat /\ residuals[i] <= most
          /\ residuals[i + 1] \in Nat /\ residuals[i + 1] <= most
      BY <1>5, <2>2
    <3> QED
      BY <1>4, <1>6, <2>2, <3>1
  <2> QED
    BY <2>1, <2>2
<1> QED
  BY <1>7 DEF Bracket, Unit

-----------------------------------------------------------------------------
(* Lineage.                                                                *)

\* train.py:275-295, lineage_store.py:83-93: two runs share their input if and only if they
\* name the same sizes; the rows they read, the slice among them, play no part.
THEOREM SharingIsByName ==
  ASSUME NEW edges, NEW none, NEW c, NEW d, NEW p, NEW q, p # none, q # none,
         \E i \in DOMAIN edges : edges[i] = Edge(c, p),
         \A i \in DOMAIN edges : edges[i].run = q => edges[i] = Edge(d, q),
         \E i \in DOMAIN edges : edges[i] = Edge(d, q)
  PROVE  q \in RunsSharingInput(edges, Edge(c, p).input, none) <=> d.data = c.data
BY DEF RunsSharingInput, Edge
=============================================================================
