----------------------------- MODULE DataChecks -----------------------------
(* TrainingData on small inputs, evaluated once by each run that extends this module. *)
LOCAL INSTANCE TrainingData
LOCAL INSTANCE Integers
LOCAL INSTANCE Sequences
LOCAL INSTANCE FiniteSetsExt

\* pipeline.py:63-114, aggregate.py:26-34: the cells the transformers emit fill the 65
\* columns, each inside the group that aggregate_shap adds it to.
ASSUME LayoutMatchesGroups ==
  /\ {Column(c) : c \in Cells} = 0 .. (Dim - 1)
  /\ \A c \in Cells : Column(c) \in ColumnsOf(Blocks[c[1]][1])

\* pipeline.py:74-84: every weekday and every month has its column, so none is all zeros.
ASSUME DatesAreKnown ==
  /\ \A w \in 1 .. 7 : MapThenSumSet(LAMBDA c : OneHot(0 .. 6, DayOfWeek(w))[c], 0 .. 6) = 1
  /\ \A m \in 1 .. 12 : MapThenSumSet(LAMBDA c : OneHot(1 .. 12, m)[c], 1 .. 12) = 1

\* aggregate.py:38-54: nothing of an attribution is lost or counted twice.
ASSUME AggregateAddsUp ==
  LET values == [c \in 0 .. (Dim - 1) |-> c * c - 500]
  IN MapThenSumSet(LAMBDA g : Aggregate(values)[g], DOMAIN ColumnGroups)
       = MapThenSumSet(LAMBDA c : values[c], 0 .. (Dim - 1))

\* conformal.py:78-89: less miscoverage never makes an interval narrower.
ASSUME IntervalsNest ==
  \A r \in {s \in [1 .. 3 -> 0 .. 2] : s[1] <= s[2] /\ s[2] <= s[3]} :
    \A a, b \in {1, 900, 1000, 4999, 5000, 5001, 9999} :
      a <= b => Quantile(r, a) >= Quantile(r, b)

\* conformal.py:91-96: 23 misses in a row bring alpha_t to its floor, where it stays.
ASSUME MissesReachTheFloor ==
  LET after[k \in 0 .. 30] == IF k = 0 THEN Nominal ELSE Update(after[k - 1], 1, 0, 0)
  IN after[22] > 1 /\ \A k \in 23 .. 30 : after[k] = 1

\* splits.py:14-27: five folds of twelve rows.
ASSUME FoldsOfTwelve ==
  [i \in 1 .. 5 |-> <<Train(12, 5, i), Test(12, 5, i)>>] =
    [i \in 1 .. 5 |-> <<1 .. (2 * i), (2 * i + 1) .. (2 * i + 2)>>]

LOCAL Row(trip, month) ==
  [trip |-> trip, key |-> trip, time |-> month, month |-> month, fare |-> 1000,
   passengers |-> 1, complete |-> TRUE, pickup |-> <<40700, -74000>>,
   dropoff |-> <<40800, -73900>>]

\* migrate.py:26-46: two months of training rows, then validation rows of the second one:
\* the training rows of that month are gone.
ASSUME MigrationLosesAMonth ==
  LET data == [size |-> "1k", validation_size |-> "1k"]
      empty == [p \in {"1k"} \X (1 .. 2) |-> {}]
      train == Migrate(empty, {Row("a", 1), Row("b", 2)}, "train", "1k")
      both == Migrate(train, {Row("c", 2)}, "val", "1k")
      trips(store, split) == {r.trip : r \in LocalLoad(store, data, split)}
  IN /\ trips(train, "train") = {"a", "b"}
     /\ trips(both, "train") = {"a"} /\ trips(both, "val") = {"c"}

\* preprocess.py:82-85: a trip that is in train_1k.csv and in val_10k.csv is loaded for both
\* splits; of rows that were written without a tag, every one is.
ASSUME FilesMayOverlap ==
  LET data == [size |-> "1k", validation_size |-> "10k"]
      empty == [p \in {"1k", "10k"} \X {1} |-> {}]
      store == Migrate(Migrate(empty, {Row("a", 1), Row("b", 1)}, "train", "1k"),
                       {Row("b", 1), Row("c", 1)}, "val", "10k")
      untagged == Write(empty, {Row("d", 1), Row("e", 1)}, "10k")
      trips(s, split) == {r.trip : r \in LocalLoad(s, data, split)}
  IN /\ trips(store, "train") = {"a", "b"} /\ trips(store, "val") = {"b", "c"}
     /\ trips(untagged, "val") = {"d", "e"}
     /\ LocalLoad(untagged, [data EXCEPT !.size = "10k"], "train") = LocalLoad(untagged, data, "val")

\* bigquery.py:62-69: a query returns the earliest rows of its slice, whatever the split.
ASSUME QueriesOverlap ==
  LET table == {Row(t, t) : t \in 1 .. 4}
      data == [size |-> "1k", validation_size |-> "10k"]
      loads(split) == {R \in SUBSET Clean(table) : QueryLoads(R, table, <<1, 4>>, data, split)}
  IN /\ loads("train") = {Clean({r \in table : r.time < 4})} /\ loads("val") = loads("train")
     /\ Earliest({r \in table : r.time < 3}, table, 2)
     /\ ~Earliest({r \in table : r.time > 2}, table, 2)

\* train.py:275-295, provenance.py:41-66: runs with the same manifest have the same edge;
\* runs of two backends have the same edge and two manifests.
ASSUME ManifestTellsMore ==
  LET cfgs == [data : {"d", "e"}, seed : {1, 2}, backend : {"xgb", "lgbm"}]
      edge(c) == Edge(c, "r")
      manifest(c) == Provenance(c, "r")
  IN /\ \A c, d \in cfgs : manifest(c) = manifest(d) => edge(c) = edge(d)
     /\ \A c \in cfgs : \E d \in cfgs : edge(c) = edge(d) /\ manifest(c) # manifest(d)
=============================================================================
