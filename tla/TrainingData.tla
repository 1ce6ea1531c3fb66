---------------------------- MODULE TrainingData ----------------------------
(***************************************************************************)
(* What a model is fitted on and judged by: the Parquet store (data/io.py, *)
(* migrate.py), BigQuery (bigquery.py), clean() and its schema, the slice  *)
(* held back for calibration (training/train.py), the folds of a cross-    *)
(* validation (splits.py, cv.py), the 65 columns and the groups SHAP adds  *)
(* them up by, the conformal interval (conformal.py) and the lineage of a  *)
(* run.  None of it has a state of its own but the store and the table of  *)
(* edges, which are arguments here.                                        *)
(*                                                                         *)
(* A row is a record with the fields trip, key, time, month, fare (cents), *)
(* passengers, complete (no field is null), pickup and dropoff (latitude   *)
(* and longitude in thousandths of a degree) and, once migrated, split.    *)
(***************************************************************************)
EXTENDS Integers, Sequences, FiniteSetsExt

Smaller(a, b) == IF a < b THEN a ELSE b

-----------------------------------------------------------------------------
(* The Parquet store: a set of rows per size and month, one file each.     *)

Sizes == {"1k", "10k", "100k", "500k", "full"}
Splits == {"train", "val"}

\* write_partitioned: a file that is there already is replaced.
Write(store, rows, size) ==
  [p \in DOMAIN store |->
     LET part == {r \in rows : r.month = p[2]}
     IN IF p[1] = size /\ part # {} THEN part ELSE store[p]]

\* migrate: the rows of a legacy CSV get a column that says which split they are of.
Tagged(csv, split) == {[f \in DOMAIN r \cup {"split"} |-> IF f = "split" THEN split ELSE r[f]]
                         : r \in csv}
Migrate(store, csv, split, size) == Write(store, Tagged(csv, split), size)

\* scan: the partitions of one size.
Scan(store, size) == UNION {store[p] : p \in {q \in DOMAIN store : q[1] = size}}

-----------------------------------------------------------------------------
(* clean() and the schemas.                                                *)

InBox(point) == point[1] \in 40500 .. 40900 /\ point[2] \in -74300 .. -73700

\* The filter.
Kept(r) == /\ r.complete
           /\ r.fare > 0 /\ r.fare <= 40000
           /\ r.passengers >= 1 /\ r.passengers <= 8
           /\ InBox(r.pickup) /\ InBox(r.dropoff)

\* A row without its key: rows that differ in nothing else become one.
Keyless(r) == [f \in DOMAIN r \ {"key"} |-> r[f]]

\* clean: a set, for unique() keeps no order.
Clean(rows) == {Keyless(r) : r \in {q \in rows : Kept(q)}}

\* The checks of CleanSchema.
InSchema(r) == /\ r.fare \in 1 .. 40000 /\ r.passengers \in 1 .. 8
               /\ InBox(r.pickup) /\ InBox(r.dropoff) /\ "key" \notin DOMAIN r

-----------------------------------------------------------------------------
(* load(): one split of the store, or a slice of the BigQuery table.       *)

\* A DataRef names a size for each split.
SizeOf(data, split) == IF split = "train" THEN data.size ELSE data.validation_size

\* LIMIT: how many of n rows a query of this size returns.
Limited(size, n) == CASE size = "1k" -> Smaller(1000, n)
                      [] size = "10k" -> Smaller(10000, n)
                      [] size = "100k" -> Smaller(100000, n)
                      [] size = "500k" -> Smaller(500000, n)
                      [] size = "full" -> n

\* S is the first n rows of `rows` by ORDER BY pickup_datetime, ties in any order.
Earliest(S, rows, n) == /\ S \subseteq rows /\ Cardinality(S) = n
                        /\ \A r \in S : \A x \in rows \ S : r.time <= x.time

\* scan_bigquery: what a query for this slice and size may return.
QueryReturns(S, table, slice, size) ==
  LET hits == {r \in table : slice[1] <= r.time /\ r.time < slice[2]}
  IN Earliest(S, hits, Limited(size, Cardinality(hits)))

\* load with DATA_SOURCE=query: the split only says which size to ask for.
QueryLoads(R, table, slice, data, split) ==
  \E S \in SUBSET table : QueryReturns(S, table, slice, SizeOf(data, split)) /\ R = Clean(S)

\* load from the store: the rows of the split, if rows have one.
LocalLoad(store, data, split) ==
  LET rows == Scan(store, SizeOf(data, split))
  IN Clean({r \in rows : (\A q \in rows : "split" \in DOMAIN q) => r.split = split})

-----------------------------------------------------------------------------
(* _calibrate_aci and _publish_to_state: the rows of the validation split, *)
(* numbered in the order they were loaded in.                              *)

CalibrationRows(n) == (3 * n) \div 10
IsCalibrated(n) == CalibrationRows(n) >= 30

\* The tail ...
Calibration(n) == IF IsCalibrated(n) THEN (n - CalibrationRows(n) + 1) .. n ELSE {}
\* ... and the head, which the metric of the run is computed on.
Metric(n) == IF IsCalibrated(n) THEN 1 .. (n - CalibrationRows(n)) ELSE 1 .. n
\* evaluate(), which the agent's tool calls, takes the whole split.
Evaluated(n) == 1 .. n
\* The background of SHAP.
Background(n) == 1 .. Smaller(200, n)

-----------------------------------------------------------------------------
(* Cross-validation in time.                                               *)

IsSorted(times) == \A i \in 1 .. (Len(times) - 1) : times[i] <= times[i + 1]

\* TimeSeriesSplit of n rows in k folds: fold i is tested on the block after the rows it
\* is trained on.
TestSize(n, k) == n \div (k + 1)
TrainedOn(n, k, i) == n - (k + 1 - i) * TestSize(n, k)
Train(n, k, i) == 1 .. TrainedOn(n, k, i)
Test(n, k, i) == (TrainedOn(n, k, i) + 1) .. (TrainedOn(n, k, i) + TestSize(n, k))

\* time_series_splits refuses rows that are not sorted, TimeSeriesSplit too few of them.
Accepts(times, k) == IsSorted(times) /\ k > 1 /\ k + 1 <= Len(times)

\* run_cv: without times it takes the rows for sorted.
Times(given, n) == IF given = <<>> THEN [i \in 1 .. n |-> i] ELSE given

-----------------------------------------------------------------------------
(* The columns of preprocess_features, block by block, and COLUMN_GROUPS.  *)

\* What each transformer of the pipeline appends: the weekday and the month one-hot, the
\* year, the hour's sine and cosine, two distances, two one-hot districts.
Blocks == << <<"passenger", 1>>, <<"pickup_datetime", 7>>, <<"pickup_datetime", 12>>,
             <<"pickup_datetime", 1>>, <<"pickup_datetime", 2>>, <<"distance", 2>>,
             <<"pickup_location", 20>>, <<"dropoff_location", 20>> >>

\* The cells of the blocks, and the column a cell comes to lie in.
Cells == UNION {{b} \X (1 .. Blocks[b][2]) : b \in DOMAIN Blocks}
Column(cell) == Cardinality({c \in Cells : \/ c[1] < cell[1]
                                           \/ c[1] = cell[1] /\ c[2] < cell[2]})

ColumnGroups == [passenger |-> <<0, 1>>, pickup_datetime |-> <<1, 23>>,
                 distance |-> <<23, 25>>, pickup_location |-> <<25, 45>>,
                 dropoff_location |-> <<45, 65>>]
Dim == 65
ColumnsOf(group) == ColumnGroups[group][1] .. (ColumnGroups[group][2] - 1)

\* aggregate_shap for one row.
Aggregate(values) ==
  [g \in DOMAIN ColumnGroups |-> MapThenSumSet(LAMBDA c : values[c], ColumnsOf(g))]

\* Polars counts weekdays from 1 (Monday), the encoder's categories from 0.
DayOfWeek(weekday) == weekday - 1
\* OneHotEncoder with given categories: a value it does not know is all zeros.
OneHot(categories, value) == [c \in categories |-> IF c = value THEN 1 ELSE 0]

-----------------------------------------------------------------------------
(* The conformal interval, in ten-thousandths.                             *)

Unit == 10000
Nominal == 1000

\* np.clip of alpha_t.
Clip(x) == IF x < 1 THEN 1 ELSE IF x > Unit - 1 THEN Unit - 1 ELSE x

\* update: gamma is 0.005.
Update(alpha, y, lower, upper) ==
  Clip(alpha + (IF lower <= y /\ y <= upper THEN Nominal ELSE Nominal - Unit) \div 200)

\* np.quantile of the residuals, here sorted, at 1 - alpha_t, with linear interpolation.
Quantile(residuals, alpha) ==
  LET at == (Len(residuals) - 1) * (Unit - alpha)
      i == at \div Unit + 1
      above == at % Unit
  IN residuals[i] * (Unit - above) + (IF above = 0 THEN 0 ELSE residuals[i + 1] * above)

\* bracket.
Bracket(point, residuals, alpha) ==
  << Unit * point - Quantile(residuals, alpha), Unit * point + Quantile(residuals, alpha) >>

-----------------------------------------------------------------------------
(* Lineage: the edge _emit_lineage writes, and what is asked of the table. *)

\* The hashes are of the configuration: the DataRef, a constant, the seed.
Edge(cfg, run) == [input |-> cfg.data, preprocessor |-> "v1", split |-> cfg.seed, run |-> run]

\* emit_provenance: the manifest of the run, with the hash of its whole configuration.
Provenance(cfg, run) ==
  [run |-> run, config |-> cfg, seed |-> cfg.seed, backend |-> cfg.backend]

RunsSharingInput(edges, input, none) ==
  {edges[i].run : i \in {j \in DOMAIN edges : edges[j].input = input}} \ {none}
=============================================================================
