------------------------------ MODULE Artifacts ------------------------------
(***************************************************************************)
(* The ONNX files of a model: which converter each backend is exported by  *)
(* (models/onnx_export.py), and the quantization of a file with the rows   *)
(* its reader hands out (serving/quantize.py).                             *)
(*                                                                         *)
(* Of an exported graph we keep its backend, the name of its input and how *)
(* many rows it takes at once.                                             *)
(***************************************************************************)
EXTENDS Integers, Sequences

Smaller(a, b) == IF a < b THEN a ELSE b

\* No file: the exporter raises.
Refused == [kind |-> "none"]

AnyRows == "any"
Graph(kind, input, opset) == [kind |-> kind, input |-> input, opset |-> opset, rows |-> AnyRows]

Opset == 17
\* The opset is left to the converter.
OwnOpset == 0

\* One route for each converter.
TfMlp(kind) == Graph(kind, "input", Opset)
Torch(kind) == Graph(kind, "input", Opset)
Trees(kind) == Graph(kind, "input", OwnOpset)
\* The name is CatBoost's.
CatBoost(kind) == Graph(kind, "features", OwnOpset)

\* export_to_onnx, for the kind of the estimator's configuration.
Export(kind) ==
  CASE kind = "tf_mlp" -> TfMlp(kind)
    [] kind \in {"torch_mlp", "ft_transformer"} -> Torch(kind)
    [] kind \in {"xgb", "lgbm"} -> Trees(kind)
    [] kind = "catboost" -> CatBoost(kind)
    [] OTHER -> Refused

-----------------------------------------------------------------------------
(* Quantization.                                                           *)

Quantizable == {"tf_mlp", "torch_mlp", "ft_transformer"}
Batch == 32

\* get_next: the rows from the cursor on, and where it stands then.
Next(cursor, n) == [rows |-> (cursor + 1) .. Smaller(cursor + Batch, n),
                    cursor |-> Smaller(cursor + Batch, n)]

\* All that the reader hands out of n rows, from each place of its cursor.
Reads(n) ==
  LET from[c \in 0 .. n] ==
        IF c >= n THEN <<>> ELSE <<Next(c, n).rows>> \o from[Next(c, n).cursor]
  IN from[0]

\* quantize: the path of the file to use; a tree's is handed back as it came.  A graph that
\* has no input of the name the rows are fed by cannot be run.
Quantize(kind, graph, src, dst, name) ==
  IF kind \notin Quantizable THEN src
  ELSE IF graph.input = name THEN dst
  ELSE "raises"
=============================================================================
