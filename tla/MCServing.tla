------------------------------ MODULE MCServing ------------------------------
(* Two trainings of one kind and background that differ in configuration, and one of a    *)
(* kind whose weights are not restored and which SHAP, given rows that are no tensors,    *)
(* raises on, with a validation split too small for ACI.                                  *)
EXTENDS Serving, TLC

CONSTANTS j1, j2, j3

MCJobs == {j1, j2, j3}
MCKindOf == [j \in MCJobs |-> IF j = j3 THEN "torch_mlp" ELSE "xgb"]
MCCfgOf == [j \in MCJobs |-> IF j = j2 THEN "tuned" ELSE "default"]
MCBackgroundOf == [j \in MCJobs |-> "holdout"]
MCUnexplained == {[job |-> j3, restored |-> FALSE]}
MCValRows == [j \in MCJobs |-> IF j = j3 THEN 99 ELSE 100]

Symmetry == Permutations(Workers) \cup Permutations(Requests)
=============================================================================
