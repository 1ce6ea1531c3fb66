------------------------------- MODULE Search -------------------------------
(***************************************************************************)
(* How a better model is looked for: the backend configurations            *)
(* (schemas/config.py) and the spaces a study draws them from              *)
(* (training/hpo.py), the epoch an MLP keeps (models/torch_mlp.py) and     *)
(* what the agent learns from earlier runs (agent/memory.py).              *)
(*                                                                         *)
(* Rates, dropouts and fractions are in hundred-thousandths, losses in     *)
(* millionths.                                                             *)
(***************************************************************************)
EXTENDS Integers, Sequences, FiniteSets

-----------------------------------------------------------------------------
(* Backends.                                                               *)

\* BACKEND_CONFIGS: what each class is filled with.
Default ==
  [tf_mlp |-> [kind |-> "tf_mlp", hidden |-> <<100, 50, 10>>, dropout |-> 10000, l2 |-> 500,
               learning_rate |-> 100, batch_size |-> 256, patience |-> 2, epochs |-> 100],
   torch_mlp |-> [kind |-> "torch_mlp", hidden |-> <<128, 64>>, dropout |-> 10000,
                  learning_rate |-> 100, batch_size |-> 256, epochs |-> 50, amp |-> TRUE],
   xgb |-> [kind |-> "xgb", n_estimators |-> 500, max_depth |-> 6, learning_rate |-> 5000,
            subsample |-> 80000],
   lgbm |-> [kind |-> "lgbm", n_estimators |-> 500, num_leaves |-> 31, learning_rate |-> 5000],
   catboost |-> [kind |-> "catboost", iterations |-> 500, depth |-> 6, learning_rate |-> 5000],
   ft_transformer |-> [kind |-> "ft_transformer", d_token |-> 192, n_blocks |-> 3,
                       attention_dropout |-> 10000, ffn_dropout |-> 10000,
                       learning_rate |-> 10, batch_size |-> 256, epochs |-> 30]]
Kinds == DOMAIN Default

\* model_validate: a class knows its own kind and takes no field that is not its own.
Validates(kind, cfg) == DOMAIN cfg \subseteq DOMAIN Default[kind] /\ cfg.kind = kind

\* _build_module: eight heads share a token.
Builds(cfg) == cfg.kind = "ft_transformer" => cfg.d_token % 8 = 0

-----------------------------------------------------------------------------
(* A study.                                                                *)

Rounds == {50 * i : i \in 2 .. 20}
TfMlpSpace == [dropout |-> 0 .. 40000, l2 |-> 10 .. 1000, learning_rate |-> 10 .. 1000,
               batch_size |-> {128, 256, 512}]
TorchMlpSpace == [dropout |-> 0 .. 40000, learning_rate |-> 10 .. 1000,
                  batch_size |-> {128, 256, 512}]
XgbSpace == [n_estimators |-> Rounds, max_depth |-> 3 .. 10,
             learning_rate |-> 100 .. 30000, subsample |-> 50000 .. 100000]
LgbmSpace == [n_estimators |-> Rounds, num_leaves |-> 15 .. 127,
              learning_rate |-> 100 .. 30000]
CatboostSpace == [iterations |-> Rounds, depth |-> 3 .. 10, learning_rate |-> 100 .. 30000]
FtSpace == [d_token |-> {64, 128, 192, 256}, n_blocks |-> 1 .. 4,
            attention_dropout |-> 0 .. 30000, ffn_dropout |-> 0 .. 30000,
            learning_rate |-> 1 .. 100]
Space == [tf_mlp |-> TfMlpSpace, torch_mlp |-> TorchMlpSpace, xgb |-> XgbSpace,
          lgbm |-> LgbmSpace, catboost |-> CatboostSpace, ft_transformer |-> FtSpace]

\* What space_fn may suggest to a trial.
Suggests(kind, params) == /\ DOMAIN params = DOMAIN Space[kind]
                          /\ \A f \in DOMAIN params : params[f] \in Space[kind][f]

\* {**base, **params}.
Merged(base, params) ==
  [f \in DOMAIN base \cup DOMAIN params |-> IF f \in DOMAIN params THEN params[f] ELSE base[f]]

\* A trial whose objective is not a number has failed; the study goes on without it.
Diverged == -1
\* An exception of model_validate or of the objective: study.optimize is told to catch none.
Raised == -2
Completed(trials) == {i \in DOMAIN trials : trials[i].value \notin {Diverged, Raised}}

\* study.optimize: an exception ends it, and tune() with it.
Optimizes(trials) == \A i \in DOMAIN trials : trials[i].value # Raised

\* study.best_trial, which raises when no trial has completed.
IsBest(i, trials, direction) ==
  /\ i \in Completed(trials)
  /\ \A j \in Completed(trials) : IF direction = "minimize"
                                    THEN trials[i].value <= trials[j].value
                                    ELSE trials[i].value >= trials[j].value

\* tune: what it may return.
Tunes(result, base, trials, direction) ==
  /\ Optimizes(trials)
  /\ \E i \in DOMAIN trials :
       /\ IsBest(i, trials, direction)
       /\ result = [best_value |-> trials[i].value, best_params |-> trials[i].params,
                    best_backend_cfg |-> Merged(base, trials[i].params),
                    n_trials |-> Len(trials)]

-----------------------------------------------------------------------------
(* The epochs of a torch MLP that is given validation rows.                *)

Patience == 5
Start == [epoch |-> 0, kept |-> 0, left |-> Patience]

\* An epoch: `losses` are those of the validation rows; a loss that is no number is no
\* better than any.
Improves(s, losses, e) ==
  losses[e] # Diverged /\ (s.kept # 0 => losses[e] + 1 < losses[s.kept])
Epoch(s, losses) ==
  LET e == s.epoch + 1
  IN IF Improves(s, losses, e) THEN [epoch |-> e, kept |-> e, left |-> Patience]
                               ELSE [s EXCEPT !.epoch = e, !.left = @ - 1]

\* The loop ends when patience has run out.  after[e] is what has become of it after e turns.
IsFit(after, losses) ==
  /\ after[0] = Start
  /\ \A e \in 1 .. Len(losses) :
       after[e] = IF after[e - 1].left = 0 THEN after[e - 1] ELSE Epoch(after[e - 1], losses)

-----------------------------------------------------------------------------
(* Earlier runs.  A run has a kind and a val_mae, or no such metric.       *)

Missing == -1
Ahead(a, b) == b = Missing \/ (a # Missing /\ a <= b)

\* list_runs: the k runs with the lowest val_mae, best first; runs without one come last.
IsTop(top, runs, k) ==
  LET n == Cardinality(DOMAIN runs)
      listed == {top[i] : i \in DOMAIN top}
  IN /\ top \in [1 .. (IF n < k THEN n ELSE k) -> DOMAIN runs]
     /\ \A i, j \in DOMAIN top : i < j => /\ top[i] # top[j]
                                          /\ Ahead(runs[top[i]].mae, runs[top[j]].mae)
     /\ \A i \in listed : \A j \in DOMAIN runs \ listed : Ahead(runs[i].mae, runs[j].mae)

\* propose_next_experiment, from the top three.
Propose(top, runs) ==
  IF DOMAIN top = {} THEN "xgb"
  ELSE IF \A i, j \in DOMAIN top : runs[top[i]].kind = runs[top[j]].kind THEN "lgbm"
  ELSE runs[top[1]].kind

\* _diff_dicts: the keys that not all have, or not with the same value.
Get(d, k, none) == IF k \in DOMAIN d THEN d[k] ELSE none
Diff(dicts, none) ==
  LET keys == UNION {DOMAIN dicts[i] : i \in DOMAIN dicts}
  IN {k \in keys : \E i, j \in DOMAIN dicts : Get(dicts[i], k, none) # Get(dicts[j], k, none)}
=============================================================================
