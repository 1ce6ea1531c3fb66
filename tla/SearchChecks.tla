---------------------------- MODULE SearchChecks ----------------------------
(* Search on small inputs, evaluated once by each run that extends this module. *)
LOCAL INSTANCE Search
LOCAL INSTANCE Integers
LOCAL INSTANCE Sequences

\* config.py:29-80, hpo.py:43-102: a study searches fields its backend has, and what the
\* backend is by default is among what it can find.
ASSUME DefaultsAreInReach ==
  /\ DOMAIN Space = Kinds
  /\ \A kind \in Kinds : /\ Validates(kind, Default[kind]) /\ Builds(Default[kind])
                         /\ \A f \in DOMAIN Space[kind] : Default[kind][f] \in Space[kind][f]

\* hpo.py:159-168: of a study with a failed trial, by either direction; one in which every
\* trial failed, or one raised, returns nothing.
ASSUME FailedTrialsDoNotCount ==
  LET trial(rate, value) == [params |-> [learning_rate |-> rate], value |-> value]
      result(i, trials) ==
        [best_value |-> trials[i].value, best_params |-> trials[i].params,
         best_backend_cfg |-> [Default["lgbm"] EXCEPT
                                 !.learning_rate = trials[i].params.learning_rate],
         n_trials |-> Len(trials)]
      best(trials, direction) ==
        {i \in DOMAIN trials : Tunes(result(i, trials), Default["lgbm"], trials, direction)}
      two == <<trial(100, 7), trial(200, Diverged)>>
  IN /\ best(two \o <<trial(300, 4)>>, "minimize") = {3}
     /\ best(two \o <<trial(300, 4)>>, "maximize") = {1}
     /\ best(<<trial(1, Diverged), trial(2, Diverged)>>, "minimize") = {}
     /\ best(two \o <<trial(300, Raised)>>, "minimize") = {}

LOCAL Fit(losses) ==
  LET after[e \in 0 .. Len(losses)] ==
        IF e = 0 THEN Start
        ELSE IF after[e - 1].left = 0 THEN after[e - 1] ELSE Epoch(after[e - 1], losses)
  IN after

\* torch_mlp.py:80-106: the loop reads a loss as better by more than a millionth, so five
\* epochs that each gain one are five without gain.
ASSUME SlowGainsStop ==
  LET losses == <<9, 8, 7, 6, 5, 4, 3, 2, 1, 0>>
      fit == Fit(losses)
  IN /\ IsFit(fit, losses)
     /\ [e \in 1 .. 10 |-> fit[e].kept] = <<1, 1, 3, 3, 5, 5, 7, 7, 9, 9>>
     /\ Fit(<<9, 9, 8, 8, 8, 8, 1>>)[7] = [epoch |-> 6, kept |-> 1, left |-> 0]
     /\ Fit(<<Diverged, Diverged, Diverged, Diverged, Diverged, 1>>)[6].kept = 0

LOCAL Runs == [a |-> [kind |-> "lgbm", mae |-> 3], b |-> [kind |-> "lgbm", mae |-> Missing],
               c |-> [kind |-> "lgbm", mae |-> 2], d |-> [kind |-> "xgb", mae |-> 5]]

\* memory.py:78-97: three runs of LightGBM ahead of one of XGBoost, the last of them without
\* a metric: the proposal depends on whether it is among the top three.
ASSUME ProposalsOfFourRuns ==
  LET tops(k) == {top \in [1 .. k -> DOMAIN Runs] : IsTop(top, Runs, k)}
  IN /\ tops(3) = {<<"c", "a", "d">>}
     /\ {Propose(top, Runs) : top \in tops(3)} = {"lgbm"}
     /\ {Propose(top, Runs) : top \in tops(2)} = {"lgbm"}
     /\ Propose(<<>>, Runs) = "xgb"

\* memory.py:112-119: a key only one run has is a difference.
ASSUME MissingParametersDiffer ==
  Diff(<<[kind |-> "xgb", seed |-> "1"], [kind |-> "xgb"]>>, "none") = {"seed"}
=============================================================================
