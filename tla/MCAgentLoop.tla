----------------------------- MODULE MCAgentLoop -----------------------------
(* Two calls of train, with different arguments, one of evaluate, and one of a tool that *)
(* measures nothing.                                                                     *)
EXTENDS AgentLoop, SearchChecks

CONSTANTS t1, t2, ev, pr

MCTrains == {t1, t2}
MCEvals == {ev}
MCCalls == {t1, t2, ev, pr}

MCToolOf == [c \in Calls |-> CASE c \in MCTrains -> "train"
                               [] c = ev -> "evaluate"
                               [] c = pr -> "preprocess"]

\* improve.py:156-158: nothing has the mean 0, a single metric is compared with it, and of
\* more of them some step falls short of eps where they are a plateau.
ASSUME PlateausFallShort ==
  \A w \in BoundedSeq(0..3, 5) :
    Plateaued(w) => IF Len(w) > 1 THEN \E i \in 1..(Len(w) - 1) : w[i] - w[i + 1] < Eps
                                  ELSE Sum(w) < Eps
=============================================================================
