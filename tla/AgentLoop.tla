------------------------------ MODULE AgentLoop ------------------------------
(***************************************************************************)
(* deepCab/agent: the self-improve loop (improve.py), the tool-call turn   *)
(* it is built from (executor.py), the budget both are held to (budget.py) *)
(* and the trace from which a loop that died is resumed (trace.py).        *)
(*                                                                         *)
(* The LLM and the tools answer whatever they like.  A call is a tool name *)
(* with its arguments, the key of the replay cache.  The trace is reduced  *)
(* to what replay() is read for: events per kind, dollars and the results  *)
(* of the calls that succeeded.                                            *)
(***************************************************************************)
EXTENDS Integers, Sequences, SequencesExt

CONSTANTS Calls,     \* the tool calls the LLM may ask for: a name and arguments
          Tools,     \* the names
          ToolOf,    \* the name of each call
          Trains, Evals, \* the calls of train and of evaluate: their result is a metric
          Metrics,   \* the metrics they may report (lower is better)
          MaxIters, MaxCalls, MaxUsd,  \* BudgetCap
          MaxSteps,  \* max_steps of a turn
          MaxReply,  \* bound: tool calls in one reply
          Costs,     \* what one LLM call may cost
          MaxCost,   \* bound: the most one LLM call costs
          Breaker,   \* circuit_breaker_n
          Window,    \* plateau_window
          Eps,       \* plateau_eps
          MaxCrashes, \* bound: how often a loop dies
          Plain,     \* the result of a call that is no measure
          Error, Timeout, \* the results that report a failure
          None       \* no result, no metric

ASSUME AgentAssumption ==
  /\ ToolOf \in [Calls -> Tools]
  /\ Trains \subseteq Calls /\ Evals \subseteq Calls /\ Trains \cap Evals = {}
  /\ Metrics \subseteq Nat
  /\ MaxIters \in Nat \ {0} /\ MaxCalls \in Nat \ {0} /\ MaxUsd \in Nat \ {0}
  /\ MaxSteps \in Nat /\ MaxReply \in Nat /\ MaxCrashes \in Nat
  /\ MaxCost \in Nat /\ Costs \subseteq 0..MaxCost
  /\ Breaker \in Int /\ Window \in Int /\ Eps \in Int
  /\ None \notin Metrics \cup {Plain}
  /\ Error # Timeout /\ {Error, Timeout} \cap (Metrics \cup {Plain}) = {}

Measures == Trains \cup Evals
Results == Metrics \cup {Plain}
Failures == {Error, Timeout}
Ended == {"done", "exhausted", "plateau", "tripped", "unreadable"}
Live == {"check", "plan", "step", "ask", "call", "run", "record", "measure"}

VARIABLES mode,       \* "turn": POST /agent; "improve": POST /agent/improve
          pc,         \* where the generator is
          iters, calls, usd,  \* Budget
          step,       \* steps of this turn
          pending,    \* msg.tool_calls not handled yet
          answer,     \* the result of the call at hand: a Result or a Failure
          cache,      \* completed_results of this turn
          metric,     \* iter_metric
          metrics,    \* metric_window
          errors,     \* error_counts
          plans, oks, spent,  \* the trace: plan events, ok results, dollars
          recorded,   \* the trace: the result of each call that has one
          torn,       \* the trace: its last line is incomplete
          model,      \* STATE.model: what evaluate reports of it, None when there is none
          begun,      \* history: iterations started, over all lives of the loop
          ran,        \* history: how often each call took effect
          completed,  \* history: tool runs that returned a result in time
          lost,       \* history: effects of tool runs that reported a failure
          disowned,   \* history: since a call last measured STATE.model, a measure was
                      \* replayed in this turn, or a train that published reported a failure
          bill,       \* history: what the LLM provider was asked for in dollars
          waived,     \* history: what of it had no price here, or no usage
          crashes     \* history: how often the loop died

budget == <<iters, calls, usd>>
turn == <<step, pending, answer, cache, metric>>
loop == <<metrics, errors>>
trace == <<plans, oks, spent, recorded, torn>>
history == <<begun, ran, completed, lost, disowned, bill, waived, crashes>>
vars == <<mode, pc, budget, turn, loop, trace, model, history>>

NoResults == [c \in Calls |-> None]
NoErrors == [k \in Tools \X Failures |-> 0]

Init == /\ mode = "improve" /\ pc = "idle"
        /\ iters = 0 /\ calls = 0 /\ usd = 0
        /\ step = 0 /\ pending = <<>> /\ answer = Plain /\ cache = NoResults /\ metric = None
        /\ metrics = <<>> /\ errors = NoErrors
        /\ plans = 0 /\ oks = 0 /\ spent = 0 /\ recorded = NoResults /\ torn = FALSE
        /\ begun = 0 /\ ran = [c \in Calls |-> 0] /\ completed = 0 /\ lost = 0
        /\ disowned = FALSE /\ model = None /\ bill = 0 /\ waived = 0 /\ crashes = 0

Step(from, to) == pc = from /\ pc' = to

\* As in Batcher, an operator named X_<fault> is a faulty variant of X that no action
\* uses.

\* Budget.check_or_raise.
Exhausted == iters >= MaxIters \/ calls >= MaxCalls \/ usd >= MaxUsd

Sum(s) == FoldLeft(+, 0, s)

\* metric_window[-plateau_window:], of a metric_window that is long enough.
Recent(s) == SubSeq(s, (IF Window > 0 THEN Len(s) - Window ELSE -Window) + 1, Len(s))

\* The older half improves on by less than eps; the means are compared without dividing.
\* The mean of nothing is 0, and a single entry is its own older half.
Plateaued(w) ==
  LET half == IF Len(w) > 1 THEN Len(w) \div 2 ELSE 1
      rest == IF Len(w) > half THEN Len(w) - half ELSE 1
      old  == SubSeq(w, 1, IF Len(w) < half THEN Len(w) ELSE half)
      new  == SubSeq(w, half + 1, Len(w))
  IN rest * Sum(old) - half * Sum(new) < Eps * half * rest

-----------------------------------------------------------------------------
\* AgentService.turn and .improve, or the command line: a fresh trace, a fresh budget.
\* A turn has no loop around it.
Start(m) == /\ mode' = m
            /\ Step("idle", IF m = "turn" THEN "step" ELSE "check")
            /\ UNCHANGED <<budget, turn, loop, trace, model, history>>

\* Nothing is booked again.
Restore_nothing == UNCHANGED <<iters, calls, usd>>

\* Only iterations whose planner answered are counted.
Restore_planned == iters' = plans \div 2 /\ calls' = oks /\ usd' = spent

\* Budget.restore: every plan event, every ok result, every priced LLM call.
Restore == iters' = plans /\ calls' = oks /\ usd' = spent

\* run_improve is called again with the loop_run_id of a loop that died; what the
\* breaker and the plateau check had seen is not restored.  replay() raises on a torn
\* line.
Resume == /\ mode = "improve"
          /\ \/ ~torn /\ Step("down", "check") /\ Restore
             \/ torn /\ Step("down", "unreadable") /\ UNCHANGED budget
          /\ UNCHANGED <<mode, turn, loop, trace, model, history>>

\* The top of the loop: the budget is checked, then one iteration charged, then the
\* iter_start event (of kind plan) written.
BeginIteration ==
  /\ \/ /\ Step("check", "plan")
        /\ ~Exhausted
        /\ iters' = iters + 1
        /\ plans' = plans + 1
        /\ begun' = begun + 1
     \/ Step("check", "exhausted") /\ Exhausted /\ UNCHANGED <<iters, plans, begun>>
  /\ UNCHANGED <<mode, calls, usd, turn, loop, oks, spent, recorded, torn, model,
                 ran, completed, lost, disowned, bill, waived, crashes>>

\* The turn starts from an empty cache.
MakePlan_forgetful == /\ Step("plan", "step")
                      /\ \E cost \in Costs : bill' = bill + cost
                      /\ plans' = plans + 1
                      /\ step' = 0
                      /\ cache' = NoResults
                      /\ metric' = None
                      /\ disowned' = FALSE
                      /\ UNCHANGED <<mode, budget, pending, answer, loop, oks, spent, recorded,
                                     torn, model, begun, ran, completed, lost, waived,
                                     crashes>>

\* make_plan: an LLM call nobody charges, then the planner event (of kind plan too);
\* run_one_turn begins by reading the trace for the calls that succeeded.
MakePlan == /\ Step("plan", "step")
            /\ \E cost \in Costs : bill' = bill + cost
            /\ plans' = plans + 1
            /\ step' = 0
            /\ cache' = recorded
            /\ metric' = None
            /\ disowned' = FALSE
            /\ UNCHANGED <<mode, budget, pending, answer, loop, oks, spent, recorded, torn,
                           model, begun, ran, completed, lost, waived, crashes>>

\* The budget is checked once per iteration, not in the turn.
NextStep_unchecked ==
  /\ \/ Step("step", "measure") /\ step = MaxSteps /\ UNCHANGED step
     \/ Step("step", "ask") /\ step < MaxSteps /\ step' = step + 1
  /\ UNCHANGED <<mode, budget, pending, answer, cache, metric, loop, trace, model, history>>

\* BudgetExhausted is swallowed: the turn tries its next step again.
NextStep_swallowed ==
  /\ \/ Step("step", "measure") /\ step = MaxSteps /\ UNCHANGED step
     \/ Step("step", "ask") /\ step < MaxSteps /\ ~Exhausted /\ step' = step + 1
  /\ UNCHANGED <<mode, budget, pending, answer, cache, metric, loop, trace, model, history>>

\* The head of the turn's loop: max_steps, then the budget.
NextStep ==
  /\ \/ Step("step", "measure") /\ step = MaxSteps /\ UNCHANGED step
     \/ Step("step", "exhausted") /\ step < MaxSteps /\ Exhausted /\ UNCHANGED step
     \/ Step("step", "ask") /\ step < MaxSteps /\ ~Exhausted /\ step' = step + 1
  /\ UNCHANGED <<mode, budget, pending, answer, cache, metric, loop, trace, model, history>>

\* charge_llm_usage: what the provider bills for a reply is booked by the price table and
\* goes into the trace.  A reply without usage is not booked, and a model that is not in
\* the table costs nothing.
Charge(cost) ==
  /\ bill' = bill + cost
  /\ \/ usd' = usd + cost /\ spent' = spent + cost /\ UNCHANGED waived
     \/ waived' = waived + cost /\ UNCHANGED <<usd, spent>>

\* The LLM replies; a reply without tool calls ends the turn.
Reply ==
  /\ \E cost \in Costs : Charge(cost)
  /\ \E asked \in BoundedSeq(Calls, MaxReply) :
       /\ pending' = asked
       /\ Step("ask", IF asked = <<>> THEN "measure" ELSE "call")
  /\ UNCHANGED <<mode, iters, calls, step, answer, cache, metric, loop,
                 plans, oks, recorded, torn, model, begun, ran, completed, lost, disowned,
                 crashes>>

\* The replay cache is keyed by the name of the tool.
CallTool_by_name ==
  LET alike == {c \in Calls : ToolOf[c] = ToolOf[Head(pending)] /\ cache[c] # None} IN
  /\ \/ /\ Step("call", "record")
        /\ \E c \in alike : answer' = cache[c]
        /\ disowned' = (disowned \/ Head(pending) \in Measures)
     \/ Step("call", "run") /\ alike = {} /\ UNCHANGED <<answer, disowned>>
  /\ UNCHANGED <<mode, budget, step, pending, cache, metric, loop, trace, model,
                 begun, ran, completed, lost, bill, waived, crashes>>

\* A call that has a result is answered from the cache, any other is run.
CallTool == LET c == Head(pending) IN
  /\ \/ /\ Step("call", "record")
        /\ cache[c] # None
        /\ answer' = cache[c]
        /\ disowned' = (disowned \/ c \in Measures)
     \/ Step("call", "run") /\ cache[c] = None /\ UNCHANGED <<answer, disowned>>
  /\ UNCHANGED <<mode, budget, step, pending, cache, metric, loop, trace, model,
                 begun, ran, completed, lost, bill, waived, crashes>>

\* train() fits a model it does not put in STATE.
Effect_unpublished(c, result) == /\ result \in (IF c \in Measures THEN Metrics ELSE {Plain})
                                 /\ UNCHANGED model

\* What a tool does, and has to answer: train puts the new model in STATE and has its
\* metric, evaluate needs a model there and has its metric.  The two measure on different
\* rows; here a metric stands for the model it was measured on.
Effect(c, result) ==
  \/ c \in Trains /\ result \in Metrics /\ model' = result
  \/ c \in Evals /\ model # None /\ result = model /\ UNCHANGED model
  \/ c \notin Measures /\ result = Plain /\ UNCHANGED model

\* A call is charged whatever comes of it.  dispatch returns what the tool answers, or an
\* error for what it raises: before it did anything, or after, as train does when writing
\* or pushing the artifacts of a model that is in STATE by then fails.  After
\* per_tool_timeout_s the answer is an error as well, but leaving the pool waits for the
\* tool, which comes to one end or the other.
RunTool == LET c == Head(pending) IN
  /\ Step("run", "record")
  /\ calls' = calls + 1
  /\ \/ \E result \in Results :
          /\ Effect(c, result)
          /\ ran' = [ran EXCEPT ![c] = @ + 1]
          /\ \/ /\ answer' = result
                /\ completed' = completed + 1
                /\ disowned' = (disowned /\ c \notin Measures)
                /\ UNCHANGED lost
             \/ /\ answer' \in Failures
                /\ lost' = lost + 1
                /\ disowned' = (disowned \/ c \in Trains)
                /\ UNCHANGED completed
     \/ answer' \in Failures /\ UNCHANGED <<model, ran, completed, lost, disowned>>
  /\ UNCHANGED <<mode, iters, usd, step, pending, cache, metric, loop, trace,
                 begun, bill, waived, crashes>>

\* The last call of a reply is not noticed.
Onward_again == "call"

\* The next call of the reply, or the next step.
Onward == IF Len(pending) = 1 THEN "step" ELSE "call"

\* A tool_result that is ok, replayed or not: written, kept in the cache, and taken for
\* the metric of the iteration when the tool is train or evaluate.
RecordResult == LET c == Head(pending) IN
  /\ Step("record", Onward)
  /\ answer \in Results
  /\ oks' = oks + 1
  /\ recorded' = [recorded EXCEPT ![c] = answer]
  /\ cache' = [cache EXCEPT ![c] = answer]
  /\ metric' = IF c \in Measures THEN answer ELSE metric
  /\ pending' = Tail(pending)
  /\ UNCHANGED <<mode, budget, step, answer, loop, plans, spent, torn, model, history>>

\* A call that failed is asked for again.
RecordError_retried == LET k == <<ToolOf[Head(pending)], answer>> IN
  /\ pc = "record" /\ answer \in Failures
  /\ errors' = IF mode = "improve" THEN [errors EXCEPT ![k] = @ + 1] ELSE errors
  /\ \/ mode = "improve" /\ errors[k] + 1 >= Breaker /\ Step("record", "tripped")
     \/ ~(mode = "improve" /\ errors[k] + 1 >= Breaker) /\ Step("record", "call")
  /\ UNCHANGED <<mode, budget, turn, metrics, trace, model, history>>

\* A tool_result with an error.  The breaker counts it under the tool and the error:
\* results carry no arguments.
RecordError == LET k == <<ToolOf[Head(pending)], answer>> IN
  /\ pc = "record" /\ answer \in Failures
  /\ errors' = IF mode = "improve" THEN [errors EXCEPT ![k] = @ + 1] ELSE errors
  /\ \/ mode = "improve" /\ errors[k] + 1 >= Breaker /\ Step("record", "tripped")
     \/ ~(mode = "improve" /\ errors[k] + 1 >= Breaker) /\ Step("record", Onward)
  /\ pending' = Tail(pending)
  /\ UNCHANGED <<mode, budget, step, answer, cache, metric, metrics, trace, model, history>>

\* The end of a turn.  In the loop the metric, if there is one, joins the others, and when
\* there are enough of them the recent ones may end the loop.
Measure ==
  /\ IF mode = "improve" /\ metric # None
       THEN /\ metrics' = Append(metrics, metric)
            /\ Step("measure", IF Len(metrics') >= Window /\ Plateaued(Recent(metrics'))
                                 THEN "plateau" ELSE "check")
       ELSE UNCHANGED metrics /\ Step("measure", IF mode = "turn" THEN "done" ELSE "check")
  /\ UNCHANGED <<mode, budget, turn, errors, trace, model, history>>

\* The process dies, the LLM call raises or the client goes away: what the generator
\* held is gone, and with the process STATE.  A call of the LLM that was under way may have
\* been billed.  Unless the loop waits for a tool, an append() may have been under way.
Crash == /\ pc \in Live
         /\ crashes < MaxCrashes
         /\ pc' = "down"
         /\ crashes' = crashes + 1
         /\ \/ pc \in {"plan", "ask"} /\ \E cost \in Costs : bill' = bill + cost
            \/ UNCHANGED bill
         /\ torn' \in (IF pc = "run" THEN {torn} ELSE BOOLEAN)
         /\ iters' = 0 /\ calls' = 0 /\ usd' = 0
         /\ step' = 0 /\ pending' = <<>> /\ answer' = Plain /\ cache' = NoResults
         /\ metric' = None /\ metrics' = <<>> /\ errors' = NoErrors
         /\ model' \in {model, None}
         /\ disowned' = FALSE
         /\ UNCHANGED <<mode, plans, oks, spent, recorded, begun, ran, completed, lost, waived>>

GoOn == \/ BeginIteration \/ MakePlan \/ NextStep \/ Reply \/ CallTool \/ RunTool
        \/ RecordResult \/ RecordError \/ Measure

Next == \/ \E m \in {"turn", "improve"} : Start(m)
        \/ Resume \/ GoOn \/ Crash

\* The consumer of the stream asks for the next event, the LLM and the tools answer.
Fairness == WF_vars(GoOn)

Spec == Init /\ [][Next]_vars /\ Fairness

-----------------------------------------------------------------------------
(* Properties.                                                             *)

\* Every variable stays in its type; a call is at hand where one is handled.
TypeOK == /\ mode \in {"turn", "improve"}
          /\ pc \in Live \cup Ended \cup {"idle", "down"}
          /\ iters \in Nat /\ calls \in Nat /\ usd \in Nat
          /\ step \in 0..MaxSteps
          /\ pending \in Seq(Calls) /\ Len(pending) <= MaxReply
          /\ answer \in Results \cup Failures
          /\ cache \in [Calls -> Results \cup {None}]
          /\ metric \in Results \cup {None}
          /\ metrics \in Seq(Results)
          /\ errors \in [Tools \X Failures -> Nat]
          /\ plans \in Nat /\ oks \in Nat /\ spent \in Nat
          /\ recorded \in [Calls -> Results \cup {None}]
          /\ torn \in BOOLEAN
          /\ model \in Metrics \cup {None} /\ disowned \in BOOLEAN
          /\ begun \in Nat /\ ran \in [Calls -> Nat] /\ completed \in Nat /\ lost \in Nat
          /\ bill \in Nat /\ waived \in Nat /\ crashes \in 0..MaxCrashes
          /\ pc \in {"call", "run", "record"} => pending # <<>>

\* improve.py:6-8, executor.py:5: a call whose result is in the trace never runs again,
\* neither in the life that wrote it nor after any number of resumes; and on top of a line
\* that cannot be read back nothing runs at all (trace.py:48-58).
NeverRerun == [][\A c \in Calls : torn \/ recorded[c] # None => ran'[c] = ran[c]]_vars

\* The trace is a ledger of tool calls (trace.py:48-58, executor.py:100-184): in all lives
\* of the loop a result is written once and never changes, only a call that took effect
\* has one, and what has none runs again only as often as a result was lost.
Ledger == INSTANCE ToolLedger
            WITH entry <- recorded, effects <- ran, losses <- crashes + lost

LedgerSpec == Ledger!LSpec

\* A call takes effect once, and once more for each crash that lost its result and each
\* effect that was reported as a failure: the tool timed out, or raised with its work done
\* (executor.py:41-46, 154-182; tools.py:344-350; train.py:195, 238).
EffectsBounded == \A c \in Calls : ran[c] <= 1 + crashes + lost

\* max_iters bounds the iterations of all lives together, although restore() counts two
\* events for an iteration, and one less executes tools: the iteration is charged before
\* the turn checks the same cap (improve.py:49-58, executor.py:89).
IterationsBounded ==
  /\ begun <= MaxIters
  /\ mode = "improve" /\ pc \in {"ask", "call", "run", "record"} => begun < MaxIters

\* What all lives together get done is max_tool_calls, exceeded by at most one reply and
\* one run per crash (executor.py:89, 133-159; budget.py:39-47).
ToolRunsBounded == completed < MaxCalls + MaxReply + crashes

\* What the provider bills for all lives together exceeds max_usd by what has no price here
\* or no usage, and by the calls of the LLM that are in no check: one reply, a planner call
\* per iteration, and a reply per crash, which bills what no trace line tells the next life
\* of (budget.py:39-67, 75-83, executor.py:95-106, improve.py:62).
BillBounded == bill < MaxUsd + waived + (1 + MaxIters + crashes) * MaxCost

\* A loop whose metric improves by eps from each measured iteration to the next is never
\* stopped as a plateau, of how many iterations the window may be; one that looks back on
\* a single iteration is stopped by a metric below eps, and only by that
\* (improve.py:134-181).
ProgressGoesOn ==
  pc = "plateau" /\ Eps >= 0 =>
    LET w == Recent(metrics)
    IN IF Len(w) > 1 THEN \E i \in 1..(Len(w) - 1) : w[i] - w[i + 1] < Eps
                     ELSE Sum(w) < Eps

\* The metric a turn ends with is that of the model now in STATE, the one that would
\* serve, unless the last measure of the turn was answered from the trace (an evaluate of
\* an earlier model), or a train after it published and then reported a failure: it had
\* timed out, or could not write its artifacts (executor.py:41-46, 154; train.py:195;
\* improve.py:119-128).
MetricIsTheModels ==
  pc = "measure" /\ metric # None /\ ~disowned => metric = model

\* A turn or a loop that is not interrupted comes to an end, whatever the LLM and the
\* tools answer and although replayed calls cost nothing (executor.py:87, improve.py:49).
LoopEnds == pc \in Live ~> pc \in Ended \cup {"down"}

\* What is left to a run, from what changes seldom to what changes with every step: lives,
\* starts, iterations, the rest of this one, steps, the rest of this one, calls, the rest
\* of this one.
Left == << MaxCrashes - crashes,
           CASE pc = "idle" -> 3 [] pc = "down" -> 2 [] pc \in Live -> 1 [] OTHER -> 0,
           IF iters < MaxIters THEN MaxIters - iters ELSE 0,
           CASE pc = "plan" -> 3 [] pc = "measure" -> 1 [] pc = "check" -> 0 [] OTHER -> 2,
           MaxSteps - step,
           CASE pc = "ask" -> 2 [] pc \in {"call", "run", "record"} -> 1 [] OTHER -> 0,
           Len(pending),
           CASE pc = "call" -> 2 [] pc = "run" -> 1 [] OTHER -> 0 >>

\* The lexicographic order.
Less(a, b) == \E i \in 1..8 : a[i] < b[i] /\ \A k \in 1..(i - 1) : a[k] = b[k]

\* Every single step uses something up that no later step gives back, except a crash and
\* a resume, of which there are finitely many: whatever the LLM asks for, whatever fails,
\* is replayed or restored, max_iters and max_steps alone make every run finite
\* (executor.py:87, 133-184, improve.py:49-132, budget.py:39-47).
StepsRunOut == [][Less(Left', Left)]_vars
=============================================================================
