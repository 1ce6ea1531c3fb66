---------------------------- MODULE AgentLoopProofs ----------------------------
(***************************************************************************)
(* What holds of any loop: however many tools there are, whatever the LLM  *)
(* asks for and at whatever price, whatever the tools answer, and however  *)
(* often the loop dies.                                                    *)
(***************************************************************************)
EXTENDS AgentLoop, WellFoundedInduction, TLAPS

\* What the constants are.
LEMMA Caps ==
  /\ MaxIters \in Nat \ {0} /\ MaxCalls \in Nat \ {0} /\ MaxUsd \in Nat \ {0}
  /\ MaxSteps \in Nat /\ MaxReply \in Nat /\ MaxCost \in Nat /\ MaxCrashes \in Nat
  /\ Costs \subseteq 0 .. MaxCost
  /\ Window \in Int /\ Eps \in Int /\ ToolOf \in [Calls -> Tools] /\ Metrics \subseteq Nat
BY AgentAssumption

LEMMA Apart ==
  /\ None \notin Results /\ Plain \in Results /\ Metrics \subseteq Results
  /\ Error \in Failures /\ Timeout \in Failures /\ Results \cap Failures = {}
BY AgentAssumption DEF Results, Failures

-----------------------------------------------------------------------------
(* Types.                                                                  *)

\* A reply is a sequence of calls.
LEMMA RepliesAreSequences ==
  ASSUME NEW asked \in BoundedSeq(Calls, MaxReply)
  PROVE  asked \in Seq(Calls) /\ Len(asked) <= MaxReply
<1>1. PICK n \in 0 .. MaxReply : asked \in [1 .. n -> Calls]
  BY Caps DEF BoundedSeq, SeqOf
<1>2. asked \in Seq(Calls) /\ Len(asked) = n
  BY <1>1, Caps
<1> QED
  BY <1>1, <1>2, Caps

LEMMA SomeLeft == ASSUME NEW s \in Seq(Calls), Len(s) # 0 PROVE s # <<>>
OBVIOUS

LEMMA OneMore ==
  ASSUME NEW D, NEW f \in [D -> Nat], NEW d \in D
  PROVE  [f EXCEPT ![d] = @ + 1] \in [D -> Nat]
OBVIOUS

\* The call at hand is one of the calls, and what is left is shorter by it.
LEMMA AtHand ==
  ASSUME TypeOK, pc \in {"call", "run", "record"}
  PROVE  /\ Head(pending) \in Calls /\ ToolOf[Head(pending)] \in Tools
         /\ Tail(pending) \in Seq(Calls) /\ Len(Tail(pending)) = Len(pending) - 1
         /\ Len(pending) >= 1
         /\ Len(pending) # 1 => Tail(pending) # <<>>
<1>1. pending \in Seq(Calls) /\ pending # <<>>
  BY DEF TypeOK
<1>2. Len(pending) \in Nat /\ Len(pending) >= 1 /\ Head(pending) \in Calls
  BY <1>1
<1>3. Tail(pending) \in Seq(Calls) /\ Len(Tail(pending)) = Len(pending) - 1
  BY <1>1, <1>2
<1>4. ASSUME Len(pending) # 1 PROVE Tail(pending) # <<>>
  <2>1. Len(Tail(pending)) # 0
    BY <1>2, <1>3, <1>4
  <2> QED
    BY <1>3, <2>1, SomeLeft
<1> QED
  BY <1>2, <1>3, <1>4, Caps

\* Every action keeps the types.
LEMMA StepTyped == TypeOK /\ [Next]_vars => TypeOK'
<1> SUFFICES ASSUME TypeOK, [Next]_vars PROVE TypeOK'
  OBVIOUS
<1> USE DEF TypeOK, budget, turn, loop, trace, history, Live, Ended
<1>1. ASSUME NEW m \in {"turn", "improve"}, Start(m) PROVE TypeOK'
  BY <1>1 DEF Start, Step
<1>2. CASE Resume
  BY <1>2 DEF Resume, Step, Restore
<1>3. CASE BeginIteration
  BY SMTT(30), <1>3 DEF BeginIteration, Step, Exhausted
<1>4. CASE MakePlan
  <2>1. PICK cost \in 0 .. MaxCost : bill' = bill + cost
    BY <1>4, Caps DEF MakePlan
  <2>2. bill' \in Nat
    BY <2>1, Caps
  <2>3. /\ plans' \in Nat /\ step' \in 0 .. MaxSteps /\ metric' \in Results \cup {None}
        /\ cache' \in [Calls -> Results \cup {None}] /\ disowned' = FALSE
    BY <1>4, Caps DEF MakePlan
  <2>4. pc' = "step"
    BY <1>4 DEF MakePlan, Step
  <2> QED
    BY <1>4, <2>2, <2>3, <2>4 DEF MakePlan
<1>5. CASE NextStep
  BY <1>5, Caps DEF NextStep, Step, Exhausted
<1>6. CASE Reply
  <2>1. usd' \in Nat /\ spent' \in Nat /\ bill' \in Nat /\ waived' \in Nat
    BY <1>6, Caps DEF Reply, Charge
  <2>2. /\ pending' \in Seq(Calls) /\ Len(pending') <= MaxReply
        /\ pc' = IF pending' = <<>> THEN "measure" ELSE "call"
    BY <1>6, RepliesAreSequences DEF Reply, Step
  <2> QED
    BY <1>6, <2>1, <2>2 DEF Reply
<1>7. CASE CallTool
  BY <1>7, AtHand DEF CallTool, Step
<1>8. CASE RunTool
  <2> DEFINE c == Head(pending)
  <2>1. c \in Calls /\ pending # <<>>
    BY <1>8, AtHand DEF RunTool, Step
  <2>2. answer' \in Results \cup Failures /\ model' \in Metrics \cup {None}
    <3>1. CASE answer' \in Failures /\ UNCHANGED model
      BY <3>1
    <3>2. ASSUME NEW result \in Results, Effect(c, result), answer' \in {result} \cup Failures
          PROVE  answer' \in Results \cup Failures /\ model' \in Metrics \cup {None}
      BY <3>2 DEF Effect
    <3> QED
      BY <1>8, <3>1, <3>2 DEF RunTool
  <2>3. ran' \in [Calls -> Nat]
    <3>1. ran' = ran \/ ran' = [ran EXCEPT ![c] = @ + 1]
      BY <1>8 DEF RunTool
    <3> QED
      BY <2>1, <3>1
  <2>4. completed' \in Nat /\ lost' \in Nat /\ calls' \in Nat
    BY <1>8 DEF RunTool
  <2>5. disowned' \in BOOLEAN
    BY <1>8 DEF RunTool
  <2> QED
    BY <1>8, <2>1, <2>2, <2>3, <2>4, <2>5 DEF RunTool, Step
<1>9. CASE RecordResult
  <2>1. /\ Head(pending) \in Calls /\ Tail(pending) \in Seq(Calls)
        /\ Len(Tail(pending)) = Len(pending) - 1 /\ Len(pending) >= 1
        /\ Len(pending) # 1 => Tail(pending) # <<>>
    BY <1>9, AtHand DEF RecordResult, Step
  <2>2. Len(Tail(pending)) <= MaxReply
    BY <2>1, Caps
  <2>3. /\ recorded' \in [Calls -> Results \cup {None}]
        /\ cache' \in [Calls -> Results \cup {None}]
    BY <1>9, <2>1 DEF RecordResult
  <2>4. metric' \in Results \cup {None} /\ oks' \in Nat
    BY <1>9 DEF RecordResult
  <2>5. pc' \in Live /\ (pc' \in {"call", "run", "record"} => pending' # <<>>)
    BY <1>9, <2>1 DEF RecordResult, Step, Onward
  <2> QED
    BY <1>9, <2>1, <2>2, <2>3, <2>4, <2>5 DEF RecordResult
<1>10. CASE RecordError
  <2>1. /\ ToolOf[Head(pending)] \in Tools /\ Tail(pending) \in Seq(Calls)
        /\ Len(Tail(pending)) = Len(pending) - 1 /\ Len(pending) >= 1
        /\ Len(pending) # 1 => Tail(pending) # <<>>
    BY <1>10, AtHand DEF RecordError
  <2>2. Len(Tail(pending)) <= MaxReply
    BY <2>1, Caps
  <2>3. errors' \in [Tools \X Failures -> Nat]
    <3> DEFINE k == <<ToolOf[Head(pending)], answer>>
    <3>1. k \in Tools \X Failures
      BY <1>10, <2>1 DEF RecordError
    <3>2. errors' = errors \/ errors' = [errors EXCEPT ![k] = @ + 1]
      BY <1>10 DEF RecordError
    <3>3. [errors EXCEPT ![k] = @ + 1] \in [Tools \X Failures -> Nat]
      <4> HIDE DEF k
      <4> QED
        BY <3>1, OneMore
    <3> QED
      BY <3>2, <3>3
  <2>4. /\ pc' \in Live \cup Ended
        /\ pc' \in {"call", "run", "record"} => pending' # <<>>
    BY <1>10, <2>1 DEF RecordError, Step, Onward
  <2> QED
    BY <1>10, <2>1, <2>2, <2>3, <2>4 DEF RecordError
<1>11. CASE Measure
  <2>1. metrics' \in Seq(Results)
    <3>1. CASE mode = "improve" /\ metric # None
      <4>1. metrics' = Append(metrics, metric)
        BY ONLY <1>11, <3>1 DEF Measure
      <4>2. metrics \in Seq(Results) /\ metric \in Results
        BY <3>1
      <4> QED
        BY ONLY <4>1, <4>2
    <3>2. CASE ~(mode = "improve" /\ metric # None)
      BY <1>11, <3>2 DEF Measure
    <3> QED
      BY <3>1, <3>2
  <2>2. pc' \in {"plateau", "check", "done"}
    BY <1>11 DEF Measure, Step
  <2> QED
    BY <1>11, <2>1, <2>2 DEF Measure
<1>12. CASE Crash
  <2>1. /\ cache' \in [Calls -> Results \cup {None}]
        /\ errors' \in [Tools \X Failures -> Nat]
    BY <1>12 DEF Crash, NoResults, NoErrors
  <2>2. torn' \in BOOLEAN /\ model' \in Metrics \cup {None} /\ crashes' \in 0 .. MaxCrashes
    BY <1>12, Caps DEF Crash
  <2>3. /\ metrics' \in Seq(Results) /\ bill' \in Nat
        /\ pending' \in Seq(Calls) /\ Len(pending') <= MaxReply
    BY <1>12, Caps DEF Crash
  <2>4. disowned' = FALSE /\ pc' = "down" /\ step' \in 0 .. MaxSteps
    BY <1>12, Caps DEF Crash
  <2>5. /\ iters' \in Nat /\ calls' \in Nat /\ usd' \in Nat
        /\ answer' \in Results \cup Failures /\ metric' \in Results \cup {None}
        /\ UNCHANGED <<mode, plans, oks, spent, recorded, begun, ran, completed, lost, waived>>
    BY <1>12, Apart DEF Crash
  <2> QED
    BY <2>1, <2>2, <2>3, <2>4, <2>5
<1>13. CASE UNCHANGED vars
  BY <1>13 DEF vars
<1> QED
  BY <1>1, <1>2, <1>3, <1>4, <1>5, <1>6, <1>7, <1>8, <1>9, <1>10, <1>11, <1>12, <1>13
     DEF Next, GoOn


\* The counters are numbers.
LEMMA Numbers ==
  TypeOK => /\ iters \in Nat /\ calls \in Nat /\ usd \in Nat /\ Len(pending) \in Nat
            /\ plans \in Nat /\ oks \in Nat /\ spent \in Nat
            /\ begun \in Nat /\ completed \in Nat /\ lost \in Nat /\ bill \in Nat
            /\ waived \in Nat /\ crashes \in Nat
BY Caps DEF TypeOK

-----------------------------------------------------------------------------
(* Iterations.                                                             *)

\* There are as many plan events as iterations, or more, and so a resumed loop counts at
\* least those that were begun.
Counted ==
  /\ begun <= plans /\ begun <= MaxIters
  /\ pc \in Live \cup {"idle"} => begun <= iters
  /\ mode = "improve" /\ pc \in {"ask", "call", "run", "record"} => begun < MaxIters

\* No action takes the count above the cap.
LEMMA StepCounted == TypeOK /\ Counted /\ [Next]_vars => Counted'
<1> SUFFICES ASSUME TypeOK, Counted, [Next]_vars PROVE Counted'
  OBVIOUS
<1> USE Numbers, Caps DEF Counted, Live, budget, turn, loop, trace, history
<1>1. ASSUME NEW m \in {"turn", "improve"}, Start(m) PROVE Counted'
  BY <1>1 DEF Start, Step
<1>2. CASE Resume
  BY <1>2 DEF Resume, Step, Restore
<1>3. CASE BeginIteration
  <2>1. CASE /\ pc = "check" /\ pc' = "plan" /\ iters < MaxIters
             /\ iters' = iters + 1 /\ plans' = plans + 1 /\ begun' = begun + 1
    BY SMTT(40), <1>3, <2>1
  <2>2. CASE pc' = "exhausted" /\ UNCHANGED <<iters, plans, begun>>
    BY SMTT(40), <1>3, <2>2
  <2> QED
    BY <1>3, <2>1, <2>2 DEF BeginIteration, Step, Exhausted
<1>4. CASE MakePlan
  BY SMTT(30), <1>4 DEF MakePlan, Step
<1>5. CASE NextStep
  BY <1>5 DEF NextStep, Step, Exhausted
<1>6. CASE Reply
  BY <1>6 DEF Reply, Step
<1>7. CASE CallTool
  BY <1>7 DEF CallTool, Step
<1>8. CASE RunTool
  BY <1>8 DEF RunTool, Step
<1>9. CASE RecordResult
  BY <1>9 DEF RecordResult, Step, Onward
<1>10. CASE RecordError
  BY <1>10 DEF RecordError, Step, Onward
<1>11. CASE Measure
  BY <1>11 DEF Measure, Step
<1>12. CASE Crash
  BY <1>12 DEF Crash
<1>13. CASE UNCHANGED vars
  BY <1>13 DEF vars
<1> QED
  BY <1>1, <1>2, <1>3, <1>4, <1>5, <1>6, <1>7, <1>8, <1>9, <1>10, <1>11, <1>12, <1>13
     DEF Next, GoOn

-----------------------------------------------------------------------------
(* Dollars.                                                                *)

\* What n planner calls may cost.
Due(n) == n * MaxCost

\* What the loop has charged is what the trace says, and the bill is that, what was waived
\* and a planner call for each iteration; each death of the loop may add a reply.
Billed ==
  /\ pc \in Live \cup {"idle"} => usd = spent
  /\ pc = "ask" => usd < MaxUsd
  /\ spent < MaxUsd + MaxCost
  /\ pc = "plan" => bill <= (spent + waived) + Due((begun + crashes) - 1)
  /\ bill <= (spent + waived) + Due(begun + crashes)

\* A cost that is booked or waived, or due to one call more, leaves the bill covered.
LEMMA StillCovered ==
  ASSUME NEW b \in Nat, NEW s \in Nat, NEW n \in Nat, NEW cost \in 0 .. MaxCost
  PROVE  /\ b <= s + Due(n - 1) => b + cost <= s + Due(n) /\ b <= s + Due(n)
         /\ b <= s + Due(n) => b + cost <= (s + cost) + Due(n)
         /\ b <= s + Due(n) => b + cost <= s + Due(n + 1) /\ b <= s + Due(n + 1)
<1> DEFINE d == n * MaxCost
<1>1. d \in Nat /\ (n + 1) * MaxCost = d + MaxCost /\ (n - 1) * MaxCost = d - MaxCost
  BY Caps
<1>2. Due(n) = d /\ Due(n + 1) = d + MaxCost /\ Due(n - 1) = d - MaxCost
  BY <1>1 DEF Due
<1> HIDE DEF d
<1> QED
  BY <1>1, <1>2, Caps

\* More calls do not cost less.
LEMMA TimesGrow ==
  ASSUME NEW m \in Nat, NEW n \in Nat, m <= n, NEW k \in Nat
  PROVE  m * k <= n * k
OBVIOUS

\* No action bills more.
LEMMA StepBilled == TypeOK /\ Billed /\ [Next]_vars => Billed'
<1> SUFFICES ASSUME TypeOK, Billed, [Next]_vars PROVE Billed'
  OBVIOUS
<1> DEFINE n == begun + crashes
           s == spent + waived
<1>0. n \in Nat /\ s \in Nat /\ bill \in Nat /\ 0 \in 0 .. MaxCost
  BY Numbers, Caps
<1> USE Numbers, Caps DEF Billed, Live
<1>1. CASE BeginIteration /\ pc' = "plan"
  <2>1. begun' = begun + 1 /\ pc = "check" /\ UNCHANGED <<usd, spent, bill, waived, crashes>>
    BY <1>1 DEF BeginIteration, Step
  <2>2. begun' + crashes' = n + 1 /\ (begun' + crashes') - 1 = n
    <3>1. begun \in Nat /\ crashes \in Nat
      OBVIOUS
    <3> QED
      BY ONLY <2>1, <3>1
  <2>3. bill <= s + Due(n) /\ bill <= s + Due(n + 1)
    BY <1>0, StillCovered
  <2> QED
    BY <1>1, <2>1, <2>2, <2>3
<1>2. CASE MakePlan
  <2>1. PICK cost \in 0 .. MaxCost : bill' = bill + cost
    BY <1>2 DEF MakePlan
  <2>2. UNCHANGED <<usd, spent, waived, begun, crashes>> /\ pc = "plan" /\ pc' = "step"
    BY <1>2 DEF MakePlan, Step, budget
  <2>3. bill + cost <= s + Due(n)
    BY <1>0, <2>2, StillCovered
  <2> QED
    BY <2>1, <2>2, <2>3
<1>3. CASE Reply
  <2>1. PICK cost \in 0 .. MaxCost : Charge(cost)
    BY <1>3 DEF Reply
  <2>2. pc = "ask" /\ pc' \in {"measure", "call"} /\ UNCHANGED <<begun, crashes>>
    BY <1>3 DEF Reply, Step
  <2>3. bill' = bill + cost /\ spent' + waived' = s + cost
    <3>1. spent \in Nat /\ waived \in Nat /\ cost \in Int
      OBVIOUS
    <3> QED
      BY ONLY <2>1, <3>1 DEF Charge
  <2>4. usd' = spent' /\ spent' < MaxUsd + MaxCost
    BY <2>1, <2>2 DEF Charge
  <2>5. bill + cost <= (s + cost) + Due(n)
    BY <1>0, StillCovered
  <2> QED
    BY <2>2, <2>3, <2>4, <2>5
<1>4. CASE Crash
  <2>1. UNCHANGED <<spent, waived, begun>> /\ crashes' = crashes + 1 /\ pc' = "down"
    BY <1>4 DEF Crash
  <2>2. PICK cost \in 0 .. MaxCost : bill' = bill + cost
    <3>1. bill \in Nat /\ bill + 0 = bill
      BY <1>0
    <3>2. CASE UNCHANGED bill
      BY <1>0, <3>1, <3>2
    <3>3. CASE \E cost \in Costs : bill' = bill + cost
      BY <3>3
    <3> QED
      BY <1>4, <3>2, <3>3 DEF Crash
  <2>3. bill + cost <= s + Due(n + 1)
    BY <1>0, StillCovered
  <2>4. begun' + crashes' = n + 1
    BY <2>1
  <2> QED
    BY <2>1, <2>2, <2>3, <2>4
<1>5. CASE Resume
  BY <1>5 DEF Resume, Step, Restore, budget, trace, history
<1>6. CASE NextStep
  <2>1. UNCHANGED <<usd, spent, bill, waived, begun, crashes>> /\ pc = "step" /\ pc' # "plan"
    BY <1>6 DEF NextStep, Step, budget, trace, history
  <2>2. pc' = "ask" => usd < MaxUsd
    BY <1>6 DEF NextStep, Step, Exhausted
  <2> QED
    BY <2>1, <2>2
<1>7. CASE \/ \E m \in {"turn", "improve"} : Start(m)
           \/ (BeginIteration /\ pc' # "plan") \/ CallTool \/ RunTool
           \/ RecordResult \/ RecordError \/ Measure
  <2>1. UNCHANGED <<usd, spent, bill, waived, begun, crashes>>
    BY <1>7 DEF Start, BeginIteration, CallTool, RunTool, RecordResult, RecordError, Measure,
                Step, budget, trace, history
  <2>2. pc \in Live \cup {"idle"} /\ pc' \notin {"plan", "ask"}
    BY <1>7 DEF Start, BeginIteration, CallTool, RunTool, RecordResult, RecordError, Measure,
                Step, Onward
  <2> QED
    BY <2>1, <2>2
<1>8. CASE UNCHANGED vars
  BY <1>8 DEF vars, budget, trace, history
<1> QED
  BY <1>1, <1>2, <1>3, <1>4, <1>5, <1>6, <1>7, <1>8 DEF Next, GoOn

-----------------------------------------------------------------------------
(* Tool runs.                                                              *)

\* Of the runs that returned in time all but one per crash are in the trace, and one may
\* be on its way there; a reply is begun below the cap.
Worked ==
  /\ completed <= oks + crashes + 1
  /\ pc # "record" \/ answer \notin Results => completed <= oks + crashes
  /\ pc \in Live \cup {"idle"} => completed <= calls + crashes
  /\ pc = "ask" => calls < MaxCalls
  /\ pc \in {"call", "run"} =>
       completed + Len(pending) < MaxCalls + MaxReply + crashes
  /\ pc = "record" => completed + Len(pending) <= MaxCalls + MaxReply + crashes
  /\ completed < MaxCalls + MaxReply + crashes

\* No action gets more done.
LEMMA StepWorked == TypeOK /\ Worked /\ [Next]_vars => Worked'
<1> SUFFICES ASSUME TypeOK, Worked, [Next]_vars PROVE Worked'
  OBVIOUS
<1> USE Numbers, Caps DEF Worked, Live, budget, turn, loop, trace, history
<1>1. ASSUME NEW m \in {"turn", "improve"}, Start(m) PROVE Worked'
  BY <1>1 DEF Start, Step
<1>2. CASE Resume
  BY <1>2 DEF Resume, Step, Restore
<1>3. CASE BeginIteration
  BY <1>3 DEF BeginIteration, Step, Exhausted
<1>4. CASE MakePlan
  BY <1>4 DEF MakePlan, Step
<1>5. CASE NextStep
  <2>1. UNCHANGED <<calls, completed, oks, crashes>> /\ pc = "step"
    BY <1>5 DEF NextStep, Step
  <2>2. pc' \in {"measure", "exhausted", "ask"} /\ (pc' = "ask" => calls < MaxCalls)
    BY SMTT(40), <1>5 DEF NextStep, Step, Exhausted
  <2> QED
    BY <2>1, <2>2
<1>6. CASE Reply
  <2>1. Len(pending') \in Nat /\ Len(pending') <= MaxReply
    BY <1>6, RepliesAreSequences DEF Reply
  <2>2. pc = "ask" /\ pc' \in {"measure", "call"}
    BY <1>6 DEF Reply, Step
  <2>3. UNCHANGED <<calls, completed, oks, crashes>>
    BY <1>6 DEF Reply
  <2> QED
    BY SMTT(40), <2>1, <2>2, <2>3
<1>7. CASE CallTool
  BY SMTT(40), <1>7 DEF CallTool, Step
<1>8. CASE RunTool
  <2>1. UNCHANGED <<oks, crashes, pending>> /\ calls' = calls + 1
    BY <1>8 DEF RunTool
  <2>2. pc = "run" /\ pc' = "record" /\ Len(pending) >= 1
    BY <1>8, AtHand DEF RunTool, Step
  <2>3. \/ completed' = completed + 1 /\ answer' \in Results
        \/ completed' = completed
    BY <1>8 DEF RunTool
  <2> QED
    BY SMTT(40), <2>1, <2>2, <2>3
<1>9. CASE RecordResult
  <2>1. UNCHANGED <<calls, completed, crashes>> /\ oks' = oks + 1 /\ answer \in Results
    BY <1>9 DEF RecordResult
  <2>2. /\ pc = "record" /\ pc' \in {"step", "call"}
        /\ Len(pending') \in Nat /\ Len(pending') = Len(pending) - 1
    BY <1>9, AtHand DEF RecordResult, Step, Onward
  <2> QED
    BY SMTT(40), <2>1, <2>2
<1>10. CASE RecordError
  <2>1. UNCHANGED <<calls, completed, crashes, oks>> /\ answer \notin Results
    BY <1>10, Apart DEF RecordError
  <2>2. /\ pc = "record" /\ pc' \in {"step", "call", "tripped"}
        /\ Len(pending') \in Nat /\ Len(pending') = Len(pending) - 1
    BY <1>10, AtHand DEF RecordError, Step, Onward
  <2> QED
    BY SMTT(40), <2>1, <2>2
<1>11. CASE Measure
  BY <1>11 DEF Measure, Step
<1>12. CASE Crash
  <2>1. UNCHANGED <<completed, oks>> /\ crashes' = crashes + 1 /\ pc' = "down"
    BY <1>12 DEF Crash
  <2>2. /\ completed' <= oks' + crashes' + 1
        /\ completed' <= oks' + crashes'
        /\ completed' < MaxCalls + MaxReply + crashes'
    BY SMTT(40), <2>1
  <2>3. pc' \notin Live \cup {"idle"}
    BY <2>1
  <2> QED
    BY Zenon, <2>1, <2>2, <2>3
<1>13. CASE UNCHANGED vars
  BY <1>13 DEF vars
<1> QED
  BY <1>1, <1>2, <1>3, <1>4, <1>5, <1>6, <1>7, <1>8, <1>9, <1>10, <1>11, <1>12, <1>13
     DEF Next, GoOn

-----------------------------------------------------------------------------
(* Effects.                                                                *)

Answered(c) == pc = "record" /\ answer \in Results /\ Head(pending) = c

\* In a turn the cache is what the trace says, so that a call that is run has no result
\* there; a call took effect once for its result, or for one that is about to be
\* written, and otherwise for a crash or a failure it was reported as.
Once ==
  /\ pc \in {"step", "ask", "call", "run", "record", "measure"} => cache = recorded
  /\ pc = "idle" => cache = recorded
  /\ pc = "run" => cache[Head(pending)] = None
  /\ pc \in Live \cup {"idle"} => ~torn
  /\ \A c \in Calls :
       /\ ran[c] <= crashes + lost + 1
       /\ recorded[c] # None \/ Answered(c) \/ ran[c] <= crashes + lost

\* No action has an effect too many.
LEMMA StepOnce == TypeOK /\ Once /\ [Next]_vars => Once'
<1> SUFFICES ASSUME TypeOK, Once, [Next]_vars PROVE Once'
  OBVIOUS
<1> USE Numbers DEF Once, Answered, Live, budget, turn, loop, trace, history
<1>1. ASSUME NEW m \in {"turn", "improve"}, Start(m) PROVE Once'
  BY <1>1 DEF Start, Step
<1>2. CASE Resume
  BY <1>2 DEF Resume, Step, Restore
<1>3. CASE BeginIteration
  BY <1>3 DEF BeginIteration, Step, Exhausted
<1>4. CASE MakePlan
  BY <1>4 DEF MakePlan, Step
<1>5. CASE NextStep
  BY <1>5 DEF NextStep, Step, Exhausted
<1>6. CASE Reply
  BY <1>6 DEF Reply, Step, Charge
<1>7. CASE CallTool
  BY <1>7 DEF CallTool, Step
<1>8. CASE RunTool
  <2> DEFINE c == Head(pending)
  <2>1. /\ pc = "run" /\ pc' = "record" /\ c \in Calls /\ recorded[c] = None
        /\ UNCHANGED <<cache, recorded, torn, pending, crashes>>
    BY <1>8, AtHand DEF RunTool, Step
  <2>2. ran[c] <= crashes + lost
    BY <2>1
  <2>3. /\ \/ ran' = [ran EXCEPT ![c] = @ + 1] /\ answer' \in Results /\ lost' = lost
           \/ ran' = ran /\ lost' = lost
           \/ ran' = [ran EXCEPT ![c] = @ + 1] /\ lost' = lost + 1
    BY <1>8 DEF RunTool
  <2>4. ran \in [Calls -> Nat]
    BY DEF TypeOK
  <2>5. lost' \in Nat /\ lost' >= lost
    BY <2>3
  <2>6. ASSUME NEW d \in Calls, d # c
        PROVE  /\ ran'[d] <= crashes + lost' + 1
               /\ recorded[d] # None \/ ran'[d] <= crashes + lost'
    <3>1. ran'[d] = ran[d] /\ ran[d] \in Nat
      BY <2>3, <2>4, <2>6
    <3>2. recorded[d] # None \/ ran[d] <= crashes + lost
      BY <2>1, <2>6
    <3>3. ran[d] <= crashes + lost + 1
      OBVIOUS
    <3>4. ran'[d] <= crashes + lost' + 1
      BY SMTT(40), <2>5, <3>1, <3>3
    <3>5. ran[d] <= crashes + lost => ran'[d] <= crashes + lost'
      BY SMTT(40), <2>5, <3>1
    <3> QED
      BY Zenon, <3>2, <3>4, <3>5
  <2>7. /\ ran'[c] <= crashes + lost' + 1
        /\ answer' \in Results \/ ran'[c] <= crashes + lost'
    <3>1. ran[c] \in Nat
      BY <2>1, <2>4
    <3>2. CASE ran' = [ran EXCEPT ![c] = @ + 1]
      <4>1. ran'[c] = ran[c] + 1
        BY <2>1, <2>4, <3>2
      <4>2. (answer' \in Results /\ lost' = lost) \/ lost' = lost + 1
        BY SMTT(30), <2>1, <2>3, <2>4, <3>1, <4>1
      <4> QED
        BY SMTT(40), <2>2, <3>1, <4>1, <4>2
    <3>3. CASE ran' = ran
      BY SMTT(40), <2>2, <2>5, <3>1, <3>3
    <3> QED
      BY <2>3, <3>2, <3>3
  <2> QED
    BY <2>1, <2>6, <2>7
<1>9. CASE RecordResult
  <2> DEFINE c == Head(pending)
  <2>1. /\ pc = "record" /\ pc' \in {"step", "call"} /\ c \in Calls /\ answer \in Results
        /\ recorded' = [recorded EXCEPT ![c] = answer] /\ cache' = recorded' /\ ~torn'
    BY <1>9, AtHand DEF RecordResult, Step, Onward
  <2>2. UNCHANGED <<ran, crashes, lost>>
    BY <1>9 DEF RecordResult
  <2>3. recorded \in [Calls -> Results \cup {None}]
    BY DEF TypeOK
  <2>4. \A d \in Calls : recorded[d] # None \/ Answered(d) => recorded'[d] # None
    BY <2>1, <2>3, Apart
  <2>5. ASSUME NEW d \in Calls
        PROVE  /\ ran[d] <= crashes + lost + 1
               /\ recorded'[d] # None \/ ran[d] <= crashes + lost
    BY <2>4
  <2> QED
    BY <2>1, <2>2, <2>5
<1>10. CASE RecordError
  BY <1>10, AtHand, Apart DEF RecordError, Step, Onward
<1>11. CASE Measure
  BY <1>11 DEF Measure, Step
<1>12. CASE Crash
  <2>1. /\ pc' = "down" /\ crashes' = crashes + 1 /\ UNCHANGED <<ran, lost, recorded>>
    BY <1>12 DEF Crash
  <2>2. ASSUME NEW c \in Calls
        PROVE  ran'[c] <= crashes' + lost' + 1 /\ ran'[c] <= crashes' + lost'
    <3>1. ran[c] \in Nat /\ ran[c] <= crashes + lost + 1
      BY DEF TypeOK
    <3> QED
      BY SMTT(40), <2>1, <3>1
  <2>3. pc' \notin Live \cup {"idle"}
    BY <2>1
  <2> QED
    BY Zenon, <2>1, <2>2, <2>3
<1>13. CASE UNCHANGED vars
  BY <1>13 DEF vars
<1> QED
  BY <1>1, <1>2, <1>3, <1>4, <1>5, <1>6, <1>7, <1>8, <1>9, <1>10, <1>11, <1>12, <1>13
     DEF Next, GoOn

-----------------------------------------------------------------------------
(* Metrics.                                                                *)

\* What is measured is measured on the model at hand, unless it is disowned; what a train
\* or an evaluate has just answered is not the metric yet.
Current ==
  /\ pc = "idle" => metric = None
  /\ ~disowned =>
    IF pc = "record" /\ answer \in Results /\ Head(pending) \in Measures
      THEN answer = model
      ELSE pc \in {"step", "ask", "call", "run", "record", "measure"} /\ metric # None
             => metric = model

\* No action measures another model.
LEMMA StepCurrent == TypeOK /\ Current /\ [Next]_vars => Current'
<1> SUFFICES ASSUME TypeOK, Current, [Next]_vars PROVE Current'
  OBVIOUS
<1> USE Numbers DEF Current, budget, turn, loop, trace, history
<1>1. ASSUME NEW m \in {"turn", "improve"}, Start(m) PROVE Current'
  <2>1. pc = "idle" /\ UNCHANGED <<pending, answer, metric, model, disowned>>
    BY <1>1 DEF Start, Step
  <2>2. metric = None
    BY <2>1
  <2> QED
    BY <1>1, <2>1, <2>2 DEF Start, Step
<1>2. CASE Resume
  BY <1>2 DEF Resume, Step, Restore
<1>3. CASE BeginIteration
  BY <1>3 DEF BeginIteration, Step, Exhausted
<1>4. CASE MakePlan
  BY <1>4 DEF MakePlan, Step
<1>5. CASE NextStep
  BY <1>5 DEF NextStep, Step, Exhausted
<1>6. CASE Reply
  BY <1>6 DEF Reply, Step, Charge
<1>7. CASE CallTool
  BY <1>7, AtHand DEF CallTool, Step
<1>8. CASE RunTool
  <2> DEFINE c == Head(pending)
  <2>1. /\ pc = "run" /\ pc' = "record" /\ c \in Calls /\ UNCHANGED <<pending, metric>>
    BY <1>8, AtHand DEF RunTool, Step
  <2>2. CASE answer' \in Failures /\ UNCHANGED <<model, disowned>>
    BY <2>1, <2>2, Apart
  <2>3. ASSUME NEW result \in Results, Effect(c, result), answer' = result,
               disowned' = (disowned /\ c \notin Measures)
        PROVE  Current'
    <3>1. c \in Measures => answer' = model'
      BY <2>3 DEF Effect
    <3>2. c \notin Measures => model' = model /\ (disowned => disowned')
      BY <2>3 DEF Effect, Measures
    <3> QED
      BY <2>1, <2>3, <3>1, <3>2
  <2>4. ASSUME NEW result \in Results, Effect(c, result), answer' \in Failures,
               disowned' = (disowned \/ c \in Trains)
        PROVE  Current'
    <3>1. ~disowned' => model' = model
      BY <2>4 DEF Effect
    <3> QED
      BY <2>1, <2>4, <3>1, Apart
  <2> QED
    BY <1>8, <2>2, <2>3, <2>4 DEF RunTool
<1>9. CASE RecordResult
  BY <1>9, AtHand, Apart DEF RecordResult, Step, Onward
<1>10. CASE RecordError
  BY <1>10, AtHand, Apart DEF RecordError, Step, Onward
<1>11. CASE Measure
  BY <1>11 DEF Measure, Step
<1>12. CASE Crash
  BY <1>12 DEF Crash
<1>13. CASE UNCHANGED vars
  BY <1>13 DEF vars
<1> QED
  BY <1>1, <1>2, <1>3, <1>4, <1>5, <1>6, <1>7, <1>8, <1>9, <1>10, <1>11, <1>12, <1>13
     DEF Next, GoOn

-----------------------------------------------------------------------------
(* The theorems.                                                           *)

\* A loop begins in its types, with nothing counted, billed, worked or measured.
LEMMA Begins == Init => TypeOK /\ Counted /\ Billed /\ Worked /\ Once /\ Current
<1> SUFFICES ASSUME Init PROVE TypeOK /\ Counted /\ Billed /\ Worked /\ Once /\ Current
  OBVIOUS
<1>1. TypeOK
  <2>1. cache \in [Calls -> Results \cup {None}] /\ recorded \in [Calls -> Results \cup {None}]
    BY DEF Init, NoResults
  <2>2. errors \in [Tools \X Failures -> Nat] /\ ran \in [Calls -> Nat]
    BY DEF Init, NoErrors
  <2>3. /\ pending \in Seq(Calls) /\ Len(pending) = 0
        /\ metrics \in Seq(Results)
    BY DEF Init
  <2>4. answer \in Results \cup Failures /\ metric \in Results \cup {None}
    BY DEF Init, Results
  <2>5. 0 \in 0 .. MaxSteps /\ 0 \in 0 .. MaxCrashes /\ 0 <= MaxReply
    BY Caps
  <2>6. pc = "idle" /\ mode = "improve"
    BY DEF Init
  <2>7. /\ iters \in Nat /\ calls \in Nat /\ usd \in Nat
        /\ plans \in Nat /\ oks \in Nat /\ spent \in Nat
        /\ begun \in Nat /\ completed \in Nat /\ lost \in Nat /\ bill \in Nat
        /\ waived \in Nat
    BY DEF Init
  <2>8. /\ torn \in BOOLEAN /\ disowned \in BOOLEAN /\ model \in Metrics \cup {None}
        /\ step \in 0 .. MaxSteps /\ crashes \in 0 .. MaxCrashes
    BY <2>5 DEF Init
  <2>9. ~(pc \in {"call", "run", "record"})
    BY <2>6
  <2>10. Len(pending) <= MaxReply
    BY <2>3, <2>5
  <2> QED
    BY <2>1, <2>2, <2>3, <2>4, <2>6, <2>7, <2>8, <2>9, <2>10 DEF TypeOK
<1>2. Counted
  BY Caps DEF Init, Counted
<1>3. Billed
  <2>1. Due(0) = 0
    BY Caps DEF Due
  <2> QED
    BY <2>1, Caps DEF Init, Billed
<1>4. Worked
  BY Caps DEF Init, Worked
<1>5. Once
  BY DEF Init, Once, NoResults
<1>6. Current
  BY DEF Init, Current
<1> QED
  BY <1>1, <1>2, <1>3, <1>4, <1>5, <1>6

\* Every variable of the loop stays in its type, and a call is at hand where one is
\* handled.
THEOREM TypeCorrect == Spec => []TypeOK
<1>1. Init => TypeOK
  BY Begins
<1>2. TypeOK /\ [Next]_vars => TypeOK'
  BY StepTyped
<1> QED
  BY <1>1, <1>2, PTL DEF Spec

\* max_iters bounds the iterations of all lives of a loop together, for every cap, every
\* number of crashes and every answer of the LLM and the tools (budget.py:39-47,
\* improve.py:49-58).
THEOREM IterationsAreBounded == Spec => []IterationsBounded
<1>1. Init => Counted
  BY Begins
<1>2. TypeOK /\ Counted /\ [Next]_vars => Counted'
  BY StepCounted
<1>3. Counted => IterationsBounded
  BY DEF Counted, IterationsBounded
<1> QED
  BY <1>1, <1>2, <1>3, TypeCorrect, PTL DEF Spec

\* The provider bills less than max_usd, what has no price, and a call of the LLM for the
\* last check, each iteration and each crash, in all lives of a loop together
\* (budget.py:39-67, 75-83, executor.py:95-106, improve.py:62).
THEOREM BillIsBounded == Spec => []BillBounded
<1>1. Init => Counted /\ Billed
  BY Begins
<1>2. TypeOK /\ Counted /\ Billed /\ [Next]_vars => Counted' /\ Billed'
  BY StepCounted, StepBilled
<1>3. TypeOK /\ Counted /\ Billed => BillBounded
  <2> SUFFICES ASSUME TypeOK, Counted, Billed PROVE BillBounded
    OBVIOUS
  <2> DEFINE n == begun + crashes
             m == MaxIters + crashes
             d == n * MaxCost
             e == m * MaxCost
  <2>1. n \in Nat /\ m \in Nat /\ n <= m /\ spent \in Nat /\ waived \in Nat /\ bill \in Nat
    BY Numbers, Caps DEF Counted
  <2>2. d <= e /\ d \in Nat /\ e \in Nat
    BY <2>1, TimesGrow, Caps
  <2>3. bill <= (spent + waived) + d /\ spent < MaxUsd + MaxCost
    BY DEF Billed, Due
  <2>4. (1 + MaxIters + crashes) * MaxCost = MaxCost + e
    <3>1. MaxIters \in Int /\ crashes \in Int /\ MaxCost \in Int
      BY Caps, Numbers
    <3>2. 1 + MaxIters + crashes = 1 + m /\ m \in Int
      BY <3>1
    <3> HIDE DEF m
    <3> QED
      BY <3>1, <3>2
  <2> HIDE DEF n, m, d, e
  <2>5. bill < MaxUsd + waived + (MaxCost + e)
    BY <2>1, <2>2, <2>3, Caps
  <2> QED
    BY <2>4, <2>5 DEF BillBounded
<1> QED
  BY <1>1, <1>2, <1>3, TypeCorrect, PTL DEF Spec

\* What gets done exceeds max_tool_calls by less than one reply and one run per crash
\* (executor.py:89, 133-159; budget.py:39-47).
THEOREM ToolRunsAreBounded == Spec => []ToolRunsBounded
<1>1. Init => Worked
  BY Begins
<1>2. TypeOK /\ Worked /\ [Next]_vars => Worked'
  BY StepWorked
<1>3. Worked => ToolRunsBounded
  BY DEF Worked, ToolRunsBounded
<1> QED
  BY <1>1, <1>2, <1>3, TypeCorrect, PTL DEF Spec

\* A call takes effect once, and once more for each crash and each effect that was reported
\* as a failure (executor.py:41-46, 154-182; tools.py:344-350).
THEOREM EffectsAreBounded == Spec => []EffectsBounded
<1>1. Init => Once
  BY Begins
<1>2. TypeOK /\ Once /\ [Next]_vars => Once'
  BY StepOnce
<1>3. TypeOK /\ Once => EffectsBounded
  <2> SUFFICES ASSUME TypeOK, Once, NEW c \in Calls PROVE ran[c] <= 1 + crashes + lost
    BY DEF EffectsBounded
  <2>1. ran[c] \in Nat /\ crashes \in Nat /\ lost \in Nat
    BY Numbers DEF TypeOK
  <2>2. ran[c] <= crashes + lost + 1
    BY DEF Once
  <2> QED
    BY <2>1, <2>2
<1> QED
  BY <1>1, <1>2, <1>3, TypeCorrect, PTL DEF Spec

\* A call whose result is in the trace never runs again, in no life of the loop, and
\* nothing runs on top of a torn line (improve.py:6-8, trace.py:48-58).
THEOREM RecordedCallsNeverRerun == Spec => NeverRerun
<1>1. Init => Once
  BY Begins
<1>2. TypeOK /\ Once /\ [Next]_vars => Once'
  BY StepOnce
<1>3. TypeOK /\ Once /\ [Next]_vars
        => [\A c \in Calls : torn \/ recorded[c] # None => ran'[c] = ran[c]]_vars
  <2> SUFFICES ASSUME TypeOK, Once, [Next]_vars, NEW c \in Calls, torn \/ recorded[c] # None
               PROVE  ran'[c] = ran[c]
    OBVIOUS
  <2>1. CASE RunTool
    <3>1. pc = "run" /\ Head(pending) \in Calls
      BY <2>1, AtHand DEF RunTool, Step
    <3>2. ~torn /\ recorded[Head(pending)] = None
      BY <3>1 DEF Once, Live
    <3>3. Head(pending) # c
      BY <3>2
    <3>4. ran' = [ran EXCEPT ![Head(pending)] = @ + 1] \/ ran' = ran
      BY <2>1 DEF RunTool
    <3> QED
      BY <3>1, <3>3, <3>4 DEF TypeOK
  <2>2. CASE ~RunTool
    <3>1. ran' = ran
      BY <2>2 DEF Next, GoOn, vars, history, Start, Resume, BeginIteration, MakePlan, NextStep,
                  Reply, CallTool, RecordResult, RecordError, Measure, Crash
    <3> QED
      BY <3>1
  <2> QED
    BY <2>1, <2>2
<1> QED
  BY <1>1, <1>2, <1>3, TypeCorrect, PTL DEF Spec, NeverRerun

\* Unless a measure was replayed, or a train published and then reported a failure, and
\* nothing was measured after that, the metric a turn ends with is that of the model now in
\* STATE (executor.py:41-46, 154; train.py:195; improve.py:119-128).
THEOREM MetricsAreTheModels == Spec => []MetricIsTheModels
<1>1. Init => Current
  BY Begins
<1>2. TypeOK /\ Current /\ [Next]_vars => Current'
  BY StepCurrent
<1>3. Current => MetricIsTheModels
  BY DEF Current, MetricIsTheModels
<1> QED
  BY <1>1, <1>2, <1>3, TypeCorrect, PTL DEF Spec

-----------------------------------------------------------------------------
(* The ledger.  A result is on its way only when its call took effect, or  *)
(* is the entry itself, replayed.                                          *)

Backed ==
  pc = "record" /\ answer \in Results =>
    IF recorded[Head(pending)] = None
      THEN ran[Head(pending)] > 0
      ELSE answer = recorded[Head(pending)]

\* Every step of the loop is a step of the ledger or leaves it as it is.
LEMMA StepLedger ==
  TypeOK /\ Once /\ Backed /\ [Next]_vars => Backed' /\ [Ledger!LNext]_(Ledger!lvars)
<1> SUFFICES ASSUME TypeOK, Once, Backed, [Next]_vars
             PROVE  Backed' /\ [Ledger!LNext]_(Ledger!lvars)
  OBVIOUS
<1> DEFINE c == Head(pending)
           quiet == UNCHANGED <<recorded, ran, crashes, lost>>
<1>0. quiet => UNCHANGED Ledger!lvars
  BY DEF Ledger!lvars
<1>1. CASE RunTool
  <2>1. /\ pc = "run" /\ c \in Calls /\ recorded[c] = None
        /\ UNCHANGED <<pending, recorded, crashes>>
    BY <1>1, AtHand DEF RunTool, Step, Once, trace
  <2>2. ran \in [Calls -> Nat] /\ ran[c] \in Nat /\ ran[c] <= crashes + lost
        /\ crashes \in Nat /\ lost \in Nat
    BY <2>1, Numbers DEF Once, Answered, TypeOK
  <2>3. \/ ran' = [ran EXCEPT ![c] = @ + 1] /\ lost' \in {lost, lost + 1}
        \/ ran' = ran /\ lost' = lost /\ answer' \in Failures
    BY <1>1 DEF RunTool
  <2>4. CASE ran' = [ran EXCEPT ![c] = @ + 1] /\ lost' \in {lost, lost + 1}
    <3>1. ran'[c] > 0
      BY <2>1, <2>2, <2>4
    <3>2. crashes' + lost' \in {crashes + lost, crashes + lost + 1}
      <4>1. crashes' = crashes
        BY <2>1
      <4>2. crashes \in Nat /\ lost \in Nat
        BY <2>2
      <4>3. lost' = lost \/ lost' = lost + 1
        BY <2>4
      <4> HIDE <1>0
      <4>4. CASE lost' = lost
        BY <4>1, <4>4
      <4>5. CASE lost' = lost + 1
        <5>1. crashes + (lost + 1) = (crashes + lost) + 1
          BY <4>2
        <5> QED
          BY <4>1, <4>5, <5>1
      <4> QED
        BY <4>3, <4>4, <4>5
    <3>3. Ledger!TakeEffect(c)
      BY <2>1, <2>2, <2>4, <3>2 DEF Ledger!TakeEffect
    <3>4. Backed'
      BY <2>1, <3>1 DEF Backed
    <3> QED
      BY <2>1, <3>3, <3>4 DEF Ledger!LNext
  <2>5. CASE ran' = ran /\ lost' = lost /\ answer' \in Failures
    <3>1. Backed'
      BY <2>5, Apart DEF Backed
    <3> QED
      BY <1>0, <2>1, <2>5, <3>1
  <2> QED
    BY <2>3, <2>4, <2>5
<1>2. CASE RecordResult
  <2>1. /\ pc = "record" /\ pc' # "record" /\ c \in Calls /\ answer \in Results
        /\ recorded' = [recorded EXCEPT ![c] = answer]
        /\ UNCHANGED <<ran, crashes, lost>>
    BY <1>2, AtHand DEF RecordResult, Step, Onward, history
  <2>2. Backed'
    BY <2>1 DEF Backed
  <2>3. CASE recorded[c] = None
    <3>1. ran[c] > 0
      BY <2>1, <2>3 DEF Backed
    <3>2. Ledger!Enter(c)
      BY <2>1, <2>3, <3>1 DEF Ledger!Enter
    <3> QED
      BY <2>1, <2>2, <3>2 DEF Ledger!LNext
  <2>4. CASE recorded[c] # None
    <3>1. answer = recorded[c]
      BY <2>1, <2>4 DEF Backed
    <3>2. recorded' = recorded
      BY <2>1, <3>1 DEF TypeOK
    <3> QED
      BY <1>0, <2>1, <2>2, <3>2
  <2> QED
    BY <2>3, <2>4
<1>3. CASE Crash
  <2>1. /\ pc' = "down" /\ crashes' = crashes + 1 /\ UNCHANGED <<recorded, ran, lost>>
    BY <1>3 DEF Crash
  <2>2. crashes' + lost' = crashes + lost + 1
    BY <2>1, Numbers
  <2>3. Ledger!Lose
    BY <2>1, <2>2 DEF Ledger!Lose
  <2> QED
    BY <2>1, <2>3 DEF Backed, Ledger!LNext
<1>4. CASE CallTool
  <2>1. /\ pc = "call" /\ quiet /\ pending' = pending
        /\ pc' = "record" => cache[c] # None /\ answer' = cache[c]
    BY <1>4 DEF CallTool, Step, trace
  <2>2. cache = recorded
    BY <2>1 DEF Once
  <2> QED
    BY <1>0, <2>1, <2>2 DEF Backed
<1>5. CASE \/ \E m \in {"turn", "improve"} : Start(m)
           \/ Resume \/ BeginIteration \/ MakePlan \/ NextStep \/ Reply \/ RecordError \/ Measure
  <2>1. quiet
    BY <1>5 DEF Start, Resume, BeginIteration, MakePlan, NextStep, Reply, RecordError, Measure,
                trace, history
  <2>2. pc' # "record"
    BY <1>5 DEF Start, Resume, BeginIteration, MakePlan, NextStep, Reply, RecordError, Measure,
                Step, Onward
  <2> QED
    BY <1>0, <2>1, <2>2 DEF Backed
<1>6. CASE UNCHANGED vars
  <2>1. quiet /\ UNCHANGED <<pc, answer, pending>>
    BY <1>6 DEF vars, turn, trace, history
  <2> QED
    BY <1>0, <2>1 DEF Backed
<1> QED
  BY <1>1, <1>2, <1>3, <1>4, <1>5, <1>6 DEF Next, GoOn

\* The trace is a ledger of tool calls in all lives of a loop: a result is written once,
\* only for a call that took effect, and never changes (trace.py:48-58,
\* executor.py:100-184).
THEOREM ImplementsLedger == Spec => LedgerSpec
<1>1. Init => Once /\ Backed /\ Ledger!LInit
  <2> SUFFICES ASSUME Init PROVE Once /\ Backed /\ Ledger!LInit
    OBVIOUS
  <2>1. pc = "idle" /\ recorded = NoResults /\ ran = [c \in Calls |-> 0] /\ crashes + lost = 0
    BY DEF Init
  <2>2. Ledger!LInit
    BY <2>1 DEF Ledger!LInit, NoResults
  <2> QED
    BY <2>1, <2>2, Begins DEF Backed
<1>2. TypeOK /\ Once /\ [Next]_vars => Once'
  BY StepOnce
<1> QED
  BY <1>1, <1>2, TypeCorrect, StepLedger, PTL DEF Spec, LedgerSpec, Ledger!LSpec

-----------------------------------------------------------------------------
(* Sums.  Plateaued compares the sums of two halves of the recent metrics. *)

\* A set of natural numbers that is not empty has a least one.
LEMMA LeastOf ==
  ASSUME NEW T, T \subseteq Nat, T # {}
  PROVE  \E x \in T : \A y \in T : x <= y
<1>1. PICK x \in T : \A y \in T : ~(<<y, x>> \in OpToRel(<, Nat))
  BY WFMin, NatLessThanWellFounded
<1>2. ASSUME NEW y \in T, y < x PROVE FALSE
  <2>1. <<y, x>> \in {ss \in Nat \X Nat : ss[1] < ss[2]}
    BY <1>2
  <2> QED
    BY <2>1, <1>1 DEF OpToRel
<1> QED
  BY <1>2

\* How FoldLeft adds up the entries of w at a set of places, the last of them last.
AddsUp(w, D, g) ==
  g = [S \in SUBSET D |-> IF S = {} THEN 0 ELSE g[S \ {Max(S)}] + w[Max(S)]]

\* The last place of an initial segment, and of any set of places it belongs to.
LEMMA LastPlace ==
  ASSUME NEW n \in Nat \ {0}, NEW S \in SUBSET (1 .. n), n \in S
  PROVE  Max(S) = n
<1>1. \A y \in S : n >= y
  OBVIOUS
<1>2. ASSUME NEW m \in S, \A y \in S : m >= y PROVE m = n
  BY <1>1, <1>2
<1> QED
  BY <1>1, <1>2 DEF Max

\* The sums exist: those of n places extend those of n - 1.
LEMMA SumsExist ==
  ASSUME NEW w, NEW n \in Nat
  PROVE  \E g : AddsUp(w, 1 .. n, g)
<1> DEFINE T == {k \in Nat : ~\E g : AddsUp(w, 1 .. k, g)}
<1> SUFFICES ASSUME T # {} PROVE FALSE
  OBVIOUS
<1>1. PICK k \in T : \A j \in T : k <= j
  BY LeastOf, T \subseteq Nat
<1>2. k # 0
  <2> DEFINE g == [S \in SUBSET (1 .. 0) |-> 0]
  <2>1. SUBSET (1 .. 0) = {{}}
    OBVIOUS
  <2>2. g = [S \in SUBSET (1 .. 0) |-> IF S = {} THEN 0 ELSE g[S \ {Max(S)}] + w[Max(S)]]
    BY <2>1
  <2>3. AddsUp(w, 1 .. 0, g)
    BY <2>2 DEF AddsUp
  <2> QED
    BY <2>3
<1>3. k - 1 \in Nat /\ k - 1 \notin T
  BY <1>1, <1>2
<1>4. PICK f : AddsUp(w, 1 .. (k - 1), f)
  BY <1>3
<1> DEFINE g == [S \in SUBSET (1 .. k) |-> IF k \in S THEN f[S \ {k}] + w[k] ELSE f[S]]
<1>5. ASSUME NEW S \in SUBSET (1 .. k)
      PROVE  g[S] = IF S = {} THEN 0 ELSE g[S \ {Max(S)}] + w[Max(S)]
  <2>1. CASE k \in S
    <3>1. Max(S) = k
      BY <1>2, <2>1, LastPlace
    <3>2. S \ {k} \in SUBSET (1 .. k) /\ k \notin S \ {k}
      OBVIOUS
    <3> QED
      BY <2>1, <3>1, <3>2
  <2>2. CASE k \notin S
    <3>1. S \in SUBSET (1 .. (k - 1))
      BY <1>3, <2>2
    <3>2. f[S] = IF S = {} THEN 0 ELSE f[S \ {Max(S)}] + w[Max(S)]
      BY <1>4, <3>1 DEF AddsUp
    <3>3. k \notin S \ {Max(S)} /\ S \ {Max(S)} \in SUBSET (1 .. k)
      BY <2>2
    <3> QED
      BY <2>2, <3>2, <3>3
  <2> QED
    BY <2>1, <2>2
<1>6. AddsUp(w, 1 .. k, g)
  BY <1>5 DEF AddsUp
<1> QED
  BY <1>1, <1>6

\* Sum adds one entry at a time.
LEMMA PartialSums ==
  ASSUME NEW w \in Seq(Int)
  PROVE  \E p \in [0 .. Len(w) -> Int] :
           /\ p[0] = 0 /\ Sum(w) = p[Len(w)]
           /\ \A k \in 1 .. Len(w) : p[k] = p[k - 1] + w[k]
<1> DEFINE n == Len(w)
<1>1. n \in Nat /\ DOMAIN w = 1 .. n /\ \A k \in 1 .. n : w[k] \in Int
  OBVIOUS
<1> DEFINE g == CHOOSE h : AddsUp(w, DOMAIN w, h)
<1>2. Sum(w) = g[DOMAIN w]
  BY DEF Sum, FoldLeft, MapThenFoldSet, AddsUp
<1> HIDE DEF n
<1>3. AddsUp(w, 1 .. n, g)
  <2>1. \E h : AddsUp(w, DOMAIN w, h)
    BY <1>1, SumsExist
  <2> QED
    BY <1>1, <2>1
<1> HIDE DEF g
<1>4. g[1 .. 0] = 0
  BY <1>1, <1>3 DEF AddsUp
<1>5. ASSUME NEW k \in 1 .. n PROVE g[1 .. k] = g[1 .. (k - 1)] + w[k]
  <2>1. Max(1 .. k) = k
    BY <1>1, LastPlace
  <2>2. 1 .. k # {} /\ (1 .. k) \ {k} = 1 .. (k - 1) /\ 1 .. k \in SUBSET (1 .. n)
    BY <1>1
  <2> QED
    BY <1>3, <2>1, <2>2 DEF AddsUp
<1> DEFINE T == {k \in Nat : k <= n /\ g[1 .. k] \notin Int}
<1>6. T = {}
  <2> SUFFICES ASSUME T # {} PROVE FALSE
    OBVIOUS
  <2>1. PICK k \in T : \A j \in T : k <= j
    BY LeastOf, T \subseteq Nat
  <2>2. k # 0
    BY <1>4
  <2>3. k \in 1 .. n /\ k - 1 \in Nat /\ k - 1 \notin T /\ k - 1 <= n
    BY <1>1, <2>1, <2>2
  <2> QED
    BY <1>1, <1>5, <2>3
<1> DEFINE p == [k \in 0 .. n |-> g[1 .. k]]
<1>7. p \in [0 .. n -> Int]
  BY <1>1, <1>6
<1>8. p[0] = 0 /\ Sum(w) = p[n]
  BY <1>1, <1>2, <1>4
<1>9. \A k \in 1 .. n : p[k] = p[k - 1] + w[k]
  BY <1>1, <1>5
<1> HIDE DEF p
<1> QED
  BY <1>7, <1>8, <1>9 DEF n

\* A sum is at least so many times a lower bound of its entries, and at most so many
\* times an upper bound.
LEMMA SumBounded ==
  ASSUME NEW w \in Seq(Int), NEW a \in Int
  PROVE  /\ Sum(w) \in Int
         /\ (\A i \in 1 .. Len(w) : a <= w[i]) => Len(w) * a <= Sum(w)
         /\ (\A i \in 1 .. Len(w) : w[i] <= a) => Sum(w) <= Len(w) * a
<1> DEFINE n == Len(w)
           Low == \A i \in 1 .. n : a <= w[i]
           High == \A i \in 1 .. n : w[i] <= a
<1>1. n \in Nat /\ \A k \in 1 .. n : w[k] \in Int
  OBVIOUS
<1>2. PICK p \in [0 .. n -> Int] :
        /\ p[0] = 0 /\ Sum(w) = p[n]
        /\ \A k \in 1 .. n : p[k] = p[k - 1] + w[k]
  BY PartialSums
<1> HIDE DEF n
<1> DEFINE Within(k) == (Low => k * a <= p[k]) /\ (High => p[k] <= k * a)
           T == {k \in Nat : k <= n /\ ~Within(k)}
<1>3. T = {}
  <2> SUFFICES ASSUME T # {} PROVE FALSE
    OBVIOUS
  <2>1. PICK k \in T : \A j \in T : k <= j
    BY LeastOf, T \subseteq Nat
  <2>2. k # 0
    BY <1>2
  <2>3. k \in 1 .. n /\ k - 1 \in Nat /\ k - 1 \notin T /\ k - 1 <= n
    BY <1>1, <2>1, <2>2
  <2>4. Within(k - 1)
    BY <2>3
  <2>5. p[k] = p[k - 1] + w[k] /\ w[k] \in Int
    BY <1>1, <1>2, <2>3
  <2>6. (Low => a <= w[k]) /\ (High => w[k] <= a)
    BY <2>3
  <2>7. p[k - 1] \in Int
    BY <1>1, <1>2, <2>3
  <2>8. k * a = (k - 1) * a + a /\ (k - 1) * a \in Int
    BY <2>3
  <2> HIDE DEF Low, High
  <2>9. Within(k)
    BY SMTT(30), <2>4, <2>5, <2>6, <2>7, <2>8
  <2> QED
    BY <2>9
<1>4. Within(n)
  <2>1. n \in Nat /\ n <= n
    BY <1>1
  <2>2. n \notin T
    BY <1>3
  <2> QED
    BY <2>1, <2>2
<1>5. p[n] \in Int
  BY <1>1, <1>2
<1> QED
  BY <1>2, <1>4, <1>5 DEF n

\* The two halves of a sequence.
LEMMA Halves ==
  ASSUME NEW w \in Seq(Int), NEW h \in 1 .. (Len(w) - 1)
  PROVE  LET old == SubSeq(w, 1, h)
             new == SubSeq(w, h + 1, Len(w))
         IN  /\ old \in Seq(Int) /\ Len(old) = h
             /\ \A i \in 1 .. h : old[i] = w[i]
             /\ new \in Seq(Int) /\ Len(new) = Len(w) - h
             /\ \A i \in 1 .. (Len(w) - h) : new[i] = w[h + i]
  OBVIOUS

\* When each entry is less than the one before by e or more, every entry of the older
\* half is above every entry of the newer by e or more.
LEMMA HalvesApart ==
  ASSUME NEW w \in Seq(Int), NEW e \in Nat, NEW h \in 1 .. (Len(w) - 1),
         \A i \in 1 .. (Len(w) - 1) : w[i] - w[i + 1] >= e
  PROVE  /\ \A i \in 1 .. h : w[i] >= w[h]
         /\ \A i \in (h + 1) .. Len(w) : w[i] <= w[h + 1]
<1> DEFINE n == Len(w)
<1>1. n \in Nat /\ h \in 1 .. (n - 1) /\ \A i \in 1 .. n : w[i] \in Int
  OBVIOUS
<1>2. \A i \in 1 .. (n - 1) : w[i + 1] <= w[i]
  <2> SUFFICES ASSUME NEW i \in 1 .. (n - 1) PROVE w[i + 1] <= w[i]
    OBVIOUS
  <2>1. w[i] \in Int /\ w[i + 1] \in Int /\ w[i] - w[i + 1] >= e
    BY <1>1
  <2> QED
    BY <2>1
<1> HIDE DEF n
<1> DEFINE Before == {d \in Nat : d < h /\ ~(w[h - d] >= w[h])}
           After == {d \in Nat : h + 1 + d <= n /\ ~(w[h + 1 + d] <= w[h + 1])}
<1>3. Before = {}
  <2> SUFFICES ASSUME Before # {} PROVE FALSE
    OBVIOUS
  <2>1. PICK d \in Before : \A c \in Before : d <= c
    BY LeastOf, Before \subseteq Nat
  <2>2. d # 0
    BY <1>1
  <2>3. d - 1 \in Nat /\ d - 1 < h /\ d - 1 \notin Before
    <3>1. d - 1 \in Nat /\ d - 1 < h /\ ~(d <= d - 1)
      BY <1>1, <2>2
    <3> QED
      BY Zenon, <2>1, <3>1
  <2>4. h - d \in 1 .. (n - 1) /\ h - (d - 1) = (h - d) + 1 /\ h \in 1 .. n
        /\ (h - d) + 1 \in 1 .. n /\ h - d \in 1 .. n
    BY <1>1, <2>2
  <2>5. w[(h - d) + 1] >= w[h]
    BY <2>3, <2>4
  <2>6. w[(h - d) + 1] <= w[h - d]
    BY <1>2, <2>4
  <2>7. w[h - d] \in Int /\ w[(h - d) + 1] \in Int /\ w[h] \in Int
    BY <1>1, <2>4
  <2> QED
    BY SMTT(30), <2>5, <2>6, <2>7
<1>4. After = {}
  <2> SUFFICES ASSUME After # {} PROVE FALSE
    OBVIOUS
  <2>1. PICK d \in After : \A c \in After : d <= c
    BY LeastOf, After \subseteq Nat
  <2>2. d # 0
    BY <1>1
  <2>3. d - 1 \in Nat /\ h + 1 + (d - 1) <= n /\ d - 1 \notin After
    <3>1. d - 1 \in Nat /\ h + 1 + (d - 1) <= n /\ ~(d <= d - 1)
      BY <1>1, <2>2
    <3> QED
      BY Zenon, <2>1, <3>1
  <2>4. h + d \in 1 .. (n - 1) /\ h + 1 + (d - 1) = h + d /\ h + 1 + d = (h + d) + 1
        /\ h + d \in 1 .. n /\ (h + d) + 1 \in 1 .. n /\ h + 1 \in 1 .. n
    BY <1>1, <2>2
  <2>5. w[h + d] <= w[h + 1]
    BY <2>3, <2>4
  <2>6. w[(h + d) + 1] <= w[h + d]
    BY <1>2, <2>4
  <2>7. w[h + d] \in Int /\ w[(h + d) + 1] \in Int /\ w[h + 1] \in Int
    BY <1>1, <2>4
  <2>8. w[h + 1 + d] <= w[h + 1]
    BY <2>4, <2>5, <2>6, <2>7
  <2> QED
    BY <2>8
<1>5. ASSUME NEW i \in 1 .. h PROVE w[i] >= w[h]
  <2>1. h - i \in Nat /\ h - i < h /\ h - (h - i) = i
    BY <1>1
  <2>2. h - i \notin Before
    BY <1>3
  <2> QED
    BY <2>1, <2>2
<1>6. ASSUME NEW i \in (h + 1) .. n PROVE w[i] <= w[h + 1]
  <2>1. i - (h + 1) \in Nat /\ h + 1 + (i - (h + 1)) = i /\ i <= n
    BY <1>1
  <2>2. i - (h + 1) \notin After
    BY <1>4
  <2> QED
    BY <2>1, <2>2
<1> QED
  BY <1>5, <1>6 DEF n

\* Sums of h entries of at least a and of r entries of at most b, with e between a and b.
LEMMA MeansApart ==
  ASSUME NEW h \in Nat, NEW r \in Nat, NEW e \in Nat, NEW a \in Int, NEW b \in Int, a - b >= e,
         NEW s \in Int, NEW t \in Int, h * a <= s, t <= r * b
  PROVE  r * s - h * t >= e * h * r
<1>1. r * (h * a) <= r * s
  OBVIOUS
<1>2. h * t <= h * (r * b)
  OBVIOUS
<1>3. r * (h * a) - h * (r * b) = (h * r) * (a - b)
  OBVIOUS
<1>4. (h * r) * (a - b) >= (h * r) * e
  OBVIOUS
<1>5. (h * r) * e = e * h * r
  OBVIOUS
<1> QED
  BY <1>1, <1>2, <1>3, <1>4, <1>5

-----------------------------------------------------------------------------
(* Progress.  What is collected are metrics, and a loop is stopped as a    *)
(* plateau only when the recent ones are flat.                             *)

Measured ==
  /\ metric \in Metrics \cup {None} /\ metrics \in Seq(Metrics)
  /\ \A c \in Measures : /\ recorded[c] \in Metrics \cup {None}
                         /\ cache[c] \in Metrics \cup {None}
  /\ pc = "record" /\ Head(pending) \in Measures => answer \in Metrics \cup Failures
  /\ pc = "plateau" => Len(metrics) >= Window /\ Plateaued(Recent(metrics))

\* What is appended to a sequence over S is a sequence over S, and not the empty one.
LEMMA AppendedIsSeq ==
  ASSUME NEW S, NEW s \in Seq(S), NEW e \in S
  PROVE  Append(s, e) \in Seq(S) /\ Append(s, e) # <<>>
<1>1. Append(s, e) \in Seq(S)
  OBVIOUS
<1>2. Len(Append(s, e)) = Len(s) + 1 /\ Len(s) \in Nat
  OBVIOUS
<1>3. Append(s, e) # <<>>
  BY <1>2
<1> QED
  BY <1>1, <1>3

\* A sequence of integers out of S is a sequence of integers.
LEMMA IntegersOf ==
  ASSUME NEW S, S \subseteq Int, NEW s \in Seq(S)
  PROVE  s \in Seq(Int)
<1>1. Len(s) \in Nat /\ s \in [1 .. Len(s) -> S]
  OBVIOUS
<1>2. s \in [1 .. Len(s) -> Int]
  BY <1>1
<1> QED
  BY <1>1, <1>2

\* No step puts anything but a metric there.
LEMMA StepMeasured == TypeOK /\ Measured /\ [Next]_vars => Measured'
<1> SUFFICES ASSUME TypeOK, Measured, [Next]_vars PROVE Measured'
  OBVIOUS
<1> DEFINE c == Head(pending)
<1>1. CASE RunTool
  <2>1. /\ pc = "run" /\ pc' = "record" /\ c \in Calls
        /\ UNCHANGED <<pending, metric, metrics, recorded, cache>>
    BY <1>1, AtHand DEF RunTool, Step, trace, loop
  <2>2. c \in Measures => answer' \in Metrics \cup Failures
    BY <1>1, AgentAssumption DEF RunTool, Effect, Measures, Failures, TypeOK
  <2> QED
    BY <2>1, <2>2 DEF Measured
<1>2. CASE RecordResult
  <2>1. /\ pc = "record" /\ pc' \in {"step", "call"} /\ c \in Calls /\ answer \in Results
        /\ recorded' = [recorded EXCEPT ![c] = answer] /\ cache' = [cache EXCEPT ![c] = answer]
        /\ metric' = (IF c \in Measures THEN answer ELSE metric) /\ metrics' = metrics
    BY <1>2, AtHand DEF RecordResult, Step, Onward, loop
  <2>2. c \in Measures => answer \in Metrics
    BY <2>1, Apart DEF Measured
  <2>3. \A d \in Measures : /\ recorded'[d] \in Metrics \cup {None}
                            /\ cache'[d] \in Metrics \cup {None}
    BY <2>1, <2>2, AgentAssumption DEF Measured, Measures, TypeOK
  <2> QED
    BY <2>1, <2>2, <2>3 DEF Measured
<1>3. CASE CallTool
  <2>1. /\ pc = "call" /\ pc' \in {"record", "run"} /\ c \in Calls
        /\ UNCHANGED <<pending, metric, metrics, recorded, cache>>
        /\ pc' = "record" => cache[c] # None /\ answer' = cache[c]
    BY <1>3, AtHand DEF CallTool, Step, trace, loop
  <2> QED
    BY <2>1 DEF Measured
<1>4. CASE Measure
  <2>1. /\ pc = "measure" /\ pc' # "record" /\ UNCHANGED <<metric, recorded, cache>>
    BY <1>4 DEF Measure, Step, turn, trace
  <2>2. CASE metric = None \/ mode # "improve"
    BY <1>4, <2>1, <2>2 DEF Measure, Measured, Step
  <2>3. CASE metric # None /\ mode = "improve"
    <3>1. metrics' = Append(metrics, metric) /\ metrics' \in Seq(Metrics)
      <4>1. metrics \in Seq(Metrics) /\ metric \in Metrics
        BY <2>3 DEF Measured
      <4> QED
        BY <1>4, <2>3, <4>1, AppendedIsSeq DEF Measure
    <3>2. pc' = "plateau" => Len(metrics') >= Window /\ Plateaued(Recent(metrics'))
      BY <1>4, <2>3 DEF Measure, Step
    <3>3. metric' \in Metrics \cup {None}
      BY <2>1 DEF Measured
    <3> QED
      BY <2>1, <3>1, <3>2, <3>3 DEF Measured
  <2> QED
    BY <2>2, <2>3
<1>5. CASE MakePlan
  BY <1>5 DEF MakePlan, Step, Measured, loop, trace
<1>6. CASE Crash
  <2>1. /\ pc' = "down" /\ metric' = None /\ metrics' = <<>> /\ recorded' = recorded
        /\ \A d \in Measures : cache'[d] = None
    BY <1>6, AgentAssumption DEF Crash, NoResults, Measures
  <2>2. metrics' \in Seq(Metrics)
    BY <2>1
  <2> QED
    BY <2>1, <2>2 DEF Measured
<1>7. CASE \/ \E m \in {"turn", "improve"} : Start(m)
           \/ Resume \/ BeginIteration \/ NextStep \/ Reply \/ RecordError
  <2>1. UNCHANGED <<metric, metrics, recorded, cache>>
    BY <1>7 DEF Start, Resume, BeginIteration, NextStep, Reply, RecordError, turn, loop, trace
  <2>2. pc' \notin {"record", "plateau"}
    BY <1>7 DEF Start, Resume, BeginIteration, NextStep, Reply, RecordError, Step, Onward
  <2> QED
    BY <2>1, <2>2 DEF Measured
<1>8. CASE UNCHANGED vars
  BY <1>8 DEF vars, turn, loop, trace, Measured
<1> QED
  BY <1>1, <1>2, <1>3, <1>4, <1>5, <1>6, <1>7, <1>8 DEF Next, GoOn

\* The recent metrics are some of the metrics.
LEMMA RecentOf ==
  ASSUME NEW S, NEW s \in Seq(S), Len(s) >= Window
  PROVE  Recent(s) \in Seq(S)
<1> DEFINE m == (IF Window > 0 THEN Len(s) - Window ELSE -Window) + 1
           n == Len(s)
<1>1. n \in Nat /\ m \in Nat /\ m >= 1 /\ \A i \in 1 .. n : s[i] \in S
  BY Caps
<1>2. Recent(s) = SubSeq(s, m, n)
  BY DEF Recent
<1> HIDE DEF m
<1>3. CASE m <= n
  BY <1>1, <1>2, <1>3
<1>4. CASE m > n
  <2>1. 1 .. ((n - m) + 1) = 1 .. 0
    BY <1>1, <1>4
  <2>2. SubSeq(s, m, n) = [i \in 1 .. ((n - m) + 1) |-> s[i + m - 1]]
    BY <1>1
  <2>3. SubSeq(s, m, n) \in [1 .. 0 -> S]
    BY <2>1, <2>2
  <2>4. \A f \in [1 .. 0 -> S] : f \in Seq(S)
    OBVIOUS
  <2> QED
    BY <1>2, <2>3, <2>4
<1> QED
  BY <1>1, <1>3, <1>4

\* A sequence in which each metric improves on the one before by eps is no plateau: the
\* older half is above the newer by eps on average.
LEMMA ImprovingIsNoPlateau ==
  ASSUME NEW w \in Seq(Int), Len(w) > 1, Eps >= 0,
         \A i \in 1 .. (Len(w) - 1) : w[i] - w[i + 1] >= Eps
  PROVE  ~Plateaued(w)
<1> DEFINE n == Len(w)
           h == n \div 2
           r == n - h
           old == SubSeq(w, 1, h)
           new == SubSeq(w, h + 1, n)
<1>1. n \in Nat /\ n >= 2 /\ Eps \in Nat
  BY Caps
<1>2. h \in 1 .. (n - 1) /\ r \in Nat
  BY <1>1
<1>3. /\ old \in Seq(Int) /\ Len(old) = h /\ \A i \in 1 .. h : old[i] = w[i]
      /\ new \in Seq(Int) /\ Len(new) = r /\ \A i \in 1 .. r : new[i] = w[h + i]
  BY <1>2, Halves
<1>4. /\ \A i \in 1 .. h : w[i] >= w[h]
      /\ \A i \in (h + 1) .. n : w[i] <= w[h + 1]
      /\ w[h] - w[h + 1] >= Eps
  BY <1>1, <1>2, HalvesApart
<1>5. \A i \in 1 .. n : w[i] \in Int
  OBVIOUS
<1>6. h + r = n
  BY <1>2
<1>7. ~Plateaued(w) <=> ~(r * Sum(old) - h * Sum(new) < Eps * h * r)
  <2>1. (IF n > 1 THEN n \div 2 ELSE 1) = h
    BY <1>1
  <2>2. (IF n > h THEN n - h ELSE 1) = r /\ (IF n < h THEN n ELSE h) = h
    <3> HIDE DEF h
    <3> QED
      BY <1>1, <1>2
  <2> QED
    BY <2>1, <2>2 DEF Plateaued
<1> HIDE DEF old, new, h, r, n
<1>8. w[h] \in Int /\ w[h + 1] \in Int
  BY <1>1, <1>2, <1>5
<1>9. \A i \in 1 .. Len(old) : w[h] <= old[i]
  <2> SUFFICES ASSUME NEW i \in 1 .. h PROVE w[h] <= old[i]
    BY <1>3
  <2>1. old[i] = w[i] /\ w[i] >= w[h] /\ w[i] \in Int
    BY <1>1, <1>2, <1>3, <1>4, <1>5
  <2> QED
    BY <1>8, <2>1
<1>10. \A i \in 1 .. Len(new) : new[i] <= w[h + 1]
  <2> SUFFICES ASSUME NEW i \in 1 .. r PROVE new[i] <= w[h + 1]
    BY <1>3
  <2>1. h + i \in (h + 1) .. n
    BY <1>1, <1>2, <1>6
  <2> QED
    BY <1>3, <1>4, <2>1
<1>11. Sum(old) \in Int /\ h * w[h] <= Sum(old)
  BY <1>3, <1>8, <1>9, SumBounded
<1>12. Sum(new) \in Int /\ Sum(new) <= r * w[h + 1]
  BY <1>3, <1>8, <1>10, SumBounded
<1>13. r * Sum(old) - h * Sum(new) >= Eps * h * r
  <2>1. h \in Nat /\ r \in Nat /\ Eps \in Nat
    BY <1>1, <1>2
  <2>2. w[h] - w[h + 1] >= Eps /\ h * w[h] <= Sum(old) /\ Sum(new) <= r * w[h + 1]
    BY <1>4, <1>11, <1>12
  <2>3. w[h] \in Int /\ w[h + 1] \in Int /\ Sum(old) \in Int /\ Sum(new) \in Int
    BY <1>8, <1>11, <1>12
  <2> QED
    BY ONLY <2>1, <2>2, <2>3, MeansApart
<1>14. r * Sum(old) - h * Sum(new) \in Int /\ Eps * h * r \in Int
  BY <1>1, <1>2, <1>11, <1>12
<1> QED
  BY <1>7, <1>13, <1>14

\* Nothing adds up to 0.
LEMMA SumOfNone == ASSUME NEW w \in Seq(Int), Len(w) = 0 PROVE Sum(w) = 0
<1>1. PICK p \in [0 .. Len(w) -> Int] : p[0] = 0 /\ Sum(w) = p[Len(w)]
  BY PartialSums
<1> QED
  BY <1>1

\* A single metric, or none, is its own older half and is compared with nothing.
LEMMA SingleIsComparedWithNone ==
  ASSUME NEW w \in Seq(Int), Len(w) <= 1
  PROVE  Plateaued(w) <=> Sum(w) < Eps
<1>1. Len(w) \in {0, 1} /\ w = [i \in 1 .. Len(w) |-> w[i]]
  <2>1. Len(w) \in Nat /\ w \in [1 .. Len(w) -> Int]
    OBVIOUS
  <2> QED
    BY <2>1
<1> DEFINE old == SubSeq(w, 1, IF Len(w) < 1 THEN Len(w) ELSE 1)
           new == SubSeq(w, 1 + 1, Len(w))
<1>2. old = w
  <2>1. (IF Len(w) < 1 THEN Len(w) ELSE 1) = Len(w)
    BY <1>1
  <2>2. SubSeq(w, 1, Len(w)) = w
    BY <1>1
  <2> QED
    BY <2>1, <2>2
<1>3. Sum(new) = 0
  <2>1. 1 .. ((Len(w) - 2) + 1) = 1 .. 0
    BY <1>1
  <2>2. new = [i \in 1 .. ((Len(w) - 2) + 1) |-> w[i + 2 - 1]]
    BY <1>1
  <2>3. new \in [1 .. 0 -> Int]
    BY <2>1, <2>2
  <2>4. new \in Seq(Int) /\ Len(new) = 0
    BY <2>3
  <2> HIDE DEF new
  <2> QED
    BY <2>4, SumOfNone
<1>4. Plateaued(w) <=> 1 * Sum(old) - 1 * Sum(new) < Eps * 1 * 1
  <2>1. (IF Len(w) > 1 THEN Len(w) \div 2 ELSE 1) = 1 /\ (IF Len(w) > 1 THEN Len(w) - 1 ELSE 1) = 1
    BY <1>1
  <2> QED
    BY <2>1 DEF Plateaued
<1>5. Sum(w) \in Int /\ Eps \in Int
  BY SumBounded, 0 \in Int, Caps
<1> HIDE DEF old, new
<1> QED
  BY <1>2, <1>3, <1>4, <1>5

\* A loop whose metric improves by eps from each measured iteration to the next is never
\* stopped as a plateau, for every window, the shortest included, and every eps that is not
\* negative (improve.py:134-181).
THEOREM PlateausAreFlat == Spec => []ProgressGoesOn
<1>1. Init => Measured
  <2> SUFFICES ASSUME Init PROVE Measured
    OBVIOUS
  <2>1. /\ pc = "idle" /\ metric = None /\ metrics = <<>>
        /\ \A d \in Measures : recorded[d] = None /\ cache[d] = None
    BY AgentAssumption DEF Init, NoResults, Measures
  <2>2. metrics \in Seq(Metrics)
    BY <2>1
  <2> QED
    BY <2>1, <2>2 DEF Measured
<1>2. TypeOK /\ Measured => ProgressGoesOn
  <2> DEFINE w == Recent(metrics)
  <2> SUFFICES ASSUME Measured, pc = "plateau", Eps >= 0
               PROVE  IF Len(w) > 1 THEN \E i \in 1 .. (Len(w) - 1) : w[i] - w[i + 1] < Eps
                                    ELSE Sum(w) < Eps
    BY DEF ProgressGoesOn
  <2>1. w \in Seq(Int) /\ Plateaued(w)
    <3>1. metrics \in Seq(Metrics) /\ Len(metrics) >= Window /\ Plateaued(w)
      BY DEF Measured
    <3>2. w \in Seq(Metrics) /\ Metrics \subseteq Int
      BY <3>1, RecentOf, AgentAssumption
    <3> HIDE DEF w
    <3>3. w \in Seq(Int)
      BY <3>2, IntegersOf
    <3> QED
      BY <3>1, <3>3
  <2> HIDE DEF w
  <2>2. CASE Len(w) > 1
    <3>1. SUFFICES ASSUME \A i \in 1 .. (Len(w) - 1) : ~(w[i] - w[i + 1] < Eps) PROVE FALSE
      BY <2>2
    <3>2. ASSUME NEW i \in 1 .. (Len(w) - 1) PROVE w[i] - w[i + 1] >= Eps
      <4>1. w[i] \in Int /\ w[i + 1] \in Int
        BY <2>1
      <4> QED
        BY <3>1, <4>1, Caps
    <3> QED
      BY <2>1, <2>2, <3>2, ImprovingIsNoPlateau
  <2>3. CASE ~(Len(w) > 1)
    <3>1. Len(w) <= 1
      BY <2>1, <2>3
    <3> QED
      BY <2>1, <2>3, <3>1, SingleIsComparedWithNone
  <2> QED
    BY <2>2, <2>3
<1> QED
  BY <1>1, <1>2, TypeCorrect, StepMeasured, PTL DEF Spec

-----------------------------------------------------------------------------
(* Every run is finite: what is left falls with every step, in an order    *)
(* that has no endless descent.                                            *)

Ranks == [1 .. 8 -> Nat]
Below == {p \in Ranks \X Ranks : Less(p[1], p[2])}

\* The elements of V that are least in place i.
Least(V, i) == {x \in V : \A y \in V : x[i] <= y[i]}

\* Of any set of ranks some are least in a given place.
LEMMA LeastAt ==
  ASSUME NEW V, V \subseteq Ranks, V # {}, NEW i \in 1 .. 8
  PROVE  Least(V, i) # {} /\ Least(V, i) \subseteq Ranks
<1> DEFINE W == {x[i] : x \in V}
<1>1. W \subseteq Nat /\ W # {}
  BY DEF Ranks
<1>2. PICK m \in W : \A n \in W : m <= n
  BY <1>1, LeastOf
<1>3. PICK x \in V : x[i] = m
  BY <1>2
<1>4. x \in Least(V, i)
  BY <1>2, <1>3 DEF Least
<1> QED
  BY <1>4 DEF Least

\* What is least in a place is below nothing that agrees with it up to there.
LEMMA LeastStays ==
  ASSUME NEW V, V \subseteq Ranks, NEW i \in 1 .. 8, NEW x \in Least(V, i), NEW y \in V
  PROVE  /\ x \in V /\ ~(y[i] < x[i])
         /\ y[i] = x[i] => y \in Least(V, i)
<1>1. x \in V /\ \A z \in V : x[i] <= z[i]
  BY DEF Least
<1>2. \A z \in V : z[i] \in Nat
  BY DEF Ranks
<1>3. ~(y[i] < x[i])
  BY <1>1, <1>2
<1>4. y[i] = x[i] => y \in Least(V, i)
  BY <1>1 DEF Least
<1> QED
  BY <1>1, <1>3, <1>4

\* The order of what is left has no endless descent.
THEOREM NoEndlessDescent == IsWellFoundedOn(Below, Ranks)
<1> SUFFICES ASSUME NEW T \in SUBSET Ranks, T # {}
             PROVE  \E x \in T : \A y \in T : ~(<<y, x>> \in Below)
  BY MinWF
<1> DEFINE T1 == Least(T, 1)
           T2 == Least(T1, 2)
           T3 == Least(T2, 3)
           T4 == Least(T3, 4)
           T5 == Least(T4, 5)
           T6 == Least(T5, 6)
           T7 == Least(T6, 7)
           T8 == Least(T7, 8)
<1>1. T1 # {} /\ T1 \subseteq Ranks
  BY LeastAt
<1>2. T2 # {} /\ T2 \subseteq Ranks
  <2> HIDE DEF T1
  <2> QED
    BY <1>1, LeastAt
<1>3. T3 # {} /\ T3 \subseteq Ranks
  <2> HIDE DEF T2
  <2> QED
    BY <1>2, LeastAt
<1>4. T4 # {} /\ T4 \subseteq Ranks
  <2> HIDE DEF T3
  <2> QED
    BY <1>3, LeastAt
<1>5. T5 # {} /\ T5 \subseteq Ranks
  <2> HIDE DEF T4
  <2> QED
    BY <1>4, LeastAt
<1>6. T6 # {} /\ T6 \subseteq Ranks
  <2> HIDE DEF T5
  <2> QED
    BY <1>5, LeastAt
<1>7. T7 # {} /\ T7 \subseteq Ranks
  <2> HIDE DEF T6
  <2> QED
    BY <1>6, LeastAt
<1>8. T8 # {} /\ T8 \subseteq Ranks
  <2> HIDE DEF T7
  <2> QED
    BY <1>7, LeastAt
<1>9. PICK x : x \in T8
  BY <1>8
<1>10. /\ x \in T7 /\ x \in T6 /\ x \in T5 /\ x \in T4
       /\ x \in T3 /\ x \in T2 /\ x \in T1 /\ x \in T
  BY <1>9 DEF Least
<1>11. ASSUME NEW y \in T, NEW i \in 1 .. 8, y[i] < x[i],
              \A k \in 1 .. (i - 1) : y[k] = x[k]
       PROVE  FALSE
  <2>1. \A k \in 1 .. 8 : k < i => y[k] = x[k]
    BY <1>11
  <2>2. i # 1 /\ y \in T1
    BY <1>10, <1>11, <2>1, LeastStays
  <2>3. i # 2 /\ y \in T2
    <3> HIDE DEF T1
    <3> QED
      BY <1>1, <1>10, <1>11, <2>1, <2>2, LeastStays
  <2>4. i # 3 /\ y \in T3
    <3> HIDE DEF T2
    <3> QED
      BY <1>2, <1>10, <1>11, <2>1, <2>2, <2>3, LeastStays
  <2>5. i # 4 /\ y \in T4
    <3> HIDE DEF T3
    <3> QED
      BY <1>3, <1>10, <1>11, <2>1, <2>2, <2>3, <2>4, LeastStays
  <2>6. i # 5 /\ y \in T5
    <3> HIDE DEF T4
    <3> QED
      BY <1>4, <1>10, <1>11, <2>1, <2>2, <2>3, <2>4, <2>5, LeastStays
  <2>7. i # 6 /\ y \in T6
    <3> HIDE DEF T5
    <3> QED
      BY <1>5, <1>10, <1>11, <2>1, <2>2, <2>3, <2>4, <2>5, <2>6, LeastStays
  <2>8. i # 7 /\ y \in T7
    <3> HIDE DEF T6
    <3> QED
      BY <1>6, <1>10, <1>11, <2>1, <2>2, <2>3, <2>4, <2>5, <2>6, <2>7, LeastStays
  <2>9. i # 8
    <3> HIDE DEF T7
    <3> QED
      BY <1>7, <1>9, <1>11, <2>8, LeastStays
  <2> QED
    BY <2>2, <2>3, <2>4, <2>5, <2>6, <2>7, <2>8, <2>9
<1>12. ASSUME NEW y \in T, <<y, x>> \in Below PROVE FALSE
  <2>1. Less(y, x)
    BY <1>12 DEF Below
  <2> QED
    BY <1>11, <2>1 DEF Less
<1> QED
  BY <1>10, <1>12

\* What is left is eight numbers.
LEMMA LeftIsRank == TypeOK => Left \in Ranks
<1> SUFFICES ASSUME TypeOK PROVE Left \in Ranks
  OBVIOUS
<1>1. /\ MaxCrashes - crashes \in Nat /\ MaxSteps - step \in Nat /\ Len(pending) \in Nat
      /\ iters < MaxIters => MaxIters - iters \in Nat
  BY Caps, Numbers DEF TypeOK
<1>2. ASSUME NEW a \in Nat, NEW b \in Nat, NEW c \in Nat, NEW d \in Nat,
             NEW e \in Nat, NEW f \in Nat, NEW g \in Nat, NEW h \in Nat
      PROVE  <<a, b, c, d, e, f, g, h>> \in Ranks
  BY DEF Ranks
<1> QED
  BY <1>1, <1>2 DEF Left

\* A rank that is lower in one place and the same before it is lower.
LEMMA Lexically ==
  ASSUME NEW a, NEW b
  PROVE  /\ a[1] < b[1] => Less(a, b)
         /\ a[1] = b[1] =>
           /\ a[2] < b[2] => Less(a, b)
           /\ a[2] = b[2] /\ a[3] < b[3] => Less(a, b)
           /\ a[2] = b[2] /\ a[3] = b[3] =>
             /\ a[4] < b[4] => Less(a, b)
             /\ a[4] = b[4] /\ a[5] < b[5] => Less(a, b)
             /\ a[4] = b[4] /\ a[5] = b[5] =>
               /\ a[6] < b[6] => Less(a, b)
               /\ a[6] = b[6] /\ a[7] < b[7] => Less(a, b)
               /\ a[6] = b[6] /\ a[7] = b[7] /\ a[8] < b[8] => Less(a, b)
<1>1. ASSUME NEW i \in 1 .. 8, a[i] < b[i], \A k \in 1 .. 8 : k < i => a[k] = b[k]
      PROVE  Less(a, b)
  BY <1>1 DEF Less
<1>2. \A k \in 1 .. 8 : k = 1 \/ k = 2 \/ k = 3 \/ k = 4 \/ k = 5 \/ k = 6 \/ k = 7 \/ k = 8
  OBVIOUS
<1> QED
  BY <1>1, <1>2

\* Each action takes something away and leaves what changes more seldom as it was.
LEMMA StepFalls == TypeOK /\ [Next]_vars => [Less(Left', Left)]_vars
<1> SUFFICES ASSUME TypeOK, Next PROVE Less(Left', Left)
  OBVIOUS
<1> SUFFICES ASSUME NEW a, a = Left', NEW b, b = Left PROVE Less(a, b)
  OBVIOUS
<1> USE Numbers, Caps DEF Left, Step, budget, turn, loop, trace, history
<1>1. ASSUME NEW m \in {"turn", "improve"}, Start(m) PROVE a[2] < b[2] /\ a[1] = b[1]
  BY <1>1 DEF Start, Live
<1>2. CASE Resume
  <2>0. pc = "down" /\ pc' \in {"check", "unreadable"} /\ crashes' = crashes
    BY ONLY <1>2 DEF Resume, Step, budget, turn, loop, trace, history
  <2>1. a[2] < b[2] /\ a[1] = b[1]
    <3>1. b[2] = 2 /\ a[1] = b[1]
      BY <2>0 DEF Live
    <3>2. a[2] = 0 \/ a[2] = 1
      BY <2>0 DEF Live
    <3> QED
      BY ONLY <3>1, <3>2
  <2> QED
    BY ONLY <2>1, Lexically
<1>3. CASE BeginIteration
  <2>1. CASE pc' = "plan"
    <3>0. /\ pc = "check" /\ ~(iters >= MaxIters) /\ iters' = iters + 1 /\ crashes' = crashes
      BY ONLY <1>3, <2>1 DEF BeginIteration, Exhausted, Step, budget, turn, loop, trace, history
    <3>1. /\ pc = "check" /\ iters < MaxIters /\ iters' = iters + 1 /\ crashes' = crashes
      <4>1. iters \in Nat /\ MaxIters \in Nat
        OBVIOUS
      <4> QED
        BY ONLY <3>0, <4>1
    <3>2. a[3] < b[3]
      <4>1. /\ b[3] = MaxIters - iters
            /\ a[3] = IF iters' < MaxIters THEN MaxIters - iters' ELSE 0
        BY <3>1
      <4>2. iters \in Nat /\ MaxIters \in Nat
        OBVIOUS
      <4> QED
        BY ONLY <3>1, <4>1, <4>2
    <3>3. a[1] = b[1] /\ a[2] = b[2]
      BY <2>1, <3>1 DEF Live
    <3> QED
      BY ONLY <3>2, <3>3, Lexically
  <2>2. CASE pc' = "exhausted"
    <3>0. pc = "check" /\ crashes' = crashes
      BY ONLY <1>3, <2>2 DEF BeginIteration, Step, budget, turn, loop, trace, history
    <3>1. a[2] < b[2] /\ a[1] = b[1]
      BY <2>2, <3>0 DEF Live
    <3> QED
      BY ONLY <3>1, Lexically
  <2> QED
    BY <1>3, <2>1, <2>2 DEF BeginIteration
<1>4. CASE MakePlan
  <2>0. pc = "plan" /\ pc' = "step" /\ UNCHANGED <<crashes, iters>>
    BY ONLY <1>4 DEF MakePlan, Step, budget, turn, loop, trace, history
  <2>1. a[4] < b[4] /\ a[1] = b[1] /\ a[2] = b[2] /\ a[3] = b[3]
    BY <2>0 DEF Live
  <2> QED
    BY ONLY <2>1, Lexically
<1>5. CASE NextStep
  <2>0. /\ pc = "step" /\ pc' \in {"measure", "exhausted", "ask"}
        /\ UNCHANGED <<crashes, iters>>
        /\ pc' = "ask" => step < MaxSteps /\ step' = step + 1
    BY ONLY <1>5 DEF NextStep, Step, budget, turn, loop, trace, history
  <2>1. CASE pc' = "measure"
    <3>1. a[4] < b[4] /\ a[1] = b[1] /\ a[2] = b[2] /\ a[3] = b[3]
      BY <2>0, <2>1 DEF Live
    <3> QED
      BY ONLY <3>1, Lexically
  <2>2. CASE pc' = "exhausted"
    <3>1. a[2] < b[2] /\ a[1] = b[1]
      BY <2>0, <2>2 DEF Live
    <3> QED
      BY ONLY <3>1, Lexically
  <2>3. CASE pc' = "ask"
    <3>1. /\ pc = "step" /\ step < MaxSteps /\ step' = step + 1 /\ step \in Nat
          /\ UNCHANGED <<crashes, iters>>
      BY <2>0, <2>3 DEF TypeOK
    <3>2. a[5] < b[5]
      <4>1. b[5] = MaxSteps - step /\ a[5] = MaxSteps - step'
        OBVIOUS
      <4>2. MaxSteps \in Nat
        OBVIOUS
      <4> QED
        BY ONLY <3>1, <4>1, <4>2
    <3>3. a[1] = b[1] /\ a[2] = b[2] /\ a[3] = b[3] /\ a[4] = b[4]
      BY <2>3, <3>1 DEF Live
    <3> QED
      BY ONLY <3>2, <3>3, Lexically
  <2> QED
    BY ONLY <2>0, <2>1, <2>2, <2>3
<1>6. CASE Reply
  <2>0. UNCHANGED <<crashes, iters, step>> /\ pc = "ask" /\ pc' \in {"measure", "call"}
    BY ONLY <1>6 DEF Reply, Step, budget, turn, loop, trace, history
  <2>1. CASE pc' = "measure"
    <3>1. a[4] < b[4] /\ a[1] = b[1] /\ a[2] = b[2] /\ a[3] = b[3]
      BY <2>0, <2>1 DEF Live
    <3> QED
      BY ONLY <3>1, Lexically
  <2>2. CASE pc' = "call"
    <3>1. /\ a[6] < b[6]
          /\ a[1] = b[1] /\ a[2] = b[2] /\ a[3] = b[3] /\ a[4] = b[4] /\ a[5] = b[5]
      BY <2>0, <2>2 DEF Live
    <3> QED
      BY ONLY <3>1, Lexically
  <2> QED
    BY ONLY <2>0, <2>1, <2>2
<1>7. CASE CallTool \/ RunTool
  <2>1. /\ UNCHANGED <<crashes, iters, step, pending>>
        /\ \/ pc = "call" /\ pc' \in {"record", "run"}
           \/ pc = "run" /\ pc' = "record"
    BY ONLY <1>7 DEF CallTool, RunTool, Step, budget, turn, loop, trace, history
  <2>2. /\ a[8] < b[8] /\ a[1] = b[1] /\ a[2] = b[2] /\ a[3] = b[3] /\ a[4] = b[4]
        /\ a[5] = b[5] /\ a[6] = b[6] /\ a[7] = b[7]
    <3>1. a[1] = b[1] /\ a[3] = b[3] /\ a[5] = b[5] /\ a[7] = b[7]
      BY <2>1
    <3>2. a[2] = b[2] /\ a[4] = b[4]
      BY <2>1 DEF Live
    <3>3. CASE pc = "call"
      <4>1. a[6] = b[6] /\ b[8] = 2 /\ (a[8] = 0 \/ a[8] = 1)
        BY <2>1, <3>3
      <4> QED
        BY ONLY <3>1, <3>2, <4>1
    <3>4. CASE pc = "run"
      <4>1. a[6] = b[6] /\ b[8] = 1 /\ a[8] = 0
        BY <2>1, <3>4
      <4> QED
        BY ONLY <3>1, <3>2, <4>1
    <3> QED
      BY <2>1, <3>3, <3>4
  <2> QED
    BY ONLY <2>2, Lexically
<1>8. CASE RecordResult \/ RecordError
  <2>0. /\ UNCHANGED <<crashes, iters, step>> /\ pc = "record"
        /\ Len(pending') < Len(pending) /\ pc' \in {"step", "call", "tripped"}
    <3>1. /\ UNCHANGED <<crashes, iters, step>> /\ pc = "record"
          /\ pending' = Tail(pending) /\ pc' \in {"step", "call", "tripped"}
      BY ONLY <1>8 DEF RecordResult, RecordError, Onward,
                       Step, budget, turn, loop, trace, history
    <3> QED
      BY <3>1, AtHand
  <2>1. CASE pc' = "step"
    <3>1. /\ a[6] < b[6]
          /\ a[1] = b[1] /\ a[2] = b[2] /\ a[3] = b[3] /\ a[4] = b[4] /\ a[5] = b[5]
      BY <2>0, <2>1 DEF Live
    <3> QED
      BY ONLY <3>1, Lexically
  <2>2. CASE pc' = "call"
    <3>1. /\ a[7] < b[7] /\ a[1] = b[1] /\ a[2] = b[2] /\ a[3] = b[3] /\ a[4] = b[4]
          /\ a[5] = b[5] /\ a[6] = b[6]
      BY <2>0, <2>2 DEF Live
    <3> QED
      BY ONLY <3>1, Lexically
  <2>3. CASE pc' = "tripped"
    <3>1. a[2] < b[2] /\ a[1] = b[1]
      BY <2>0, <2>3 DEF Live
    <3> QED
      BY ONLY <3>1, Lexically
  <2> QED
    BY ONLY <2>0, <2>1, <2>2, <2>3
<1>9. CASE Measure
  <2>0. UNCHANGED <<crashes, iters>> /\ pc = "measure" /\ pc' \in {"plateau", "check", "done"}
    BY ONLY <1>9 DEF Measure, Step, budget, turn, loop, trace, history
  <2>1. CASE pc' = "check"
    <3>1. a[4] < b[4] /\ a[1] = b[1] /\ a[2] = b[2] /\ a[3] = b[3]
      BY <2>0, <2>1 DEF Live
    <3> QED
      BY ONLY <3>1, Lexically
  <2>2. CASE pc' # "check"
    <3>1. a[2] < b[2] /\ a[1] = b[1]
      <4>1. pc' \in {"plateau", "done"}
        BY <2>0, <2>2
      <4>2. a[2] = 0 /\ b[2] = 1 /\ a[1] = b[1]
        BY <2>0, <4>1 DEF Live
      <4> QED
        BY ONLY <4>2
    <3> QED
      BY ONLY <3>1, Lexically
  <2> QED
    BY ONLY <2>1, <2>2
<1>10. CASE Crash
  <2>1. a[1] < b[1]
    <3>1. crashes' = crashes + 1
      BY ONLY <1>10 DEF Crash
    <3>2. b[1] = MaxCrashes - crashes /\ a[1] = MaxCrashes - crashes'
      OBVIOUS
    <3>3. MaxCrashes \in Nat /\ crashes \in Nat
      OBVIOUS
    <3> QED
      BY ONLY <3>1, <3>2, <3>3
  <2> QED
    BY ONLY <2>1, Lexically
<1>11. ASSUME a[2] < b[2] /\ a[1] = b[1] PROVE Less(a, b)
  <2> QED
    BY ONLY <1>11, Lexically
<1> QED
  BY <1>1, <1>2, <1>3, <1>4, <1>5, <1>6, <1>7, <1>8, <1>9, <1>10, <1>11 DEF Next, GoOn

\* Every single step of a run uses up something that no later one gives back, and with
\* NoEndlessDescent that makes it finite (executor.py:87, 133-184, improve.py:49-132).
THEOREM RunsAreFinite == Spec => StepsRunOut /\ [](Left \in Ranks)
BY TypeCorrect, StepFalls, LeftIsRank, PTL DEF Spec, StepsRunOut
=============================================================================
