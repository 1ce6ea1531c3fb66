----------------------------- MODULE ToolLedger -----------------------------
(***************************************************************************)
(* What a user of the agent may rely on about tool calls, with no turns,   *)
(* budgets, caches or resumes in sight: a ledger of results, written once  *)
(* per call and only for a call that took effect.  What has an entry takes *)
(* no effect any more, and what has none takes effect once, and once more  *)
(* for each result that was lost on its way to the ledger.  AgentLoop.tla  *)
(* implements this specification.                                          *)
(***************************************************************************)
EXTENDS Naturals

CONSTANTS Calls,     \* the tool calls: a name and arguments
          Results,   \* what a call that succeeds answers
          None       \* no entry

VARIABLES entry,     \* the result of each call that has one
          effects,   \* how often each call took effect
          losses     \* how many results may have been lost

lvars == <<entry, effects, losses>>

LInit == /\ entry = [c \in Calls |-> None]
         /\ effects = [c \in Calls |-> 0]
         /\ losses = 0

\* A call takes effect; whoever waits for it may have given up on it by then.
TakeEffect(c) == /\ entry[c] = None
                 /\ effects[c] <= losses
                 /\ effects' = [effects EXCEPT ![c] = @ + 1]
                 /\ losses' \in {losses, losses + 1}
                 /\ UNCHANGED entry

\* The result of a call that took effect is entered, for good.
Enter(c) == /\ entry[c] = None
            /\ effects[c] > 0
            /\ \E r \in Results : entry' = [entry EXCEPT ![c] = r]
            /\ UNCHANGED <<effects, losses>>

\* What was under way is lost.
Lose == /\ losses' = losses + 1
        /\ UNCHANGED <<entry, effects>>

LNext == \/ \E c \in Calls : TakeEffect(c) \/ Enter(c)
         \/ Lose

LSpec == LInit /\ [][LNext]_lvars
=============================================================================
