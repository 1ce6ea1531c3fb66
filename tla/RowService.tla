----------------------------- MODULE RowService -----------------------------
(***************************************************************************)
(* What a caller of the micro-batcher may rely on, with no worker, no      *)
(* sentinel and no event loop in sight: rows stand in one line in the      *)
(* order of their submission, and a PREFIX of that line, at most MaxBatch  *)
(* long, is answered in one atomic step, every caller with the prediction  *)
(* of its own row or every caller with the same error.  Batcher.tla        *)
(* implements this specification.                                          *)
(***************************************************************************)
EXTENDS Naturals, Sequences

CONSTANTS Requests,   \* the calls of submit()
          MaxBatch,   \* the largest batch
          NoRow,      \* "no prediction received"
          Marker      \* an entry of the line that no caller waits for

VARIABLES line,       \* the entries not yet served, oldest first
          fut,        \* what each caller sees
          val,        \* whose row the received prediction is for
          void,       \* the requests that were made with a row of no features
          open        \* whether submissions are accepted

svars == <<line, fut, val, void, open>>

FutStates == {"none", "pending", "result", "exception", "cancelled", "refused"}

SInit == /\ line = <<>>
         /\ fut = [r \in Requests |-> "none"]
         /\ val = [r \in Requests |-> NoRow]
         /\ void = {}
         /\ open = TRUE

Accept(r) == /\ open
             /\ fut[r] = "none"
             /\ fut' = [fut EXCEPT ![r] = "pending"]
             /\ line' = Append(line, r)
             /\ void' \in {void, void \cup {r}}
             /\ UNCHANGED <<val, open>>

Refuse(r) == /\ ~open
             /\ fut[r] = "none"
             /\ fut' = [fut EXCEPT ![r] = "refused"]
             /\ UNCHANGED <<line, val, void, open>>

GiveUp(r) == /\ fut[r] = "pending"
             /\ fut' = [fut EXCEPT ![r] = "cancelled"]
             /\ UNCHANGED <<line, val, void, open>>

\* Everybody gives up at once, the event loop is torn down: entries that were
\* about to be served are forgotten.
GiveUpAll == /\ fut' = [r \in Requests |->
                          IF fut[r] = "pending" THEN "cancelled" ELSE fut[r]]
             /\ \E n \in 0..MaxBatch : /\ n <= Len(line)
                                      /\ line' = SubSeq(line, n + 1, Len(line))
             /\ UNCHANGED <<val, void, open>>

\* Closing may leave a marker at the end of the line.
Close == /\ open' = FALSE
         /\ line' \in {line, Append(line, Marker)}
         /\ UNCHANGED <<fut, val, void>>

\* The callers that are answered when the first n entries leave the line: those
\* still waiting.  A row of no features leaves the line and is never answered.
Callers(n) == {r \in Requests \ void : /\ fut[r] = "pending"
                                       /\ \E i \in 1..n : line[i] = r}

Serve == \E n \in 1..MaxBatch :
           /\ n <= Len(line)
           /\ line' = SubSeq(line, n + 1, Len(line))
           /\ \/ /\ fut' = [r \in Requests |->
                               IF r \in Callers(n) THEN "result" ELSE fut[r]]
                 /\ val' = [r \in Requests |-> IF r \in Callers(n) THEN r ELSE val[r]]
              \/ /\ fut' = [r \in Requests |->
                               IF r \in Callers(n) THEN "exception" ELSE fut[r]]
                 /\ UNCHANGED val
           /\ UNCHANGED <<void, open>>

SNext == \/ \E r \in Requests : Accept(r) \/ Refuse(r) \/ GiveUp(r)
         \/ GiveUpAll
         \/ Close
         \/ Serve

SSpec == SInit /\ [][SNext]_svars
=============================================================================
