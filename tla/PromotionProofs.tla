--------------------------- MODULE PromotionProofs ---------------------------
(***************************************************************************)
(* What holds of promotions for any number of calls and versions, for any  *)
(* metrics and any threshold.                                              *)
(***************************************************************************)
EXTENDS Promotion, TLAPS

USE PromotionAssumption

-----------------------------------------------------------------------------
\* The comparison of the code is the comparison the properties speak of: beating the
\* scaled-down champion is improving by more than the threshold (promotion.py:162-163).
LEMMA BeatsImproves ==
  ASSUME NEW c \in Nat, NEW h \in Nat, c * 100 < h * (100 - Threshold)
  PROVE  (h - c) * 100 > Threshold * h
<1>1. h * (100 - Threshold) = h * 100 - Threshold * h
  OBVIOUS
<1>2. (h - c) * 100 = h * 100 - c * 100
  OBVIOUS
<1>3. Threshold * h \in Int
  OBVIOUS
<1> QED
  BY <1>1, <1>2, <1>3

\* Every step keeps the types; only a champion that was found is compared with.
LEMMA StepTypes == TypeOK /\ [Next]_vars => TypeOK'
<1> SUFFICES ASSUME TypeOK, [Next]_vars PROVE TypeOK'
  OBVIOUS
<1> USE DEF TypeOK, UnderWay, Outcomes, Aliases, registry, locals, history
<1>2. ASSUME NEW p \in Promoters, Begin(p) PROVE TypeOK'
  BY <1>2 DEF Begin, Step
<1>3. ASSUME NEW p \in Promoters, Tag(p) PROVE TypeOK'
  BY <1>3 DEF Tag, Step, Write
<1>4. ASSUME NEW p \in Promoters, TagPing(p) PROVE TypeOK'
  BY <1>4 DEF TagPing, Step, Ping
<1>5. ASSUME NEW p \in Promoters, Score(p) PROVE TypeOK'
  BY <1>5 DEF Score, Step
<1>6. ASSUME NEW p \in Promoters, ReadChampion(p) PROVE TypeOK'
  BY <1>6 DEF ReadChampion, Step
<1>7. ASSUME NEW p \in Promoters, ReadFails(p) PROVE TypeOK'
  BY <1>7 DEF ReadFails, Step
<1>8. ASSUME NEW p \in Promoters, Compare(p) PROVE TypeOK'
  BY <1>8 DEF Compare, Step
<1>9. ASSUME NEW p \in Promoters, Demote(p) PROVE TypeOK'
  BY <1>9 DEF Demote, Step, Write
<1>10. ASSUME NEW p \in Promoters, DemotePing(p) PROVE TypeOK'
  BY <1>10 DEF DemotePing, Step, Ping
<1>11. ASSUME NEW p \in Promoters, Crown(p) PROVE TypeOK'
  BY <1>11 DEF Crown, Step, Write
<1>12. ASSUME NEW p \in Promoters, CrownPing(p) PROVE TypeOK'
  BY <1>12 DEF CrownPing, Step, Ping
<1>13. ASSUME NEW p \in Promoters, Abort(p) PROVE TypeOK'
  BY <1>13 DEF Abort
<1>14. CASE UNCHANGED vars
  BY <1>14 DEF vars
<1> QED
  BY <1>2, <1>3, <1>4, <1>5, <1>6, <1>7, <1>8, <1>9, <1>10,
     <1>11, <1>12, <1>13, <1>14 DEF Next, GoOn

\* The initial states have the right types.
LEMMA InitTypes == Init => TypeOK
BY DEF Init, TypeOK, UnderWay, Outcomes, Aliases

\* Every reachable state has the right types, and a call that compares has a champion
\* to compare with (promotion.py:131-163).
THEOREM TypeCorrect == Spec => []TypeOK
<1> QED
  BY InitTypes, StepTypes, PTL DEF Spec

-----------------------------------------------------------------------------
(* Rollback.  A call gives @legacy only what it read from @champion, and   *)
(* what was read there was champion, whatever happened since.              *)

Reigned == /\ alias["champion"] # None => alias["champion"] \in crowned
           /\ alias["legacy"] # None => alias["legacy"] \in crowned
           /\ \A p \in Promoters :
                pc[p] \in {"compare", "demote", "demote_ping"} => old[p] \in crowned

\* No step of any call, overlapping or not, breaks it.
LEMMA StepReigned == TypeOK /\ Reigned /\ [Next]_vars => Reigned'
<1> SUFFICES ASSUME TypeOK, Reigned, [Next]_vars PROVE Reigned'
  OBVIOUS
<1> USE DEF TypeOK, Reigned, UnderWay, Aliases, registry, locals
<1>2. ASSUME NEW p \in Promoters, Begin(p) PROVE Reigned'
  BY <1>2 DEF Begin, Step
<1>3. ASSUME NEW p \in Promoters, Tag(p) PROVE Reigned'
  BY <1>3 DEF Tag, Step, Write
<1>4. ASSUME NEW p \in Promoters, TagPing(p) PROVE Reigned'
  BY <1>4 DEF TagPing, Step, Ping
<1>5. ASSUME NEW p \in Promoters, Score(p) PROVE Reigned'
  BY <1>5 DEF Score, Step
<1>6. ASSUME NEW p \in Promoters, ReadChampion(p) PROVE Reigned'
  BY <1>6 DEF ReadChampion, Step
<1>7. ASSUME NEW p \in Promoters, ReadFails(p) PROVE Reigned'
  BY <1>7 DEF ReadFails, Step
<1>8. ASSUME NEW p \in Promoters, Compare(p) PROVE Reigned'
  BY <1>8 DEF Compare, Step
<1>9. ASSUME NEW p \in Promoters, Demote(p) PROVE Reigned'
  BY <1>9 DEF Demote, Step, Write
<1>10. ASSUME NEW p \in Promoters, DemotePing(p) PROVE Reigned'
  BY <1>10 DEF DemotePing, Step, Ping
<1>11. ASSUME NEW p \in Promoters, Crown(p) PROVE Reigned'
  BY <1>11 DEF Crown, Step, Write
<1>12. ASSUME NEW p \in Promoters, CrownPing(p) PROVE Reigned'
  BY <1>12 DEF CrownPing, Step, Ping
<1>13. ASSUME NEW p \in Promoters, Abort(p) PROVE Reigned'
  BY <1>13 DEF Abort
<1>14. CASE UNCHANGED vars
  BY <1>14 DEF vars
<1> QED
  BY <1>2, <1>3, <1>4, <1>5, <1>6, <1>7, <1>8, <1>9, <1>10,
     <1>11, <1>12, <1>13, <1>14 DEF Next, GoOn

\* Whatever overlaps, fails or breaks off, @legacy is a version that was once live.
THEOREM LegacyWasChampion == Spec => []RollbackWasChampion
<1>1. Init => Reigned
  BY DEF Init, Reigned, Aliases
<1>2. Reigned => RollbackWasChampion
  BY DEF Reigned, RollbackWasChampion
<1> QED
  BY <1>1, <1>2, TypeCorrect, StepReigned, PTL DEF Spec

-----------------------------------------------------------------------------
(* One call at a time.  Between reading the champion and replacing it      *)
(* nothing else moves the aliases, so the decision is still right when it  *)
(* takes effect.                                                           *)

Alone == ~overlapped => \A p, q \in Promoters : pc[p] \in UnderWay /\ pc[q] \in UnderWay => p = q

\* What a call has read is still the case, and what it decided on was decided rightly.
Fresh == ~overlapped /\ ~blind =>
  \A p \in Promoters :
    /\ pc[p] \in {"compare", "demote", "demote_ping"} => alias["champion"] = old[p]
    /\ pc[p] \in {"demote", "demote_ping"} => Improves(version[p], old[p])
    /\ pc[p] = "demote_ping" /\ tracking => alias["legacy"] = old[p]
    /\ pc[p] = "crown" =>
         \/ alias["champion"] = None
         \/ /\ Improves(version[p], alias["champion"])
            /\ tracking => alias["legacy"] = alias["champion"]

\* A second call gives up `overlapped`.
LEMMA StepAlone == TypeOK /\ Alone /\ [Next]_vars => Alone'
<1> SUFFICES ASSUME TypeOK, Alone, [Next]_vars PROVE Alone'
  OBVIOUS
<1> USE DEF TypeOK, Alone, Busy, UnderWay, history
<1>2. ASSUME NEW p \in Promoters, Begin(p) PROVE Alone'
  BY <1>2 DEF Begin, Step
<1>3. ASSUME NEW p \in Promoters, Tag(p) PROVE Alone'
  BY <1>3 DEF Tag, Step, Write
<1>4. ASSUME NEW p \in Promoters, TagPing(p) PROVE Alone'
  BY <1>4 DEF TagPing, Step, Ping
<1>5. ASSUME NEW p \in Promoters, Score(p) PROVE Alone'
  BY <1>5 DEF Score, Step
<1>6. ASSUME NEW p \in Promoters, ReadChampion(p) PROVE Alone'
  BY <1>6 DEF ReadChampion, Step
<1>7. ASSUME NEW p \in Promoters, ReadFails(p) PROVE Alone'
  BY <1>7 DEF ReadFails, Step
<1>8. ASSUME NEW p \in Promoters, Compare(p) PROVE Alone'
  BY <1>8 DEF Compare, Step
<1>9. ASSUME NEW p \in Promoters, Demote(p) PROVE Alone'
  BY <1>9 DEF Demote, Step, Write
<1>10. ASSUME NEW p \in Promoters, DemotePing(p) PROVE Alone'
  BY <1>10 DEF DemotePing, Step, Ping
<1>11. ASSUME NEW p \in Promoters, Crown(p) PROVE Alone'
  BY <1>11 DEF Crown, Step, Write
<1>12. ASSUME NEW p \in Promoters, CrownPing(p) PROVE Alone'
  BY <1>12 DEF CrownPing, Step, Ping
<1>13. ASSUME NEW p \in Promoters, Abort(p) PROVE Alone'
  BY <1>13 DEF Abort
<1>14. CASE UNCHANGED vars
  BY <1>14 DEF vars
<1> QED
  BY <1>2, <1>3, <1>4, <1>5, <1>6, <1>7, <1>8, <1>9, <1>10,
     <1>11, <1>12, <1>13, <1>14 DEF Next, GoOn

\* Each place of a call hands its knowledge over to the next (promotion.py:131-189).
LEMMA StepFresh == TypeOK /\ Alone /\ Fresh /\ [Next]_vars => Fresh'
<1> SUFFICES ASSUME TypeOK, Alone, Fresh, [Next]_vars PROVE Fresh'
  OBVIOUS
<1> USE DEF TypeOK, Alone, Fresh, Busy, UnderWay, Aliases, registry, locals, history
<1>2. ASSUME NEW p \in Promoters, Begin(p) PROVE Fresh'
  BY <1>2 DEF Begin, Step
<1>3. ASSUME NEW p \in Promoters, Tag(p) PROVE Fresh'
  BY <1>3 DEF Tag, Step, Write
<1>4. ASSUME NEW p \in Promoters, TagPing(p) PROVE Fresh'
  BY <1>4 DEF TagPing, Step, Ping
<1>5. ASSUME NEW p \in Promoters, Score(p) PROVE Fresh'
  BY <1>5 DEF Score, Step
<1>6. ASSUME NEW p \in Promoters, ReadChampion(p) PROVE Fresh'
  BY <1>6 DEF ReadChampion, Step
<1>7. ASSUME NEW p \in Promoters, ReadFails(p) PROVE Fresh'
  BY <1>7 DEF ReadFails, Step
<1>8. ASSUME NEW p \in Promoters, Compare(p) PROVE Fresh'
  <2>1. CASE pc'[p] = "demote"
    <3>1. version[p] \in Versions /\ old[p] \in Versions
      BY <1>8 DEF Compare, Step
    <3>2. Beats(metric[version[p]], metric[old[p]])
      BY <1>8, <2>1 DEF Compare, Step
    <3>3. Improves(version[p], old[p])
      BY <3>1, <3>2, BeatsImproves DEF Beats, Improves
    <3> QED
      BY <1>8, <2>1, <3>3 DEF Compare, Step, Improves
  <2>2. CASE pc'[p] # "demote"
    BY <1>8, <2>2 DEF Compare, Step, Improves
  <2> QED
    BY <2>1, <2>2
<1>9. ASSUME NEW p \in Promoters, Demote(p) PROVE Fresh'
  BY <1>9 DEF Demote, Step, Write, Improves
<1>10. ASSUME NEW p \in Promoters, DemotePing(p) PROVE Fresh'
  BY <1>10 DEF DemotePing, Step, Ping, Improves
<1>11. ASSUME NEW p \in Promoters, Crown(p) PROVE Fresh'
  BY <1>11 DEF Crown, Step, Write
<1>12. ASSUME NEW p \in Promoters, CrownPing(p) PROVE Fresh'
  BY <1>12 DEF CrownPing, Step, Ping
<1>13. ASSUME NEW p \in Promoters, Abort(p) PROVE Fresh'
  BY <1>13 DEF Abort
<1>14. CASE UNCHANGED vars
  BY <1>14 DEF vars, Improves
<1> QED
  BY <1>2, <1>3, <1>4, <1>5, <1>6, <1>7, <1>8, <1>9, <1>10,
     <1>11, <1>12, <1>13, <1>14 DEF Next, GoOn

\* A replaced champion was improved on, and @legacy is what the champion improved on.
LEMMA StepImproves ==
  TypeOK /\ Alone /\ Fresh /\ RollbackTarget /\ [Next]_vars
    => /\ RollbackTarget'
       /\ ~overlapped /\ ~blind /\ alias["champion"] \notin {None, alias'["champion"]}
            => Improves(alias'["champion"], alias["champion"])
<1> DEFINE Better == ~overlapped /\ ~blind /\ alias["champion"] \notin {None, alias'["champion"]}
                       => Improves(alias'["champion"], alias["champion"])
<1> SUFFICES ASSUME TypeOK, Alone, Fresh, RollbackTarget, [Next]_vars
             PROVE  RollbackTarget' /\ Better
  OBVIOUS
<1> USE DEF TypeOK, Fresh, RollbackTarget, UnderWay, Aliases, registry, locals, history, Improves
<1>2. ASSUME NEW p \in Promoters, Begin(p) PROVE RollbackTarget' /\ Better
  BY <1>2 DEF Begin, Step
<1>3. ASSUME NEW p \in Promoters, Tag(p) PROVE RollbackTarget' /\ Better
  BY <1>3 DEF Tag, Step, Write
<1>4. ASSUME NEW p \in Promoters, TagPing(p) PROVE RollbackTarget' /\ Better
  BY <1>4 DEF TagPing, Step, Ping
<1>5. ASSUME NEW p \in Promoters, Score(p) PROVE RollbackTarget' /\ Better
  BY <1>5 DEF Score, Step
<1>6. ASSUME NEW p \in Promoters, ReadChampion(p) PROVE RollbackTarget' /\ Better
  BY <1>6 DEF ReadChampion, Step
<1>7. ASSUME NEW p \in Promoters, ReadFails(p) PROVE RollbackTarget' /\ Better
  BY <1>7 DEF ReadFails, Step
<1>8. ASSUME NEW p \in Promoters, Compare(p) PROVE RollbackTarget' /\ Better
  BY <1>8 DEF Compare, Step
<1>9. ASSUME NEW p \in Promoters, Demote(p) PROVE RollbackTarget' /\ Better
  BY <1>9 DEF Demote, Step, Write
<1>10. ASSUME NEW p \in Promoters, DemotePing(p) PROVE RollbackTarget' /\ Better
  BY <1>10 DEF DemotePing, Step, Ping
<1>11. ASSUME NEW p \in Promoters, Crown(p) PROVE RollbackTarget' /\ Better
  BY <1>11 DEF Crown, Step, Write
<1>12. ASSUME NEW p \in Promoters, CrownPing(p) PROVE RollbackTarget' /\ Better
  BY <1>12 DEF CrownPing, Step, Ping
<1>13. ASSUME NEW p \in Promoters, Abort(p) PROVE RollbackTarget' /\ Better
  BY <1>13 DEF Abort
<1>14. CASE UNCHANGED vars
  BY <1>14 DEF vars
<1> QED
  BY <1>2, <1>3, <1>4, <1>5, <1>6, <1>7, <1>8, <1>9, <1>10,
     <1>11, <1>12, <1>13, <1>14 DEF Next, GoOn

\* Before the first call nothing is under way and nobody was replaced.
LEMMA InitQuiet == Init => Alone /\ Fresh /\ RollbackTarget
<1> SUFFICES ASSUME Init PROVE Alone /\ Fresh /\ RollbackTarget
  OBVIOUS
<1>1. \A p \in Promoters : pc[p] \notin UnderWay
  BY DEF Init, UnderWay
<1>2. Alone
  BY <1>1 DEF Alone
<1>3. Fresh
  BY <1>1 DEF Fresh, UnderWay
<1>4. alias["legacy"] = None
  BY DEF Init, Aliases
<1> QED
  BY <1>2, <1>3, <1>4 DEF RollbackTarget

\* One call at a time and reads that do not fail: the champion is only ever replaced
\* by a version better by more than the threshold.
THEOREM PromotionsImprove == Spec => ChampionImproves
<1>1. Init => TypeOK /\ Alone /\ Fresh /\ RollbackTarget
  BY InitTypes, InitQuiet
<1>2. TypeOK /\ Alone /\ Fresh /\ RollbackTarget /\ [Next]_vars
        => (TypeOK /\ Alone /\ Fresh /\ RollbackTarget)'
  BY StepTypes, StepAlone, StepFresh, StepImproves
<1>3. TypeOK /\ Alone /\ Fresh /\ RollbackTarget /\ [Next]_vars
        => [~overlapped /\ ~blind /\ alias["champion"] \notin {None, alias'["champion"]}
              => Improves(alias'["champion"], alias["champion"])]_vars
  BY StepImproves
<1> QED
  BY <1>1, <1>2, <1>3, PTL DEF Spec, ChampionImproves

\* ... and @legacy is the version to go back to.
THEOREM LegacyIsRollbackTarget == Spec => []RollbackTarget
<1>1. Init => TypeOK /\ Alone /\ Fresh /\ RollbackTarget
  BY InitTypes, InitQuiet
<1>2. TypeOK /\ Alone /\ Fresh /\ RollbackTarget /\ [Next]_vars
        => (TypeOK /\ Alone /\ Fresh /\ RollbackTarget)'
  BY StepTypes, StepAlone, StepFresh, StepImproves
<1> QED
  BY <1>1, <1>2, PTL DEF Spec

-----------------------------------------------------------------------------
(* Notifications.  An alias and what was last said of it differ only while *)
(* the one call under way stands between its write and its ping.           *)

PingPlace == [a \in Aliases |-> IF a = "challenger" THEN "tag_ping"
                                ELSE IF a = "legacy" THEN "demote_ping" ELSE "crown_ping"]

Told == tracking /\ ~overlapped /\ ~broken =>
  /\ \A a \in Aliases : alias[a] # announced[a] => \E p \in Promoters : pc[p] = PingPlace[a]
  /\ \A p \in Promoters :
       /\ pc[p] = "tag_ping" => alias["challenger"] = version[p]
       /\ pc[p] = "demote_ping" => alias["legacy"] = old[p]
       /\ pc[p] = "crown_ping" => alias["champion"] = version[p]

\* A write is followed by the ping that tells of it, and of nothing else.
LEMMA StepTold == TypeOK /\ Alone /\ Told /\ [Next]_vars => Told'
<1> SUFFICES ASSUME TypeOK, Alone, Told, [Next]_vars PROVE Told'
  OBVIOUS
<1> USE DEF TypeOK, Alone, Told, PingPlace, Busy, UnderWay, Aliases, registry, locals, history
<1>2. ASSUME NEW p \in Promoters, Begin(p) PROVE Told'
  BY <1>2 DEF Begin, Step
<1>3. ASSUME NEW p \in Promoters, Tag(p) PROVE Told'
  BY <1>3 DEF Tag, Step, Write
<1>4. ASSUME NEW p \in Promoters, TagPing(p) PROVE Told'
  BY <1>4 DEF TagPing, Step, Ping
<1>5. ASSUME NEW p \in Promoters, Score(p) PROVE Told'
  BY <1>5 DEF Score, Step
<1>6. ASSUME NEW p \in Promoters, ReadChampion(p) PROVE Told'
  BY <1>6 DEF ReadChampion, Step
<1>7. ASSUME NEW p \in Promoters, ReadFails(p) PROVE Told'
  BY <1>7 DEF ReadFails, Step
<1>8. ASSUME NEW p \in Promoters, Compare(p) PROVE Told'
  BY <1>8 DEF Compare, Step
<1>9. ASSUME NEW p \in Promoters, Demote(p) PROVE Told'
  BY <1>9 DEF Demote, Step, Write
<1>10. ASSUME NEW p \in Promoters, DemotePing(p) PROVE Told'
  BY <1>10 DEF DemotePing, Step, Ping
<1>11. ASSUME NEW p \in Promoters, Crown(p) PROVE Told'
  BY <1>11 DEF Crown, Step, Write
<1>12. ASSUME NEW p \in Promoters, CrownPing(p) PROVE Told'
  BY <1>12 DEF CrownPing, Step, Ping
<1>13. ASSUME NEW p \in Promoters, Abort(p) PROVE Told'
  BY <1>13 DEF Abort
<1>14. CASE UNCHANGED vars
  BY <1>14 DEF vars
<1> QED
  BY <1>2, <1>3, <1>4, <1>5, <1>6, <1>7, <1>8, <1>9, <1>10,
     <1>11, <1>12, <1>13, <1>14 DEF Next, GoOn

\* Calls that neither overlap nor break off leave operators with the right picture of
\* every alias.
THEOREM OperatorsAreTold == Spec => []PingsTellTheRegistry
<1>1. Init => Told
  <2> SUFFICES ASSUME Init PROVE Told
    OBVIOUS
  <2>1. \A a \in Aliases : alias[a] = announced[a]
    BY DEF Init
  <2>2. \A p \in Promoters : pc[p] = "idle"
    BY DEF Init
  <2> QED
    BY <2>1, <2>2 DEF Told
<1>2. TypeOK /\ Told => PingsTellTheRegistry
  BY DEF TypeOK, Told, PingsTellTheRegistry, PingPlace, Busy, UnderWay
<1> QED
  BY <1>1, <1>2, InitTypes, InitQuiet, StepTypes, StepAlone, StepTold, PTL DEF Spec
=============================================================================
