------------------------------ MODULE Promotion ------------------------------
(***************************************************************************)
(* deepCab/registry/promotion.py and set_alias of registry/dispatcher.py:  *)
(* processes that each ask whether a model version should replace the      *)
(* champion.  They share nothing but the aliases in the MLflow registry,   *)
(* read and written one call at a time, and the channel operators watch.   *)
(*                                                                         *)
(* Loading a version and scoring it on the reference slice is abstracted   *)
(* to metric[version]: the slice is the same for champion and challenger.  *)
(***************************************************************************)
EXTENDS Integers

CONSTANTS Promoters,  \* the calls of maybe_promote()
          Versions,   \* registered model versions
          Metrics,    \* the values a metric can take (lower is better)
          Threshold,  \* improvement_threshold, in percent
          None        \* no version

ASSUME PromotionAssumption == /\ None \notin Versions
                              /\ Metrics \subseteq Nat
                              /\ Threshold \in 0..100

Aliases == {"challenger", "champion", "legacy"}

VARIABLES metric,      \* the metric each version gets on the reference slice
          tracking,    \* an MLflow tracking server is configured
          alias,       \* the registry: the version each alias names
          announced,   \* what the last ping said of each alias
          pc,          \* where each call is
          version,     \* inputs.challenger_version of each call
          old,         \* the local old_champion
          outcome,     \* PromotionResult.reason
          crowned,     \* history: the versions that ever were champion
          overlapped,  \* history: two calls were under way at once
          blind,       \* history: a champion was there and the read of it failed
          broken       \* history: a call ended in an exception or a crash

registry == <<alias, crowned>>
locals == <<version, old, outcome>>
history == <<overlapped, blind, broken>>
vars == <<metric, tracking, registry, announced, pc, locals, history>>

UnderWay == {"tag", "tag_ping", "score", "read", "compare", "demote", "demote_ping",
             "crown", "crown_ping"}
Outcomes == {"none", "no-existing-champion", "challenger-already-champion",
             "below-threshold", "beats-threshold"}

Busy == {p \in Promoters : pc[p] \in UnderWay}

Init == /\ metric \in [Versions -> Metrics]
        /\ tracking \in BOOLEAN
        /\ alias = [a \in Aliases |-> None]
        /\ announced = [a \in Aliases |-> None]
        /\ pc = [p \in Promoters |-> "idle"]
        /\ version = [p \in Promoters |-> None]
        /\ old = [p \in Promoters |-> None]
        /\ outcome = [p \in Promoters |-> "none"]
        /\ crowned = {}
        /\ overlapped = FALSE
        /\ blind = FALSE
        /\ broken = FALSE

Step(p, from, to) == /\ pc[p] = from
                     /\ pc' = [pc EXCEPT ![p] = to]

\* As in Batcher, an operator named X_<fault> is a faulty variant of X that no action
\* uses.

\* `<=` for `<`.
Beats_or_equals(challenger, champion) == challenger * 100 <= champion * (100 - Threshold)

\* The relative threshold is forgotten.
Beats_without_threshold(challenger, champion) == challenger < champion

\* challenger_metric < champion_metric * (1 - threshold).
Beats(challenger, champion) == challenger * 100 < champion * (100 - Threshold)

\* _set_alias_backend: without a tracking server the write is skipped, and only logged.
Write(a, v) == /\ alias' = IF tracking THEN [alias EXCEPT ![a] = v] ELSE alias
               /\ crowned' = IF tracking /\ a = "champion" THEN crowned \cup {v} ELSE crowned

\* Only the first change of an alias is posted.
Ping_first_only(a, v) == announced' = [announced EXCEPT ![a] = IF @ = None THEN v ELSE @]

\* notify_alias_change: posted whether or not the write was skipped; it never raises.
Ping(a, v) == announced' = [announced EXCEPT ![a] = v]

-----------------------------------------------------------------------------
\* maybe_promote is called for a version, perhaps one that another call had before.
Begin(p) == /\ Step(p, "idle", "tag")
            /\ \E v \in Versions : version' = [version EXCEPT ![p] = v]
            /\ overlapped' = (overlapped \/ Busy # {})
            /\ UNCHANGED <<metric, tracking, registry, announced, old, outcome, blind, broken>>

\* @challenger first, whatever the outcome.
Tag(p) == /\ Step(p, "tag", "tag_ping")
          /\ Write("challenger", version[p])
          /\ UNCHANGED <<metric, tracking, announced, locals, history>>

TagPing(p) == /\ Step(p, "tag_ping", "score")
              /\ Ping("challenger", version[p])
              /\ UNCHANGED <<metric, tracking, registry, locals, history>>

Score(p) == /\ Step(p, "score", "read")
            /\ UNCHANGED <<metric, tracking, registry, announced, locals, history>>

\* Nobody asks whether there is a champion.
ReadChampion_unchecked(p) ==
  /\ Step(p, "read", "compare")
  /\ old' = [old EXCEPT ![p] = alias["champion"]]
  /\ UNCHANGED <<metric, tracking, registry, announced, version, outcome, history>>

\* _current_champion_version finds a version, or finds that there is none: the
\* registry raises, and the caller goes on as at the very first promotion.
ReadChampion(p) ==
  /\ old' = [old EXCEPT ![p] = alias["champion"]]
  /\ \/ alias["champion"] = None /\ Step(p, "read", "crown") /\ UNCHANGED outcome
     \/ /\ alias["champion"] = version[p]
        /\ Step(p, "read", "done")
        /\ outcome' = [outcome EXCEPT ![p] = "challenger-already-champion"]
     \/ /\ alias["champion"] \notin {None, version[p]}
        /\ Step(p, "read", "compare")
        /\ UNCHANGED outcome
  /\ UNCHANGED <<metric, tracking, registry, announced, version, history>>

\* The read raises for another reason; every exception means "no champion".
ReadFails(p) ==
  /\ Step(p, "read", "crown")
  /\ old' = [old EXCEPT ![p] = None]
  /\ blind' = (blind \/ alias["champion"] # None)
  /\ UNCHANGED <<metric, tracking, registry, announced, version, outcome, overlapped, broken>>

\* The champion is scored on the same slice.
Compare(p) ==
  /\ \/ /\ Step(p, "compare", "demote")
        /\ Beats(metric[version[p]], metric[old[p]])
        /\ UNCHANGED outcome
     \/ /\ Step(p, "compare", "done")
        /\ ~Beats(metric[version[p]], metric[old[p]])
        /\ outcome' = [outcome EXCEPT ![p] = "below-threshold"]
  /\ UNCHANGED <<metric, tracking, registry, announced, version, old, history>>

\* The wrong local goes to @legacy.
Demote_challenger(p) == /\ Step(p, "demote", "demote_ping")
                        /\ Write("legacy", version[p])
                        /\ UNCHANGED <<metric, tracking, announced, locals, history>>

\* @legacy gets what was the champion when it was read ...
Demote(p) == /\ Step(p, "demote", "demote_ping")
             /\ Write("legacy", old[p])
             /\ UNCHANGED <<metric, tracking, announced, locals, history>>

DemotePing(p) == /\ Step(p, "demote_ping", "crown")
                 /\ Ping("legacy", old[p])
                 /\ UNCHANGED <<metric, tracking, registry, locals, history>>

\* ... and @champion the challenger, in another call.
Crown(p) == /\ Step(p, "crown", "crown_ping")
            /\ Write("champion", version[p])
            /\ UNCHANGED <<metric, tracking, announced, locals, history>>

CrownPing(p) ==
  /\ Step(p, "crown_ping", "done")
  /\ Ping("champion", version[p])
  /\ outcome' = [outcome EXCEPT ![p] = IF old[p] = None THEN "no-existing-champion"
                                                        ELSE "beats-threshold"]
  /\ UNCHANGED <<metric, tracking, registry, version, old, history>>

\* A registry call or a scoring raises, or the process dies: nothing is undone.
Abort(p) == /\ pc[p] \in UnderWay
            /\ pc' = [pc EXCEPT ![p] = "aborted"]
            /\ broken' = TRUE
            /\ UNCHANGED <<metric, tracking, registry, announced, locals, overlapped, blind>>

-----------------------------------------------------------------------------
GoOn(p) == \/ Tag(p) \/ TagPing(p) \/ Score(p)
           \/ ReadChampion(p) \/ ReadFails(p) \/ Compare(p)
           \/ Demote(p) \/ DemotePing(p) \/ Crown(p) \/ CrownPing(p)
           \/ Abort(p)

Next == \E p \in Promoters : Begin(p) \/ GoOn(p)

\* A call that has begun goes on until it returns, raises or dies.
Fairness == \A p \in Promoters : WF_vars(GoOn(p))

Spec == Init /\ [][Next]_vars /\ Fairness

-----------------------------------------------------------------------------
(* Properties.                                                             *)

\* Every variable stays in its type; a call that compares or demotes has read a
\* champion, so that there is one to score and to give @legacy to.
TypeOK == /\ metric \in [Versions -> Metrics]
          /\ tracking \in BOOLEAN
          /\ alias \in [Aliases -> Versions \cup {None}]
          /\ announced \in [Aliases -> Versions \cup {None}]
          /\ pc \in [Promoters -> UnderWay \cup {"idle", "done", "aborted"}]
          /\ version \in [Promoters -> Versions \cup {None}]
          /\ old \in [Promoters -> Versions \cup {None}]
          /\ outcome \in [Promoters -> Outcomes]
          /\ crowned \subseteq Versions
          /\ overlapped \in BOOLEAN
          /\ blind \in BOOLEAN
          /\ broken \in BOOLEAN
          /\ \A p \in Promoters : pc[p] \in UnderWay => version[p] \in Versions
          /\ \A p \in Promoters :
               pc[p] \in {"compare", "demote", "demote_ping"} => old[p] \in Versions

\* What `new` gains over `former` is more than the threshold allows to be noise.
Improves(new, former) == (metric[former] - metric[new]) * 100 > Threshold * metric[former]

\* One call at a time and reads that do not fail: the champion is only ever replaced
\* by a version better by more than the threshold, also when calls before this one
\* broke off between two writes or the same version is tried again
\* (promotion.py:131-189).
ChampionImproves ==
  [][~overlapped /\ ~blind /\ alias["champion"] \notin {None, alias'["champion"]}
       => Improves(alias'["champion"], alias["champion"])]_vars

\* ... and @legacy is a rollback target: the champion itself, while a promotion is
\* half done or broke off there, or the version the champion improved on
\* (promotion.py:186-189).
RollbackTarget ==
  ~overlapped /\ ~blind /\ alias["legacy"] # None
    => \/ alias["champion"] = alias["legacy"]
       \/ alias["champion"] # None /\ Improves(alias["champion"], alias["legacy"])

\* Whatever overlaps, fails or breaks off, @legacy is a version that was once live:
\* a rollback never serves one that was only ever a challenger (promotion.py:188).
RollbackWasChampion == alias["legacy"] # None => alias["legacy"] \in crowned

\* Calls that neither overlap nor break off leave operators with the right picture of
\* every alias (dispatcher.py:194-199).
PingsTellTheRegistry ==
  tracking /\ ~overlapped /\ ~broken /\ Busy = {} => announced = alias

\* promotion.py:10, "Threshold-gated to avoid flipping on noise": whoever replaces the
\* champion improves on it by more than the threshold.
ThresholdGated ==
  [][alias["champion"] \notin {None, alias'["champion"]}
       => Improves(alias'["champion"], alias["champion"])]_vars
=============================================================================
