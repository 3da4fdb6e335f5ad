------------------------- MODULE BaselineSelection -------------------------
(***************************************************************************)
(* analysis/diagnosis_analysis.py, robust_differential.py and diagnostics: *)
(* which earlier steps a step is compared with, which of its stages are    *)
(* slow against them, and whose endpoints the evidence comes from.         *)
(*                                                                         *)
(* A step is [id, who, load, seconds, from, to, usable, reference,         *)
(* stages]: who stands for the identity fields, load for the optional      *)
(* "version" and "tokens" of the workload, usable for a window whose       *)
(* bounds are ordered and whose clock did not jump, and stages for the     *)
(* optional duration of the stage looked at.  It is observed when its      *)
(* window ends.  A policy is [match, tolerance, robust, size, least, z,    *)
(* floor]; tolerance and floor are percentages.                            *)
(***************************************************************************)
EXTENDS Integers, Sequences, SequencesExt, FiniteSets

Abs(x) == IF x < 0 THEN -x ELSE x

(* The settings of the robust comparison that are accepted.                *)
SettingsOK(p) == p.size \in 5..31 /\ p.least \in 5..p.size /\ p.z \in 1..10 /\ p.floor \in 1..50

-----------------------------------------------------------------------------
(* workload_matches: a version is an identity; a magnitude may differ by   *)
(* the tolerance; and what either side does not report matches nothing.    *)
WorkloadMatches(step, prior, p) ==
  \A key \in p.match :
    /\ step.load[key] # <<>> /\ prior.load[key] # <<>>
    /\ LET a == step.load[key][1]
           b == prior.load[key][1]
       IN  IF key = "version" THEN a = b ELSE 100 * Abs(a - b) <= p.tolerance * Abs(b)

Comparable(step, prior, p) ==
  /\ prior.who = step.who /\ WorkloadMatches(step, prior, p)
  /\ prior.seconds # <<>> /\ prior.usable /\ prior.to < step.to

(* The n latest of the steps of history that are wanted, the earlier       *)
(* recorded first among those observed together.                           *)
Newest(history, Wanted(_), n) ==
  LET later(i, j) == history[i].to > history[j].to \/ (history[i].to = history[j].to /\ i < j)
      indices == SelectSeq([i \in DOMAIN history |-> i], LAMBDA i : Wanted(history[i]))
      sorted  == SortSeq(indices, later)
  IN  [k \in 1..(IF Len(sorted) < n THEN Len(sorted) ELSE n) |-> history[sorted[k]]]

(* What a bug would do: exposures are told apart by their ends alone.      *)
DisjointEnds(step, candidates) ==
  SelectSeq(candidates, LAMBDA item : item.to <= step.from /\ item.reference = step.reference)

(* A step that was recorded twice or that overlaps one that was taken is   *)
(* not a further exposure.                                                 *)
Disjoint(step, candidates) ==
  LET Take(acc, item) ==
        IF item.to > acc.until \/ item.reference # step.reference THEN acc
        ELSE [taken |-> Append(acc.taken, item), until |-> item.from]
  IN  FoldLeft(Take, [taken |-> <<>>, until |-> step.from], candidates).taken

(* recent_baseline_history *)
Cohort(step, history, p) ==
  LET recent == Newest(history, LAMBDA prior : Comparable(step, prior, p), IF p.robust THEN p.size ELSE 5)
  IN  IF p.robust THEN Disjoint(step, recent) ELSE recent

(* Twice the median of a sequence of numbers.                              *)
TwiceMedian(values) ==
  LET sorted == SortSeq(values, <)
      n      == Len(values)
  IN  sorted[(n + 1) \div 2] + sorted[n \div 2 + 1]

(* select_baseline: the peer nearest to the median duration, the latest of *)
(* those that are equally near.                                            *)
Baseline(cohort) ==
  IF cohort = <<>> THEN <<>>
  ELSE LET median  == TwiceMedian([i \in DOMAIN cohort |-> cohort[i].seconds[1]])
           away(i) == Abs(2 * cohort[i].seconds[1] - median)
       IN  <<cohort[CHOOSE i \in DOMAIN cohort :
               \A j \in DOMAIN cohort : away(i) < away(j) \/ (away(i) = away(j) /\ i <= j)]>>

-----------------------------------------------------------------------------
(* assess: the distance from the median in units of the deviation, which   *)
(* is estimated from the cohort and has a floor relative to the median.    *)
Assess(value, values, p) ==
  IF Len(values) < p.least THEN "insufficient_cohort"
  ELSE LET median    == TwiceMedian(values)
           deviation == TwiceMedian([i \in DOMAIN values |-> Abs(2 * values[i] - median)])
           relative  == 100 * p.floor * 2 * median
           scale     == IF 14826 * deviation > relative THEN 14826 * deviation ELSE relative
       IN  IF 10000 * Abs(4 * value - 2 * median) > p.z * scale THEN "shift_observed" ELSE "within_variation"

Known(cohort, Of(_)) == LET known == SelectSeq(cohort, LAMBDA s : Of(s) # <<>>)
                        IN  [i \in DOMAIN known |-> Of(known[i])[1]]
Duration(s) == s.seconds
Stage(s) == s.stages

(* duration_quality: without fields to match nothing says that the steps   *)
(* did the same work.                                                      *)
DurationQuality(step, cohort, p) ==
  IF ~p.robust \/ step.seconds = <<>> THEN "off"
  ELSE IF p.match = {} THEN "workload_unverified"
  ELSE Assess(step.seconds[1], Known(cohort, Duration), p)

(* _slow_stages and its filter in analyze: a stage is slow that takes long *)
(* enough, and one and a half times the median of the five latest.         *)
SlowStage(step, cohort, p, minimum) ==
  LET before == Known(SubSeq(cohort, 1, IF Len(cohort) < 5 THEN Len(cohort) ELSE 5), Stage)
  IN  /\ step.stages # <<>> /\ before # <<>>
      /\ step.stages[1] >= minimum
      /\ TwiceMedian(before) > 0 /\ 4 * step.stages[1] >= 3 * TwiceMedian(before)
      /\ p.robust => p.match # {} /\ Assess(step.stages[1], Known(cohort, Stage), p) = "shift_observed"

(* analyze: a step without a usable window is correlated with nothing.     *)
Report(step, history, p, minimum) ==
  IF ~step.usable THEN [verdict |-> "insufficient_data", baseline |-> <<>>, slow |-> FALSE, quality |-> "off"]
  ELSE LET cohort == Cohort(step, history, p)
       IN  [verdict |-> "open", baseline |-> Baseline(cohort), slow |-> SlowStage(step, cohort, p, minimum),
            quality |-> DurationQuality(step, cohort, p)]

-----------------------------------------------------------------------------
(* resource_run_relation: which evidence the run declared its engines for. *)
(* An item is [engine, cluster, node, instance]; c is [run, cluster, node, *)
(* instances, replicas].                                                   *)
Relation(items, c, run) ==
  LET engines  == \A i \in items : i.engine
      placed   == \A i \in items : i.cluster = c.cluster /\ i.node = c.node
      ofReplica(i) == \E r \in c.replicas : i.cluster = c.cluster /\ i.node = r.node /\ i.instance = <<r.instance>>
  IN  IF c.replicas # {} /\ c.run = run /\ items # {} /\ engines
      THEN IF \A i \in items : ofReplica(i) THEN "configured" ELSE "unlinked"
      ELSE IF \/ c.instances = {} \/ c.run # run \/ items = {} \/ ~engines \/ ~placed
              \/ \E i \in items : i.instance = <<>>
      THEN "shared_unverified"
      ELSE IF \A i \in items : i.instance[1] \in c.instances THEN "configured" ELSE "unlinked"

-----------------------------------------------------------------------------
(* A cohort has the step's own earlier peers only, the robust one no two   *)
(* exposures of the same time, and nothing of the current window.          *)
CohortIsOwn(step, history, p) ==
  LET cohort == Cohort(step, history, p)
  IN  /\ Len(cohort) <= (IF p.robust THEN p.size ELSE 5)
      /\ \A i \in DOMAIN cohort : Comparable(step, cohort[i], p)
      /\ p.robust => /\ \A i, j \in DOMAIN cohort : i < j => cohort[j].to <= cohort[i].from
                     /\ \A i \in DOMAIN cohort : cohort[i].to <= step.from /\ cohort[i].reference = step.reference

(* Neither a record that is written again nor one of a later step enlarges *)
(* a robust cohort or changes its newest peers, so that no stage gets slow *)
(* by it.                                                                  *)
ReplayAddsNothing(step, history, p, minimum) ==
  \A i \in DOMAIN history :
    LET again == Append(history, history[i])
        later == Append(history, [history[i] EXCEPT !.from = step.to, !.to = step.to + 1])
    IN  /\ p.robust => IsPrefix(Cohort(step, again, p), Cohort(step, history, p))
        /\ Report(step, later, p, minimum) = Report(step, history, p, minimum)

(* A step that is no slower than any of its peers has no slow stage and no *)
(* shift upwards, whatever the policy.                                     *)
OnlySlowerIsSlow(step, history, p, minimum) ==
  LET cohort == IF step.usable THEN Cohort(step, history, p) ELSE <<>>
      report == Report(step, history, p, minimum)
  IN  /\ report.slow => /\ step.usable
                        /\ \E i \in DOMAIN cohort : cohort[i].stages # <<>> /\ cohort[i].stages[1] < step.stages[1]
      /\ report.quality = "shift_observed" =>
           \E i \in DOMAIN cohort : cohort[i].seconds[1] # step.seconds[1]

(* Evidence is called the run's own only at an endpoint the run declared.  *)
RelationIsDeclared(items, c, run) ==
  Relation(items, c, run) = "configured" =>
    /\ c.run = run
    /\ \A i \in items : /\ i.engine /\ i.cluster = c.cluster
                        /\ \/ i.node = c.node /\ i.instance[1] \in c.instances
                           \/ \E r \in c.replicas : i.node = r.node /\ i.instance = <<r.instance>>
=============================================================================
