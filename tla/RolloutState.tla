---------------------------- MODULE RolloutState ----------------------------
(***************************************************************************)
(* analysis/rollout_state.py and rollout_replicas.py, with the observer in *)
(* adapters/rollout.py: what is known of a replica over a window from the  *)
(* states, workloads, versions and router snapshots that were observed,    *)
(* and what its engines' metrics may then be used for.                     *)
(*                                                                         *)
(* An observation is [kind, at, value, generation]: its kind "router",     *)
(* "state", "workload" or "policy", its optional time on the reference     *)
(* axis, whose absence means that it cannot be placed, and the value of    *)
(* the one replica that is looked at.  A router's value is <<>> when the   *)
(* query failed, else whether the replica's server was registered.         *)
(***************************************************************************)
EXTENDS Integers, Sequences, SequencesExt, FiniteSets

Inactive == {"sleeping", "weight_update", "waking"}

Unknown(issues) ==
  [registered |-> <<>>, state |-> "unknown", generation |-> <<>>, inactive |-> FALSE,
   workload |-> <<>>, policy |-> <<>>, issues |-> issues]

(* The observer: a failed poll is recorded as one.                         *)
Snapshot(at, status) == [kind |-> "router", at |-> at, value |-> status, generation |-> <<>>]
Poll(at, status, consistent) == Snapshot(at, IF consistent THEN status ELSE <<>>)
Observed(kind, at, value, generation) == [kind |-> kind, at |-> at, value |-> <<value>>, generation |-> generation]

-----------------------------------------------------------------------------
(* What is known from the observations of one kind.                        *)
Knowledge(status, value, generation) == [status |-> status, value |-> value, generation |-> generation]

Before(rows, w) == SelectSeq(rows, LAMBDA r : r.at[1] <= w[1])
After(rows, w) == SelectSeq(rows, LAMBDA r : r.at[1] > w[1])
Newest(rows) == IF rows = <<>> THEN <<>> ELSE <<rows[Len(rows)]>>

(* stable: relevant are the latest of rows before the window w and those   *)
(* in it; they begin before it, leave no gap of more than the age, and say *)
(* the same all along.                                                     *)
Known(before, relevant, w, age) ==
  IF before = <<>>
  THEN Knowledge(IF relevant = <<>> THEN "none" ELSE "no_pre_interval_observation", <<>>, <<>>)
  ELSE Knowledge(
    IF \/ w[1] - relevant[1].at[1] > age
       \/ \E i \in DOMAIN relevant :
            (IF i = Len(relevant) THEN w[2] ELSE relevant[i+1].at[1]) - relevant[i].at[1] > age
    THEN "observation_stale_or_gap"
    ELSE IF \E r \in Range(relevant) :
              \/ r.value = <<>>
              \/ r.value # relevant[1].value \/ r.generation # relevant[1].generation
    THEN "changed" ELSE "stable",
    relevant[Len(relevant)].value, relevant[Len(relevant)].generation)
Stable(rows, w, age) == Known(Before(rows, w), Newest(Before(rows, w)) \o After(rows, w), w, age)

(* The observations up to the end of the window, in the order of time.     *)
Placed(events, kind, w) ==
  SortSeq(SelectSeq(events, LAMBDA e : e.kind = kind /\ e.at # <<>> /\ e.at[1] <= w[2]),
          LAMBDA a, b : a.at[1] < b.at[1])
Sampled(events, kind, w, age) == Stable(Placed(events, kind, w), w, age)

(* Whether an inactive state was seen in the window, or before it without  *)
(* another for no longer than the age.                                     *)
SeenInactive(states, w, age) ==
  \/ \E s \in Range(states) : s.value[1] \in Inactive /\ s.at[1] \in w[1]..w[2]
  \/ \E s \in Range(Newest(Before(states, w))) :
       /\ s.value[1] \in Inactive
       /\ Head(After(states, w) \o <<[at |-> <<w[2]>>]>>).at[1] - s.at[1] <= age

(* A workload or a version is taken when it is stable and of the           *)
(* generation that is known by then.                                       *)
Fitting(k, generation) ==
  IF k.status = "stable" /\ (generation = <<>> \/ k.generation = generation) THEN k
  ELSE [k EXCEPT !.value = <<>>, !.status = IF k.status = "stable" THEN "generation_mismatch" ELSE k.status]
Held(life) == IF life.status = "stable" THEN life ELSE [life EXCEPT !.value = <<>>, !.generation = <<>>]
Born(generation, k) == IF generation = <<>> /\ k.value # <<>> THEN k.generation ELSE generation

Replica(router, life, seen, work, policy, generation) ==
  [registered |-> IF router.status = "stable" THEN router.value ELSE <<>>,
   state |-> IF life.value = <<>> THEN "unknown" ELSE life.value[1],
   inactive |-> life.value \in {<<s>> : s \in Inactive} \/ seen,
   generation |-> generation, workload |-> work.value, policy |-> policy.value,
   issues |-> {i \in {"router_changed_or_unavailable"} : router.status = "changed"}
              \cup {i \in {"lifecycle_changed_during_interval"} : life.status = "changed"}
              \cup {i \in {"workload"} : work.status \notin {"none", "stable"}}
              \cup {i \in {"applied_policy_version"} : policy.status \notin {"none", "stable"}}]

WithPolicy(router, life, seen, work, policy, generation) ==
  Replica(router, life, seen, work, policy, Born(generation, policy))
WithWork(router, life, seen, work, policy) ==
  LET generation == Born(life.generation, work)
  IN  WithPolicy(router, life, seen, work, Fitting(policy, generation), generation)
WithLife(router, life, seen, work, policy) ==
  WithWork(router, life, seen, Fitting(work, life.generation), policy)

(* load_serving_context: files says how the observations could be read;    *)
(* one that cannot be placed, or was lost, leaves everything unknown.      *)
Context(files, events, w, age) ==
  IF files # "complete" THEN Unknown({"observation_read_or_limit_failure"})
  ELSE IF \E e \in Range(events) : e.at = <<>> THEN Unknown({"observation_time_unverified"})
  ELSE WithLife(Sampled(events, "router", w, age), Held(Sampled(events, "state", w, age)),
                SeenInactive(Placed(events, "state", w), w, age),
                Sampled(events, "workload", w, age), Sampled(events, "policy", w, age))

(* comparison_issues: a field that differs, or is known on one side only.  *)
Fields == {"generation", "workload", "policy", "state", "registered"}
Comparable(current, baseline) ==
  current.issues \cup baseline.issues = {} /\ \A f \in Fields : current[f] = baseline[f]

-----------------------------------------------------------------------------
(* observations: for one engine of a replica and one metric, the values    *)
(* that the rules get, and whether a difference is stated.  A row is       *)
(* [engine, operation, v, issues]; of several rows of an engine none is    *)
(* taken, and the baseline's must be of the same operation.                *)
Clocked(status, configured, mapping) == configured /\ status = "aligned" /\ mapping \in {"absent", "aligned"}

Metric(x, engine) ==
  LET now      == {r \in x.now : r.engine = engine}
      single   == Cardinality(now) = 1
      row      == CHOOSE r \in now : TRUE
      earlier  == {r \in x.before : r.engine = engine /\ single /\ r.operation = row.operation}
      peer     == CHOOSE r \in earlier : TRUE
      current  == IF single THEN row.v ELSE <<>>
      baseline == IF Cardinality(earlier) = 1 THEN peer.v ELSE <<>>
      clean(rows) == \A r \in rows : r.issues = {}
  IN  [current |-> current, baseline |-> baseline,
       usable |-> IF x.clock /\ "stale" \notin row.issues THEN current ELSE <<>>,
       usableBefore |-> IF baseline = <<>> \/ ~x.same \/ ~x.clockBefore \/ "stale" \in peer.issues THEN <<>> ELSE baseline,
       delta |-> IF current # <<>> /\ baseline # <<>> /\ x.clock /\ x.clockBefore /\ x.same
                    /\ clean(now) /\ clean(earlier)
                 THEN <<current[1] - baseline[1]>> ELSE <<>>]

-----------------------------------------------------------------------------
(* The state of a replica is a function life of time, whose every change   *)
(* is observed.  What is called its state held all through the window, and *)
(* a window in which it did not serve is not passed over.                  *)
StateIsTrue(files, events, life, w, age) ==
  \A c \in {Context(files, events, w, age)} :
    /\ c.state # "unknown" => \A t \in w[1]..w[2] : life[t] = c.state
    /\ (\E t \in w[1]..w[2] : life[t] \in Inactive) => c.inactive \/ c.state = "unknown"
    /\ c.inactive => \E t \in DOMAIN life : life[t] \in Inactive

(* Two windows are comparable only when the replica was observed to be in  *)
(* the same state, with the same version applied, in all of both.          *)
ComparisonIsTrue(files, events, life, applied, w, b, age) ==
  \A current \in {Context(files, events, w, age)}, baseline \in {Context(files, events, b, age)} :
    Comparable(current, baseline) /\ current.state # "unknown" =>
      \A t \in w[1]..w[2], u \in b[1]..b[2] :
        life[t] = life[u] /\ (current.policy # <<>> => applied[t] = applied[u])

(* A difference is stated of one operation of one engine, of which both    *)
(* windows returned one row, with aligned clocks and nothing else wrong.   *)
DeltaIsOwn(x) ==
  \A engine \in {r.engine : r \in x.now} :
    Metric(x, engine).delta # <<>> =>
      \E r \in x.now, s \in x.before :
        /\ r.engine = engine /\ s.engine = engine /\ r.operation = s.operation
        /\ Metric(x, engine).delta = <<r.v[1] - s.v[1]>>
        /\ {p \in x.now : p.engine = engine} = {r}
        /\ Metric(x, engine).usable = r.v /\ Metric(x, engine).usableBefore = s.v
=============================================================================
