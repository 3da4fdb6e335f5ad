-------------------------- MODULE SamplingQuality --------------------------
(***************************************************************************)
(* analysis/evidence_quality.py, observation_contracts.py,                 *)
(* metric_observations.py and query_budget.py, and prometheus.py: what is  *)
(* known of the samples behind an answer of the time-series backend, and   *)
(* how a failure of one query touches the others.                          *)
(*                                                                         *)
(* A query q is [range, selectors, plain]: the largest of its range        *)
(* windows, <<>> when one is not understood, how many series selectors it  *)
(* has, and whether nothing but known wrappers is around them.  A row of   *)
(* the source's timestamps is [entity, extra, stamps]: the resource, one   *)
(* of its series, and the times of its samples.  A returned series is      *)
(* [id, points], a point [t, v] with optional numbers.                     *)
(***************************************************************************)
EXTENDS Integers, Sequences, SequencesExt, FiniteSets, FiniteSetsExt

Least(S) == IF S = {} THEN <<>> ELSE <<CHOOSE x \in S : \A y \in S : x <= y>>

-----------------------------------------------------------------------------
(* _range_result: points without a time and a value are discarded and      *)
(* counted; a series twice or times out of order make the answer an error. *)
Kept(points) == SelectSeq(points, LAMBDA p : p.t # <<>> /\ p.v # <<>>)
Ordered(points) == \A i, j \in DOMAIN points : i < j => points[i].t[1] < points[j].t[1]

RangeResult(series, maxPoints) ==
  LET kept == [i \in DOMAIN series |-> [id |-> series[i].id, points |-> Kept(series[i].points)]]
      size == FoldLeft(LAMBDA n, s : n + Len(s.points), 0, series)
  IN  IF \/ \E i, j \in DOMAIN series : i # j /\ series[i].id = series[j].id
         \/ size > maxPoints
         \/ \E i \in DOMAIN kept : ~Ordered(kept[i].points)
      THEN <<>>
      ELSE LET whole == SelectSeq(kept, LAMBDA s : s.points # <<>>)
           IN  <<[series |-> whole, lostSeries |-> Len(series) - Len(whole),
                  lostSamples |-> size - FoldLeft(LAMBDA n, s : n + Len(s.points), 0, kept)]>>

(* series_stats: how much a counter grew between its points; a value that  *)
(* is lower than the one before counts from zero.                          *)
Growth(points) ==
  IF Len(points) < 2 THEN <<>>
  ELSE LET step(i) == IF points[i+1].v[1] >= points[i].v[1] THEN points[i+1].v[1] - points[i].v[1]
                      ELSE points[i+1].v[1]
       IN  <<FoldLeft(LAMBDA n, i : n + step(i), 0, [i \in 1..(Len(points) - 1) |-> i])>>

(* timestamp_query: only of a query of one selector is it known which      *)
(* samples it reads.                                                       *)
Inspected(q) == q.selectors = 1 /\ q.plain

(* check_source: of every series that the source returns, the last sample  *)
(* and how many distinct ones lie within the interval w.                   *)
SourceRow(row, w) ==
  [entity |-> row.entity, extra |-> row.extra,
   last |-> CHOOSE t \in row.stamps : \A u \in row.stamps : u <= t,
   count |-> Cardinality({t \in row.stamps : t \in w[1]..w[2]})]

CheckSource(q, rows, w, checked) ==
  IF checked /\ Inspected(q) THEN {SourceRow(r, w) : r \in rows} ELSE {}

(* What a bug would do: the newest sample of any entity counts.            *)
SourceOfAny(source, entity) ==
  [last |-> Least({r.last : r \in source}), count |-> Least({r.count : r \in source})]

(* source_for_entity: the least of the rows of the selected entity; one    *)
(* without labels has none.                                                *)
SourceOf(source, entity) ==
  LET own == {r \in source : r.entity = entity /\ entity # "unlabeled"}
  IN  [last |-> Least({r.last : r \in own}), count |-> Least({r.count : r \in own})]

(* quality and selected_quality: the warnings of an answer that was        *)
(* evaluated at so many points, annotated by the backend or not.           *)
Warnings(q, w, step, source, evaluations, annotated) ==
  LET duration == w[2] - w[1]
      future   == source.last # <<>> /\ source.last[1] > w[2]
  IN  {x \in {"range_window_unknown"} : q.range = <<>>}
      \cup {x \in {"range_window_exceeds_interval"} : q.range # <<>> /\ q.range[1] > duration}
      \cup {x \in {"query_step_exceeds_interval"} : step > duration}
      \cup {x \in {"selected_entity_evaluation_count_unknown"} : evaluations = <<>>}
      \cup {x \in {"fewer_than_two_query_evaluations"} : evaluations # <<>> /\ evaluations[1] < 2}
      \cup {x \in {"source_freshness_unknown"} : source.last = <<>>}
      \cup {x \in {"source_timestamp_in_future"} : future}
      \cup {x \in {"source_sample_before_interval"} : source.last # <<>> /\ source.last[1] < w[1]}
      \cup {x \in {"fewer_than_two_observed_source_samples"} : source.count # <<>> /\ source.count[1] < 2}
      \cup {x \in {"backend_annotations"} : annotated}

InvalidSourceTime == {"source_timestamp_in_future", "source_sample_before_interval"}

(* assess_entity and Observation.decode: the status of what was measured,  *)
(* and the issues that keep it from supporting a strong signal, of which   *)
(* all the warnings are one.                                               *)
Assess(a) ==
  LET warnings == Warnings(a.q, a.w, a.step, SourceOf(CheckSource(a.q, a.rows, a.w, a.checked), a.entity),
                           a.evaluations, a.annotated)
      status   == IF warnings \cap InvalidSourceTime # {} THEN "stale"
                  ELSE IF a.declared # <<>> THEN a.declared[1]
                  ELSE IF a.value = <<>> \/ a.evaluations = <<0>> THEN "no_data" ELSE "observed"
  IN  [status |-> status, issues |-> warnings]

(* A declared observation without a measurement is refused.                *)
Accepted(a) == a.declared = <<"observed">> => a.value # <<>> /\ a.evaluations # <<0>>

(* EvidenceBundle.available_signals, limits_at and apply_evidence_limits.  *)
Available(a) == Assess(a).status = "observed"
Unlimited(a) == Available(a) /\ Assess(a).issues = {}

-----------------------------------------------------------------------------
(* QueryBudget and collect_metrics: the metrics in order, each with its    *)
(* query of this and of the baseline's interval.  A query is [takes,       *)
(* quiet, outcome, source]: the time until its answer is complete, the     *)
(* longest that the backend says nothing in it, and an optional query of   *)
(* its source's times.  A limit is [seconds, timeout, clamped]: what all   *)
(* queries share, what the client waits for, and whether that can be cut   *)
(* to what is left.  The budget keeps queries from being sent; one that    *)
(* was sent ends early only when the socket is quiet for too long, so a    *)
(* slow answer may come after the budget is over and still counts.         *)
Outcomes == {"data", "nothing", "rejected", "transport"}
Fresh == [elapsed |-> 0, unavailable |-> FALSE, attempted |-> 0, failed |-> 0, skipped |-> 0,
          answer |-> "none", sent |-> <<>>]

Patience(limit, remaining) ==
  IF limit.clamped /\ remaining < limit.timeout THEN remaining ELSE limit.timeout

(* A failure of the transport makes the backend unavailable for the rest   *)
(* of the analysis, a failure of the query does not.  (sent is the history *)
(* of what was asked, and when.)                                           *)
Ask(state, query, limit) ==
  LET remaining == limit.seconds - state.elapsed
      beyond    == query.quiet - Patience(limit, remaining)
      outcome   == IF beyond > 0 THEN "transport" ELSE query.outcome
  IN  IF remaining <= 0 \/ state.unavailable THEN [state EXCEPT !.skipped = @ + 1, !.answer = "skipped"]
      ELSE [state EXCEPT !.attempted = @ + 1, !.answer = outcome,
                         !.sent = Append(@, [at |-> state.elapsed, outcome |-> outcome]),
                         !.elapsed = @ + query.takes - (IF beyond > 0 THEN beyond ELSE 0),
                         !.failed = IF outcome \in {"rejected", "transport"} THEN @ + 1 ELSE @,
                         !.unavailable = outcome = "transport"]

Answered(state) == state.answer \in {"data", "nothing"}

(* collect_query: the check of the source is a query too, whose failure is *)
(* not the metric's.                                                       *)
AskChecked(state, query, limit) ==
  LET answer == Ask(state, query, limit)
  IN  IF Answered(answer) /\ query.source # <<>>
      THEN [Ask(answer, query.source[1], limit) EXCEPT !.answer = answer.answer]
      ELSE answer

Collect(metrics, limit) ==
  LET One(acc, m) ==
        LET now    == AskChecked(acc.budget, m.now, limit)
            before == IF Answered(now) THEN AskChecked(now, m.before, limit) ELSE now
        IN  [budget |-> before,
             evidence |-> IF now.answer = "data" THEN acc.evidence \cup {m.name} ELSE acc.evidence,
             baseline |-> IF Answered(now) /\ before.answer = "data" THEN acc.baseline \cup {m.name} ELSE acc.baseline,
             missing |-> IF now.answer = "data" /\ before.answer = "data" THEN acc.missing
                         ELSE acc.missing \cup {m.name}]
  IN  FoldLeft(One, [budget |-> Fresh, evidence |-> {}, baseline |-> {}, missing |-> {}], metrics)

-----------------------------------------------------------------------------
(* What may support a strong signal was sampled: of the entity itself at   *)
(* least two samples lie in the interval, in every one of its series, and  *)
(* the answer was evaluated twice.                                         *)
UndoubtedIsSampled(a) ==
  Accepted(a) /\ Unlimited(a) =>
    LET own == {r \in a.rows : r.entity = a.entity}
    IN  /\ a.value # <<>> /\ a.evaluations # <<>> /\ a.evaluations[1] >= 2
        /\ own # {} /\ a.entity # "unlabeled"
        /\ \A r \in own : Cardinality(r.stamps \cap a.w[1]..a.w[2]) >= 2

(* What other entities report changes nothing.                             *)
NothingIsBorrowed(a) ==
  Assess(a) = Assess([a EXCEPT !.rows = {r \in @ : r.entity = a.entity}])

(* A counter's growth is never more than its increments between the first  *)
(* and the last point that were kept, however it was reset and whatever    *)
(* was lost.  Its history is a sequence of increments, -1 for a reset, and *)
(* the points are read off it at the times in seen.                        *)
GrowthIsReal(history, seen, lost) ==
  LET value(t)  == FoldLeft(LAMBDA v, x : IF x = -1 THEN 0 ELSE v + x, 0, SubSeq(history, 1, t))
      points    == [i \in DOMAIN seen |-> [t |-> <<seen[i]>>, v |-> IF i \in lost THEN <<>> ELSE <<value(seen[i])>>]]
      result    == RangeResult(<<[id |-> "s", points |-> points]>>, 200000)
      between(a, b) == FoldLeft(LAMBDA n, x : IF x = -1 THEN n ELSE n + x, 0, SubSeq(history, a + 1, b))
  IN  /\ result # <<>> /\ result[1].series # <<>> =>
           LET kept == result[1].series[1].points
           IN  /\ Len(kept) + result[1].lostSamples = Len(points)
               /\ Growth(kept) # <<>> => Growth(kept)[1] \in 0..between(kept[1].t[1], kept[Len(kept)].t[1])

(* Every metric is found or missed, and one whose data was there is missed *)
(* only because of the transport or the budget.  No query is sent after    *)
(* the budget is over, or after the transport failed.  The budget is no    *)
(* deadline: the last query may take longer, but a wait that is cut to it  *)
(* not, so it is overrun by no more than what a query takes besides its    *)
(* longest silence; and a backend that says nothing costs one timeout,     *)
(* whatever the number of queries.                                         *)
EveryMetricIsAccounted(metrics, limit) ==
  \A c \in {Collect(metrics, limit)} :
  LET names == {metrics[i].name : i \in DOMAIN metrics}
      asked == {metrics[i].now : i \in DOMAIN metrics} \cup {metrics[i].before : i \in DOMAIN metrics}
      all   == asked \cup UNION {{q.source[i] : i \in DOMAIN q.source} : q \in asked}
      over  == c.budget.unavailable \/ c.budget.elapsed >= limit.seconds
      sent  == c.budget.sent
      Bad(i) == sent[i].outcome \in {"rejected", "transport"}
  IN  /\ c.evidence \cup c.missing = names
      /\ c.budget.attempted = Len(sent) /\ c.budget.failed = Cardinality({i \in DOMAIN sent : Bad(i)})
      /\ \A i \in DOMAIN sent :
           sent[i].at < limit.seconds /\ (sent[i].outcome = "transport" => i = Len(sent))
      /\ limit.clamped => c.budget.elapsed <= limit.seconds + Max({q.takes - q.quiet : q \in all})
      /\ (\A q \in all : q.takes = q.quiet /\ q.quiet > limit.timeout) => c.budget.elapsed <= limit.timeout
      /\ c.budget.skipped > 0 => over
      /\ \A i \in DOMAIN metrics :
           metrics[i].now.outcome = "data" /\ metrics[i].name \notin c.evidence => over
=============================================================================
