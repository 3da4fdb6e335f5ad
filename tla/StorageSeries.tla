---------------------------- MODULE StorageSeries ----------------------------
(***************************************************************************)
(* analysis/storage_series.py: the reports of the storage service's own    *)
(* collection that a window and its baseline are read with, under one      *)
(* budget of points, and which of them are compared.                       *)
(*                                                                         *)
(* A window is [start, end, exact] in half seconds, so that bounds need    *)
(* not be whole; a row is [metric, host, at, count, value, reset], the     *)
(* host and value optional, at in whole seconds, reset for a counter that  *)
(* starts anew with every report.  A question is [wanted, answer], the     *)
(* latter <<>> when the query fails.                                       *)
(***************************************************************************)
EXTENDS Integers, Sequences, SequencesExt, FiniteSets

Valid(window) == window # <<>> /\ window[1].start < window[1].end
Length(w) == w.end - w.start
Slots(w) == (w.end + 1) \div 2 - (w.start + 1) \div 2

-----------------------------------------------------------------------------
(* collect_storage_series: distributions and counters of the window and    *)
(* then of the baseline; what a query returns beyond the points that are   *)
(* left is refused as a whole.                                             *)
Query(left, question) ==
  IF ~question.wanted THEN [status |-> "not_configured", rows |-> <<>>]
  ELSE IF left <= 0 THEN [status |-> "budget_exhausted", rows |-> <<>>]
  ELSE IF question.answer = <<>> \/ Len(question.answer[1]) > left THEN [status |-> "query_failed", rows |-> <<>>]
  ELSE [status |-> IF question.answer[1] = <<>> THEN "no_data" ELSE "observed", rows |-> question.answer[1]]

Entry(left, window, ask) ==
  IF ~Valid(window)
  THEN [window |-> window, left |-> left,
        distributions |-> [status |-> "missing_window", rows |-> <<>>],
        counters |-> [status |-> "missing_window", rows |-> <<>>]]
  ELSE LET d == Query(left, ask.distributions)
           c == Query(left - Len(d.rows), ask.counters)
       IN  [window |-> window, left |-> left - Len(d.rows) - Len(c.rows), distributions |-> d, counters |-> c]

Rows(entry) == entry.distributions.rows \o entry.counters.rows

Collected(x) ==
  LET current == Entry(x.max, x.window, x.current)
  IN  [current |-> current, baseline |-> Entry(current.left, x.before, x.baseline)]

(* _quality: the clocks that are known of the hosts that reported; clocks  *)
(* maps the hosts that are declared to their nodes' status.                *)
Screened(entry, clocks, status) ==
  LET rows == Rows(entry)
  IN  /\ Valid(entry.window) /\ status = "aligned" /\ rows # <<>>
      /\ \A i \in DOMAIN rows : /\ rows[i].host # <<>>
                                /\ rows[i].host[1] \in DOMAIN clocks
                                /\ clocks[rows[i].host[1]] = "aligned"

Eligible(x) ==
  LET c == Collected(x)
  IN  Screened(c.current, x.clocks, x.clock) /\ Screened(c.baseline, x.clocks, x.clockBefore)

-----------------------------------------------------------------------------
(* distribution_comparison_quality: extrema are compared of equally long   *)
(* windows with as many reports in as many seconds.                        *)
Reports(rows) == FoldLeft(LAMBDA n, r : n + r.count, 0, rows)
Seconds(rows) == Cardinality({rows[i].at : i \in DOMAIN rows})
Counted(rows) == rows # <<>> /\ \A i \in DOMAIN rows : rows[i].count > 0

ComparisonStatus(rows, before, w, b) ==
  IF ~Valid(w) \/ ~Valid(b) THEN "report_window_unknown"
  ELSE IF Length(w[1]) < 2 \/ Length(b[1]) < 2 THEN "insufficient_timestamp_resolution"
  ELSE IF Length(w[1]) # Length(b[1]) \/ Slots(w[1]) # Slots(b[1]) THEN "different_report_window_exposure"
  ELSE IF ~Counted(rows) \/ ~Counted(before) THEN "report_population_unknown"
  ELSE IF Reports(rows) # Reports(before) \/ Seconds(rows) # Seconds(before) THEN "different_report_population"
  ELSE "shared_report_window"

EqualExposure(w, b) == Valid(w) /\ Valid(b) /\ Length(w[1]) = Length(b[1]) /\ Slots(w[1]) = Slots(b[1])

(* The groups of one table, metric and host that both windows have.        *)
Group(rows, key) == SelectSeq(rows, LAMBDA r : <<r.metric, r.host>> = key)
SeriesOf(rows) == {<<rows[i].metric, rows[i].host>> : i \in DOMAIN rows}
Largest(rows) == CHOOSE v \in {rows[i].value[1] : i \in DOMAIN rows} : \A i \in DOMAIN rows : rows[i].value[1] <= v
Total(rows) == FoldLeft(LAMBDA n, r : n + r.value[1], 0, rows)

Compared(x, table) ==
  LET c       == Collected(x)
      now     == c.current[table].rows
      earlier == c.baseline[table].rows
      known(rows) == \A i \in DOMAIN rows : rows[i].value # <<>>
      Of(rows)    == IF table = "distributions" THEN Largest(rows) ELSE Total(rows)
      status(a, b) ==
        IF ~Eligible(x) THEN "clock_unverified"
        ELSE IF table = "distributions" THEN ComparisonStatus(a, b, x.window, x.before)
        ELSE IF EqualExposure(x.window, x.before) THEN "shared_report_window" ELSE "different_report_window_exposure"
      row(key) == LET a == Group(now, key)
                      b == Group(earlier, key)
                  IN  [key |-> key, current |-> Of(a), baseline |-> Of(b), status |-> status(a, b),
                       delta |-> IF status(a, b) = "shared_report_window" THEN <<Of(a) - Of(b)>> ELSE <<>>]
  IN  {row(key) : key \in {k \in SeriesOf(now) \cap SeriesOf(earlier) :
                             /\ known(Group(now, k)) /\ known(Group(earlier, k))
                             /\ table = "counters" => Group(now, k)[1].reset}}

-----------------------------------------------------------------------------
(* Both windows together hold no more points than the budget, and each of  *)
(* the four questions says why it has none.                                *)
BudgetIsShared(x) ==
  LET c == Collected(x)
  IN  /\ Len(Rows(c.current)) + Len(Rows(c.baseline)) <= x.max
      /\ \A role \in {"current", "baseline"}, table \in {"distributions", "counters"} :
           (c[role][table].status = "observed") = (c[role][table].rows # <<>>)

(* A difference is only stated of one host's reports, whose clock and the  *)
(* clocks of all other reporting hosts are aligned in both windows, over   *)
(* the same exposure; then exchanging the windows negates it.              *)
DeltaIsFair(x) ==
  \A table \in {"distributions", "counters"} : \A r \in {s \in Compared(x, table) : s.delta # <<>>} :
    /\ \A role \in {"current", "baseline"} :
         LET rows == Rows(Collected(x)[role])
         IN  \A i \in DOMAIN rows : rows[i].host # <<>> /\ x.clocks[rows[i].host[1]] = "aligned"
    /\ EqualExposure(x.window, x.before) /\ x.clock = "aligned" /\ x.clockBefore = "aligned"
    /\ table = "distributions" =>
         Reports(Group(Collected(x).current[table].rows, r.key)) = Reports(Group(Collected(x).baseline[table].rows, r.key))
    /\ LET y == [x EXCEPT !.window = x.before, !.before = x.window, !.current = x.baseline, !.baseline = x.current]
       IN  x.max >= 8 => \E s \in Compared(y, table) : s.key = r.key /\ s.delta = <<-r.delta[1]>>
=============================================================================
