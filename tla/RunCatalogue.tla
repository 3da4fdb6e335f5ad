---------------------------- MODULE RunCatalogue ----------------------------
(***************************************************************************)
(* operations/runs.py, operations/run_artifacts.py and the recent events   *)
(* of show_run.py: what is read of the files that runs left, the summary   *)
(* of a run, the comparison of two and the catalogue of all.  An absent    *)
(* text is "".  A duration is in a function of the names that were         *)
(* measured; the mean of durations is their total and their number.        *)
(***************************************************************************)
EXTENDS Integers, Sequences, FiniteSets, FiniteSetsExt, SequencesExt, Functions

MaxMetrics == 100   \* of a summary

(* _records: a file is "missing", "changed" while it was read or too large *)
(* ("changed" as well), or "read", in part when not whole.                 *)
Rows(file) == IF file.state = "read" THEN file.rows ELSE <<>>
Partial(file) == file.state = "changed" \/ (file.state = "read" /\ ~file.whole)

-----------------------------------------------------------------------------
(* summarize: the records of this run, each once; of conflicting ones none *)
IsOwn(r, m) == r.run = m.run /\ r.id # "" /\ r.schema /\ r.cluster \in {"", m.cluster}
Own(rows, m) == SelectSeq(rows, LAMBDA r : IsOwn(r, m))
Conflicts(rows) == {r.id : r \in {x \in Range(rows) : \E y \in Range(rows) : y.id = x.id /\ y # x}}
Recorded(rows) == {r \in Range(rows) : r.id \notin Conflicts(rows)}

Agrees(a, b) == "" \in {a, b} \/ a = b
Agreement(a, b, otherwise) == IF Agrees(a, b) THEN (IF a # "" THEN a ELSE b) ELSE otherwise
Model(m) == Agreement(m.configured, m.model, "")
Declared(m) == Agreement(m.configuredOrigin, m.origin, "mixed")
Disputed(m) == ~(Agrees(m.configured, m.model) /\ Agrees(m.configuredOrigin, m.origin))
Origins(records, m) ==
  {IF r.origin # "" THEN r.origin ELSE IF Declared(m) # "" THEN Declared(m) ELSE "observed" : r \in records}
  \cup ({Declared(m)} \ {""})
Origin(records, m) ==
  LET found == Origins(records, m)
  IN  IF Cardinality(found) = 1 THEN CHOOSE o \in found : TRUE ELSE IF found # {} THEN "mixed" ELSE "unknown"

Accuracies(group) == {r.accuracy : r \in group}
GroupQuality(group, doubted) ==
  IF ~doubted /\ Cardinality(Accuracies(group)) = 1 /\ "unknown" \notin Accuracies(group)
     /\ \A r \in group : r.entity # "incomplete"
  THEN "complete" ELSE "partial"

Measured(group, name) == {r \in group : name \in DOMAIN r.durations}
Shapes(group) ==
  [w \in {r.workload : r \in group} \ {""} |-> Cardinality({r \in group : r.workload = w})]
Application(group, name, doubted) ==
  LET rows == Measured(group, name)
  IN  [order |-> 0, metric |-> name, scope |-> "application", entity |-> (CHOOSE r \in group : TRUE).entity, unit |-> "s",
       statistic |-> "mean", value |-> [total |-> MapThenSumSet(LAMBDA r : r.durations[name], rows), count |-> Cardinality(rows)],
       quality |-> IF rows = group THEN GroupQuality(group, doubted) ELSE "partial",
       accuracy |-> IF Cardinality(Accuracies(group)) = 1 THEN CHOOSE a \in Accuracies(group) : TRUE ELSE "mixed",
       shapes |-> Shapes(group), size |-> Cardinality(group), observed |-> \A r \in group : r.workload # "",
       exposure |-> ""]

Groups(records) == {{r \in records : r.entity = e} : e \in {r.entity : r \in records}}
Names(group) == UNION {DOMAIN r.durations : r \in group}
Applications(records, doubted) ==
  UNION {{Application(g, n, doubted) : n \in Names(g)} : g \in Groups(records)}

(* The signals of the last diagnosis that the run recorded.                *)
Latest(reports, m) ==
  LET own == SelectSeq(reports, LAMBDA r : r.run = m.run)
  IN  IF own = <<>> THEN {} ELSE {own[Len(own)]}
SignalQuality(s, report, partial) ==
  CASE s.disputed -> "comparison_quality_incomplete"
    [] s.sampling # "good" -> "sampling_unknown"
    [] report.clock # "aligned" -> "clock_unknown"
    [] partial \/ s.entity = "" \/ s.unit = "" \/ s.statistic = "" -> "partial"
    [] OTHER -> "complete"
Resource(s, i, report, partial) ==
  [order |-> i, metric |-> s.name, scope |-> s.scope, entity |-> s.entity, unit |-> s.unit, statistic |-> s.statistic,
   value |-> [total |-> s.current[1], count |-> 1], quality |-> SignalQuality(s, report, partial),
   accuracy |-> "", shapes |-> <<>>, size |-> 1, observed |-> FALSE, exposure |-> s.exposure]
Unnamed(report) == {i \in DOMAIN report.signals : report.signals[i].name = ""}
Resources(reports, m, partial) ==
  UNION {{Resource(r.signals[i], i, r, partial \/ \E j \in Unnamed(r) : j < i) :
            i \in {j \in DOMAIN r.signals \ Unnamed(r) : r.signals[j].scope # "application" /\ r.signals[j].current # <<>>}} : r \in Latest(reports, m)}

Summary(run) ==
  LET m == run.manifest
      own == Own(Rows(run.steps), m)
      records == Recorded(own)
      conflict == Conflicts(own) # {}
      partial == Partial(run.steps) \/ Len(own) # Len(Rows(run.steps))
      reportsPartial == Partial(run.reports) \/ \E r \in Latest(Rows(run.reports), m) : Unnamed(r) # {}
      metrics == Applications(records, partial \/ conflict) \cup Resources(Rows(run.reports), m, Partial(run.reports))
      step == {x \in metrics : x.metric = "step"}
  IN  [key |-> <<m.cluster, m.run, m.observer>>, model |-> Model(m), cluster |-> m.cluster, mode |-> m.mode,
       origin |-> Origin(records, m), fingerprint |-> m.fingerprint, metrics |-> metrics,
       average |-> IF Cardinality(step) = 1 /\ ~conflict THEN {x.value : x \in step} ELSE {},
       quality |-> IF \/ partial \/ reportsPartial \/ conflict \/ Disputed(m) \/ run.telemetry = "partial"
                      \/ Cardinality(metrics) > MaxMetrics \/ Origin(records, m) \notin {"observed", "synthetic"}
                   THEN "partial" ELSE "complete"]

-----------------------------------------------------------------------------
(* compare *)
Compared == {"model", "cluster", "mode", "origin", "fingerprint"}
Missing(a, b) == {k \in Compared : {a[k], b[k]} \cap {"", "unknown"} # {}}
Mismatched(a, b) == {k \in Compared \ Missing(a, b) : a[k] # b[k]}
Reasons(a, b) ==
  {<<k, "missing">> : k \in Missing(a, b)} \cup {<<k, "mismatch">> : k \in Mismatched(a, b)}
  \cup {<<"coverage">> : s \in {x \in {a, b} : x.quality # "complete"}} \cup {<<"no metrics">> : s \in {x \in {a, b} : x.metrics = {}}}

Same(x, y) == x.metric = y.metric /\ x.scope = y.scope /\ x.entity = y.entity
Extreme == {"max", "min", "p95", "p99"}
SameWork(x, y) ==
  DOMAIN x.shapes = DOMAIN y.shapes /\ \A w \in DOMAIN x.shapes : x.shapes[w] * y.size = y.shapes[w] * x.size
BlocksAnyWork(x, y) ==
  \/ x.unit # y.unit \/ x.statistic # y.statistic \/ x.accuracy # y.accuracy
  \/ x.quality # "complete" \/ y.quality # "complete"
Blocks(x, y) ==
  \/ x.unit # y.unit \/ x.statistic # y.statistic \/ x.accuracy # y.accuracy
  \/ x.quality # "complete" \/ y.quality # "complete"
  \/ x.scope # "application" /\ x.statistic \in Extreme /\ (x.exposure = "" \/ x.exposure # y.exposure)
  \/ x.scope = "application" /\ (~x.observed \/ ~y.observed \/ ~SameWork(x, y))

(* One row for each metric of a, and one for each that only b has: its     *)
(* difference, over the product of the two counts, or why there is none.   *)
Pair(a, b, x) == {y \in b.metrics : Same(x, y) /\ \A z \in b.metrics : Same(x, z) => z.order <= y.order}
Difference(x, y) == <<y.value.total * x.value.count - x.value.total * y.value.count, x.value.count * y.value.count>>
Deltas(a, b) ==
  IF Reasons(a, b) # {} THEN {}
  ELSE UNION {{<<x, y, Difference(x, y)>> : y \in {z \in Pair(a, b, x) : ~Blocks(x, z)}} : x \in a.metrics}
Unpaired(a, b) == {x \in a.metrics : \A y \in Pair(a, b, x) : Blocks(x, y)} \cup {y \in b.metrics : Pair(b, a, y) = {}}
Comparability(a, b) ==
  CASE Mismatched(a, b) # {} -> "Incomparable"
    [] Reasons(a, b) # {} \/ Unpaired(a, b) # {} -> "Partial"
    [] OTHER -> "Verified"

(* catalog: the first runs in the order of their names; a run that cannot  *)
(* be read is named as such, and two of one identity are refused.          *)
Listed(runs, most) == SubSeq(runs, 1, IF Len(runs) < most THEN Len(runs) ELSE most)
Readable(runs) == SelectSeq(runs, LAMBDA r : r.readable /\ r.manifest.run # "")
Keys(runs) == [i \in DOMAIN runs |-> <<runs[i].manifest.cluster, runs[i].manifest.run, runs[i].manifest.observer>>]
Catalog(runs, most) ==
  LET listed == Listed(runs, most)
  IN  IF IsInjective(Keys(Readable(listed)))
      THEN <<[runs |-> Keys(Readable(listed)), truncated |-> Len(runs) > most,
              unavailable |-> Len(SelectSeq(listed, LAMBDA r : ~r.readable))]>>
      ELSE <<>>

-----------------------------------------------------------------------------
(* read_run_state: the saved snapshot of the trainer, over the files of a  *)
(* directory in the order of their names.                                  *)
Identity(sample) == [k \in {"producer", "role", "worker", "run", "node"} |-> sample[k]]
Expected(m) == [producer |-> "verl", role |-> "trainer", worker |-> "driver", run |-> m.run, node |-> m.observer]
Foreign(sample, m) == \E k \in DOMAIN Expected(m) : Expected(m)[k] # "" /\ sample[k] \notin {"", Expected(m)[k]}
Complete(sample) == \A k \in DOMAIN Identity(sample) : sample[k] # ""
Candidates(samples, m) ==
  LET c == {i \in DOMAIN samples : /\ samples[i].readable /\ ~Foreign(samples[i], m) /\ samples[i].at # <<>>
                                   /\ (Complete(samples[i]) \/ samples[i].legacy)}
  IN  IF \E i \in c : Complete(samples[i]) THEN {i \in c : Complete(samples[i])} ELSE c
Newest(samples, c) == CHOOSE i \in c : \A j \in c : \/ samples[j].at[1] < samples[i].at[1]
                                                     \/ (samples[j].at[1] = samples[i].at[1] /\ j <= i)
Snapshot(samples, m, now, most) ==
  LET c == Candidates(samples, m)
      i == Newest(samples, c)
      age == now - samples[i].at[1]
  IN  CASE c = {} -> [health |-> "unavailable", identity |-> "unknown", index |-> 0]
        [] Cardinality({<<samples[j].run, samples[j].node>> : j \in c}) > 1 ->
             [health |-> "unavailable", identity |-> "ambiguous", index |-> 0]
        [] OTHER -> [health |-> IF age < -5 THEN "clock_skew" ELSE IF age <= most THEN "fresh" ELSE "stale",
                     identity |-> IF Complete(samples[i]) THEN "verified" ELSE "legacy_unverified", index |-> i]

(* _recent_events: a heap of the latest events of all files, of which the  *)
(* earliest goes when it holds too many.                                   *)
Earlier(x, y) == x.at < y.at \/ (x.at = y.at /\ x.sequence < y.sequence)
Pushed(heap, x, limit) ==
  LET all == heap \cup {x}
  IN  IF Cardinality(all) <= limit THEN all ELSE all \ {CHOOSE e \in all : \A o \in all \ {e} : Earlier(e, o)}
Recent(events, limit) ==
  IF limit <= 0 THEN {}
  ELSE FoldLeft(LAMBDA heap, i : Pushed(heap, [at |-> events[i], sequence |-> i], limit), {}, [i \in DOMAIN events |-> i])

-----------------------------------------------------------------------------
(* A complete mean, and the average of a run, is over every record of the  *)
(* entity that the file holds, each once, of this run and no other.        *)
SummaryIsOwn(run) ==
  LET s == Summary(run)
      rows == Rows(run.steps)
  IN  /\ \A x \in s.metrics : x.scope = "application" /\ x.quality = "complete" =>
           LET mine == {i \in DOMAIN rows : rows[i].entity = x.entity /\ ~\E j \in 1..(i - 1) : rows[j] = rows[i]}
           IN  /\ run.steps.whole /\ \A i \in DOMAIN rows : rows[i].run = run.manifest.run
               /\ x.value.count = Cardinality(mine)
               /\ x.value.total = MapThenSumSet(LAMBDA i : rows[i].durations[x.metric], mine)
      /\ s.average # {} => \A i, j \in DOMAIN rows :
           IsOwn(rows[i], run.manifest) /\ IsOwn(rows[j], run.manifest) /\ rows[i].id = rows[j].id => rows[i] = rows[j]

(* A difference is between complete values of the same metric of one       *)
(* entity, of runs that did the same work on the same model and data; and  *)
(* a comparison that is Verified leaves no metric of either run out.       *)
DeltaIsComparable(r1, r2) ==
  LET a == Summary(r1)  b == Summary(r2)
  IN  /\ \A d \in Deltas(a, b) :
           /\ a.quality = "complete" /\ b.quality = "complete" /\ a.model = b.model /\ a.model # ""
           /\ d[1].entity = d[2].entity /\ d[1].unit = d[2].unit
           /\ d[1].scope = "application" =>
                \A r \in Range(Rows(r1.steps)) : r.entity = d[1].entity =>
                  \E q \in Range(Rows(r2.steps)) : q.entity = r.entity /\ q.workload = r.workload /\ q.workload # ""
      /\ Comparability(a, b) = "Verified" =>
           \A x \in a.metrics \cup b.metrics : \E d \in Deltas(a, b) : Same(d[1], x) /\ Same(d[2], x)

(* Comparing in the other direction says the same, with the signs changed, *)
(* of runs none of whose signals is twice in a report.                     *)
Unambiguous(s) == \A x, y \in s.metrics : Same(x, y) => x = y
ComparisonIsFair(r1, r2) ==
  LET a == Summary(r1)  b == Summary(r2)
  IN  Unambiguous(a) /\ Unambiguous(b) =>
      /\ Comparability(a, b) = Comparability(b, a)
      /\ Deltas(b, a) = {<<d[2], d[1], <<-d[3][1], d[3][2]>>>> : d \in Deltas(a, b)}

(* A snapshot that is shown is of the run and its observer, is not older   *)
(* than another of them, and does not depend on what else was left in the  *)
(* directory by other runs, or without an identity by older versions.      *)
SnapshotIsOwn(samples, m, now, most) ==
  LET s == Snapshot(samples, m, now, most)
      known == \E i \in Candidates(samples, m) : Complete(samples[i])
      others == SelectSeq(samples, LAMBDA x : ~Foreign(x, m) /\ (Complete(x) \/ ~known))
  IN  /\ s.index # 0 =>
           /\ \A k \in DOMAIN Expected(m) : Expected(m)[k] # "" /\ s.identity = "verified" => samples[s.index][k] = Expected(m)[k]
           /\ \A i \in DOMAIN samples : samples[i].readable /\ samples[i].at # <<>> /\ samples[i].at[1] > samples[s.index].at[1] =>
                Foreign(samples[i], m) \/ ~Complete(samples[i])
           /\ s.health = "fresh" => now - samples[s.index].at[1] <= most
      /\ Snapshot(others, m, now, most).health = s.health /\ Snapshot(others, m, now, most).identity = s.identity

(* Every listed run is in the catalogue, unavailable or no run, once; and  *)
(* the recent events are the latest, the later read first among equals.    *)
CatalogIsWhole(runs, most) ==
  \A c \in Range(Catalog(runs, most)) :
    /\ Cardinality(Range(c.runs)) = Len(c.runs)
    /\ ~c.truncated => \A r \in Range(runs) : r.readable /\ r.manifest.run # "" =>
         <<r.manifest.cluster, r.manifest.run, r.manifest.observer>> \in Range(c.runs)
RecentAreLatest(events, limit) ==
  LET kept == {e.sequence : e \in Recent(events, limit)}
  IN  /\ Cardinality(kept) = (IF Len(events) < limit THEN Len(events) ELSE limit)
      /\ \A i \in kept, j \in DOMAIN events \ kept : events[j] < events[i] \/ (events[j] = events[i] /\ j < i)
=============================================================================
