---------------------------- MODULE MCDecisions ----------------------------
(***************************************************************************)
(* The inputs on which the pure decisions of the analysis are checked: for *)
(* each kind of decision the cases, and what is right of each of them.  A  *)
(* behaviour is one decision on one case, and then it stops.               *)
(***************************************************************************)
EXTENDS Integers, Sequences, FiniteSets

VARIABLES
  decision,   \* the kind of the decision
  input       \* its case, or <<>> before one is chosen

Clocks == INSTANCE ClockQuality
Pairs  == INSTANCE EvidencePairing
Report == INSTANCE DiagnosisVerdict
Peers  == INSTANCE BaselineSelection
Samples == INSTANCE SamplingQuality
Stored == INSTANCE StorageSeries
Replica == INSTANCE RolloutState
Trace == INSTANCE ExecutionGraph
Behavior == INSTANCE BehaviorSignature
Packet == INSTANCE LlmPacket WITH MaxRows <- 3
Plan   == INSTANCE Inventory
Operations == INSTANCE MCOperations

Opt(S) == {<<>>} \cup {<<x>> : x \in S}
UpTo(S, n) == UNION {[1..k -> S] : k \in 0..n}

-----------------------------------------------------------------------------
(* Clocks: the evidence of a node and the limits it is held to, the        *)
(* statuses of three nodes, and records that carry one another's mappings. *)
Evidence ==
  {[offset |-> o, age |-> a, sync |-> s, ntp |-> n, error |-> e,
    samples |-> q[1], partial |-> q[2], source |-> q[3]] :
     o \in {<<>>, <<0, 0>>, <<-1, 1>>, <<0, 3>>, <<-3, -3>>}, a \in Opt({-1, 1, 2, 4}),
     s \in Opt({0, 1}), n \in {<<>>, <<0, 1>>, <<-3, 0>>}, e \in Opt({-1, 1, 3}),
     q \in {<<2, FALSE, "own">>, <<1, FALSE, "own">>, <<2, TRUE, "own">>,
            <<2, FALSE, "not reported">>, <<2, FALSE, "two series">>}}

Limits == [skew : {2}, age : {2}, sync : BOOLEAN, uncertainty : {1, 2}, window : {1, 3}]

NodeCase(x) == x \in [kind : {"node"}, e : Evidence, c : Limits]

IntervalCase(x) ==
  \E s \in [{"p", "m", "s"} -> {"aligned", "unknown", "unsafe"}], m \in {{}, {"m"}},
     c \in SUBSET {"p", "s"}, v \in {"absent", "aligned", "unknown", "unsafe"}, n \in {"p", "s"},
     r \in BOOLEAN :
    x = [kind |-> "interval", status |-> s, producer |-> "p", monitoring |-> m, clocked |-> c,
         mapping |-> v, mappedNode |-> n, reference |-> r]

Offset == [n \in {"p", "s"} |-> [s \in {"s1", "s2"} |-> (IF n = "p" THEN 1 ELSE 5) + (IF s = "s1" THEN 0 ELSE 2)]]
Raw == {<<1, 1>>, <<2, 2>>, <<1, 21>>}

Recorded ==
  {LET a == [status |-> "aligned", node |-> n, reference |-> "R", session |-> s, offset |-> Offset[n][s],
             uncertainty |-> 0, exchange |-> x, from |-> 0, until |-> 30, anchor |-> 0, drift |-> d, raw |-> w]
   IN  [a EXCEPT !.uncertainty = IF u THEN Clocks!Expected(a) ELSE x] :
     n \in {"p", "s"}, s \in {"s1", "s2"}, x \in 0..1, d \in 0..1, w \in Raw, u \in BOOLEAN}

WindowCase(x) ==
  \E n \in {"p", "s"}, w \in Raw, b \in BOOLEAN, m \in Opt(Recorded),
     f \in {"none", "R", "other"}, s \in {"none", "s1", "s2"} :
    x = [kind |-> "window", r |-> [node |-> n, raw |-> w, broken |-> b, mapping |-> m],
         reference |-> f, session |-> s]

ClockCase(x) == NodeCase(x) \/ IntervalCase(x) \/ WindowCase(x)

ClockIsRight(x) ==
  CASE x.kind = "node" -> Clocks!LostEvidenceNeverAligns(x.e, x.c) /\ Clocks!LooserLimitsKeep(x.e, x.c)
    [] x.kind = "interval" -> Clocks!MappingCertifiesNoOther(x)
    [] x.kind = "window" -> Clocks!WindowIsTheRecords(x.r, x.reference, x.session, 2, Offset)

-----------------------------------------------------------------------------
(* Pairs: answers of up to two series for up to two entities, now and      *)
(* before, with twins, gaps and observations that identify nobody.         *)
Series(ids, Value(_)) == [i \in DOMAIN ids |-> [id |-> ids[i], v |-> Value(ids[i])]]
Observations(ids, values) == UpTo([id : ids, v : values], 2)

EngineCase(x) ==
  \E ids \in [{"waiting", "kv", "preemptions"} -> {<<>>, <<0>>, <<1>>, <<2>>, <<0, 1>>, <<2, 1>>, <<1, 1>>}],
     hot \in {0, 1, 2}, b \in {<<>>, <<0>>, <<1, 2>>, <<2, 2>>} :
    x = [kind |-> "engine",
         now |-> [n \in {"waiting", "kv", "preemptions"} |->
                    Series(ids[n], LAMBDA id : <<IF id # hot THEN 0 ELSE IF n = "kv" THEN 9500 ELSE 3>>)],
         before |-> [n \in {"waiting", "kv", "preemptions"} |-> Series(b, LAMBDA id : <<id>>)]]

UtilizationCase(x) ==
  x \in [kind : {"utilization"}, now : Observations({0, 1, 2}, {<<10>>, <<90>>}),
         before : Observations({0, 1, 2}, {<<50>>, <<90>>})]

MemoryCase(x) ==
  x \in [kind : {"memory"},
         now : [memory : Observations({1, 2}, {<<>>, <<50>>, <<9500>>}) \cup Observations({0}, {<<50>>}),
                evictions : Observations({1, 2}, {<<0>>, <<2>>})],
         before : [memory : {Series(b, LAMBDA id : <<40>>) : b \in {<<>>, <<1>>, <<1, 2>>, <<2, 2>>}},
                   evictions : {Series(b, LAMBDA id : <<0>>) : b \in {<<1>>, <<1, 2>>, <<2, 2>>}}]]

ProfileCase(x) ==
  x \in [kind : {"profile"}, now : Observations({0, 1, 2}, {<<>>, <<1>>, <<3>>}),
         before : Observations({0, 1, 2}, {<<>>, <<1>>}), least : BOOLEAN, addressed : {{1}, {1, 2}}]

Row(id, value) == [id |-> id, metric |-> IF id <= 2 THEN "latency" ELSE "size",
                   entity |-> IF id % 2 = 1 THEN "a" ELSE "b", count |-> 5, v |-> value]
Rows(state) ==
  LET rows(id) == CASE state[id] = "absent" -> <<>>
                    [] state[id] = "low" -> <<Row(id, <<2>>)>>
                    [] state[id] = "high" -> <<Row(id, <<6>>)>>
                    [] state[id] = "twins" -> <<Row(id, <<6>>), Row(id, <<2>>)>>
  IN  rows(1) \o rows(2) \o rows(3) \o rows(4)

StorageCase(x) ==
  \E n \in [1..4 -> {"absent", "low", "high", "twins"}], b \in [1..4 -> {"absent", "low", "twins"}] :
    x = [kind |-> "reports", now |-> Rows(n), before |-> Rows(b)]

Span(id, run, ok, window, v) == [id |-> id, run |-> run, ok |-> ok, window |-> window, v |-> v]
ToolCase(x) ==
  \E s \in UpTo({Span(id, "r", TRUE, w, v) : id \in 1..2, w \in {<<1, 2>>, <<4, 6>>, <<7, 8>>}, v \in 1..2}
                \cup {Span(1, "x", TRUE, <<1, 2>>, 2), Span(1, "r", FALSE, <<7, 8>>, 2), Span(1, "r", TRUE, <<>>, 2)}, 3) :
    x = [kind |-> "tool", spans |-> s]

PairCase(x) ==
  EngineCase(x) \/ UtilizationCase(x) \/ MemoryCase(x) \/ ProfileCase(x) \/ StorageCase(x) \/ ToolCase(x)

PairIsRight(x) ==
  CASE x.kind = "engine" -> Pairs!EngineIsOwn(x.now, x.before, [waiting |-> 2, kv |-> 90, preemptions |-> 1])
    [] x.kind = "utilization" -> Pairs!UtilizationIsOwn(x.now, x.before)
    [] x.kind = "memory" -> Pairs!MemoryIsOwn(x.now, x.before, 90)
    [] x.kind = "profile" -> Pairs!Own(Pairs!PairProfile(x.now, x.before, x.least, x.addressed), x.now, x.before, Pairs!Plain)
    [] x.kind = "reports" -> Pairs!ReportsAreOwn(x.now, x.before)
    [] x.kind = "tool" -> Pairs!ToolIsOwn(x.spans, "r", <<5, 9>>, <<0, 4>>)

-----------------------------------------------------------------------------
(* Reports: every assignment of the signals of one rule, with at most one  *)
(* thing wrong otherwise, which may be the source of one of the signals.   *)
Level(n, b) == [now |-> n, before |-> b, stale |-> {}, doubted |-> {}]
Good ==
  [kind |-> "report", step |-> TRUE, clock |-> "aligned", baseline |-> "aligned", configured |-> TRUE,
   sessions |-> TRUE, nodes |-> TRUE, matched |-> TRUE, series |-> FALSE, robust |-> "off",
   serving |-> "active", comparable |-> TRUE, clocked |-> {"now", "before"}, dfs |-> "same",
   signals |-> [s \in Report!Signals |-> Level(<<>>, <<>>)]]

Levels == {Level(<<>>, <<1>>), Level(<<2>>, <<1>>), Level(<<0>>, <<1>>), Level(<<2>>, <<>>)}

Assigned(signals) ==
  {[Good EXCEPT !.signals = [s \in Report!Signals |-> IF s \in signals THEN v[s] ELSE @[s]]] :
     v \in [signals -> Levels]}

Otherwise(x) ==
  IF \E s \in Report!Signals : x.signals[s] = Level(<<>>, <<1>>) THEN {x} ELSE
  {x, [x EXCEPT !.step = FALSE], [x EXCEPT !.clock = "unsafe"], [x EXCEPT !.clock = "unchecked"],
   [x EXCEPT !.baseline = "unknown"], [x EXCEPT !.sessions = FALSE], [x EXCEPT !.nodes = FALSE],
   [x EXCEPT !.matched = FALSE], [x EXCEPT !.series = TRUE], [x EXCEPT !.comparable = FALSE],
   [x EXCEPT !.robust = "within"], [x EXCEPT !.serving = "inactive"], [x EXCEPT !.serving = "transition"],
   [x EXCEPT !.serving = "changed"], [x EXCEPT !.clocked = {"now"}], [x EXCEPT !.clocked = {"before"}],
   [x EXCEPT !.dfs = "other"], [x EXCEPT !.dfs = "anonymous"]}
  \cup UNION {{[x EXCEPT !.signals[s].stale = {r}], [x EXCEPT !.signals[s].doubted = {r}]} :
               r \in {"now", "before"}, s \in {t \in Report!Signals \ (Report!Durations \cup Report!Storage) :
                                               x.signals[t].now # <<>>}}

ReportCase(x) ==
  \E y \in (UNION {Assigned(DOMAIN Report!RuleBook[r].checks) : r \in DOMAIN Report!RuleBook})
           \cup Assigned({"ray_pending", "policy_lag", "disk_busy"}) :
    x \in Otherwise(y)

ReportIsRight(x) == Report!StrongIsEarned(x) /\ Report!DoubtNeverStrengthens(x) /\ Report!VerdictHasGrounds(x)

-----------------------------------------------------------------------------
(* Peers: histories of up to two steps that may differ from the analysed   *)
(* one in anything, and of six among which the oldest must be left out.    *)
Step(id, from, to, seconds, stages) ==
  [id |-> id, who |-> "w", load |-> [version |-> <<1>>, tokens |-> <<10>>], seconds |-> seconds,
   from |-> from, to |-> to, usable |-> TRUE, reference |-> "r", stages |-> stages]

Policy(match, tolerance, robust) ==
  [match |-> match, tolerance |-> tolerance, robust |-> robust, size |-> 5, least |-> 5, z |-> 3, floor |-> 5]

Peer == LET plain == Step(1, 2, 4, <<2>>, <<1>>)
        IN  {plain, [plain EXCEPT !.who = "x"], [plain EXCEPT !.load.version = <<2>>],
             [plain EXCEPT !.load.tokens = <<11>>], [plain EXCEPT !.load.tokens = <<12>>],
             [plain EXCEPT !.load.version = <<>>], [plain EXCEPT !.seconds = <<>>], [plain EXCEPT !.stages = <<>>],
             [plain EXCEPT !.usable = FALSE], [plain EXCEPT !.to = 30], [plain EXCEPT !.to = 21],
             [plain EXCEPT !.from = 5, !.to = 7], [plain EXCEPT !.from = 3, !.to = 6, !.seconds = <<6>>],
             [plain EXCEPT !.reference = "q"]}

LongHistories ==
  {[i \in 1..6 |-> CASE kind[i] = "plain" -> Step(i, 2 * i, 2 * i + 2, <<4>>, <<2>>)
                     [] kind[i] = "slow" -> Step(i, 2 * i, 2 * i + 2, <<6>>, <<4>>)
                     [] kind[i] = "wide" -> Step(i, 2 * i - 1, 2 * i + 2, <<4>>, <<>>)] :
     kind \in [1..6 -> {"plain", "slow", "wide"}]}

PeerCase(x) ==
  \/ x \in [kind : {"peers"}, step : {Step(9, 20, 24, <<4>>, <<2>>), [Step(9, 20, 24, <<4>>, <<2>>) EXCEPT !.usable = FALSE]},
         history : UpTo(Peer, 2), policy : {Policy(m, 10, r) : m \in SUBSET {"version", "tokens"}, r \in BOOLEAN}]
  \/ x \in [kind : {"peers"}, step : {Step(9, 20, 24, <<t>>, <<t>>) : t \in {2, 4, 9}}, history : LongHistories,
         policy : {Policy({}, 0, FALSE), Policy({"tokens"}, 0, TRUE)}]

Item == [engine : BOOLEAN, cluster : {"c", "d"}, node : {"n", "m"}, instance : Opt({"i", "j"})]
RelationCase(x) ==
  \E s \in {{}} \cup {{a, b} : a, b \in Item}, run \in {"r", "x"}, i \in {{}, {"i"}, {"i", "j"}},
     p \in SUBSET {[node |-> "n", instance |-> "i"], [node |-> "m", instance |-> "j"]} :
    x = [kind |-> "relation", items |-> s, run |-> run,
         c |-> [run |-> "r", cluster |-> "c", node |-> "n", instances |-> i, replicas |-> p]]

PeersAreRight(x) ==
  CASE x.kind = "peers" -> /\ Peers!SettingsOK(x.policy)
                           /\ Peers!CohortIsOwn(x.step, x.history, x.policy)
                           /\ Peers!ReplayAddsNothing(x.step, x.history, x.policy, 2)
                           /\ Peers!OnlySlowerIsSlow(x.step, x.history, x.policy, 2)
    [] x.kind = "relation" -> Peers!RelationIsDeclared(x.items, x.c, x.run)

-----------------------------------------------------------------------------
(* Samples: the samples of two entities around an interval, counters that  *)
(* are reset and seen in part, three metrics of a failing backend, and     *)
(* reports of the storage service under a budget.                          *)
SourceRows == [entity : {"e", "o"}, extra : {1}, stamps : {{3}, {5}, {5, 7}, {3, 7}, {7, 12}}]
              \cup [entity : {"e"}, extra : {2}, stamps : {{5, 7}, {5}}]

AssessCase(x) ==
  \E q \in {[range |-> <<2>>, selectors |-> 1, plain |-> TRUE], [range |-> <<9>>, selectors |-> 1, plain |-> TRUE],
            [range |-> <<>>, selectors |-> 1, plain |-> TRUE], [range |-> <<2>>, selectors |-> 2, plain |-> TRUE],
            [range |-> <<2>>, selectors |-> 1, plain |-> FALSE]},
     s \in {2}, k \in {TRUE}, r \in {{}} \cup {{f, g} : f, g \in SourceRows}, e \in {"e", "unlabeled"},
     n \in Opt({0, 1, 3}), b \in BOOLEAN, v \in {<<4>>}, d \in Opt({"observed", "error"}) :
    x = [kind |-> "assess",
         a |-> [q |-> q, w |-> <<4, 10>>, step |-> s, checked |-> k, rows |-> r, entity |-> e, evaluations |-> n,
                annotated |-> b, value |-> v, declared |-> d]]

CounterCase(x) ==
  \E h \in [1..4 -> {-1, 0, 2}], s \in {<<1, 2, 3, 4>>, <<1, 3, 4>>, <<2, 4>>, <<1, 3, 2>>, <<1, 1, 4>>}, l \in SUBSET {1, 2, 3} :
    x = [kind |-> "counter", history |-> h, seen |-> s, lost |-> l]

(* Answers at once, after a silence or dripping, the client waiting for 2. *)
Took(takes, quiet, outcomes, sources) ==
  [takes : {takes}, quiet : {quiet}, outcome : outcomes, source : sources]
Asked == Took(1, 1, Samples!Outcomes, {<<>>}) \cup Took(3, 3, Samples!Outcomes, {<<>>})
         \cup Took(3, 1, Samples!Outcomes, {<<>>})
         \cup Took(1, 1, {"data"}, {<<q>> : q \in Took(1, 1, {"transport", "rejected"}, {<<>>})})
BudgetCase(x) ==
  \E a, b, c \in Asked, n \in {2, 4, 20}, k \in BOOLEAN :
    x = [kind |-> "budget", limit |-> [seconds |-> n, timeout |-> 2, clamped |-> k],
         metrics |-> <<[name |-> 1, now |-> a, before |-> b], [name |-> 2, now |-> c, before |-> a],
                       [name |-> 3, now |-> b, before |-> c]>>]

StoredRow(host, at, count, value) ==
  [metric |-> "m", host |-> host, at |-> at, count |-> count, value |-> value, reset |-> TRUE]
StoredRows == {StoredRow(<<"h">>, 1, 1, <<3>>), StoredRow(<<"h">>, 2, 1, <<5>>), StoredRow(<<"h">>, 1, 2, <<4>>),
               StoredRow(<<"g">>, 1, 1, <<3>>), StoredRow(<<>>, 1, 1, <<3>>), StoredRow(<<"h">>, 1, 1, <<>>)}
Windows == {<<>>, <<[start |-> 0, end |-> 4]>>, <<[start |-> 5, end |-> 9]>>, <<[start |-> 5, end |-> 6]>>,
            <<[start |-> 4, end |-> 10]>>}
Questions(answers) == [wanted : {TRUE}, answer : answers]

Plain == [kind |-> "stored", max |-> 8, clock |-> "aligned", clockBefore |-> "aligned",
          clocks |-> [h \in {"h", "g"} |-> "aligned"],
          window |-> <<[start |-> 0, end |-> 4]>>, before |-> <<[start |-> 6, end |-> 10]>>,
          current |-> [distributions |-> [wanted |-> FALSE], counters |-> [wanted |-> FALSE]],
          baseline |-> [distributions |-> [wanted |-> FALSE], counters |-> [wanted |-> FALSE]]]
Both(x, t, a, b) == [x EXCEPT !.current[t] = [wanted |-> TRUE, answer |-> a], !.baseline[t] = [wanted |-> TRUE, answer |-> b]]
StoredCase(x) ==
  LET answers == {<<>>} \cup {<<s>> : s \in UpTo(StoredRows, 2)}
      some    == {<<<<StoredRow(<<"h">>, 1, 1, <<3>>)>>>>, <<<<StoredRow(<<"h">>, 2, 1, <<7>>)>>>>,
                  <<<<StoredRow(<<"h">>, 1, 1, <<3>>), StoredRow(<<"g">>, 1, 1, <<3>>)>>>>}
  IN  \/ \E t \in {"distributions", "counters"}, a, b \in answers : x = Both(Plain, t, a, b)
      \/ \E t \in {"distributions", "counters"}, a, b \in some, w, v \in Windows :
           x = [Both(Plain, t, a, b) EXCEPT !.window = w, !.before = v]
      \/ \E t \in {"distributions", "counters"}, a, b \in some, c, d \in {"aligned", "unknown"},
            k \in {[h \in {"h", "g"} |-> "aligned"], [h \in {"h"} |-> "aligned"],
                   [h \in {"h", "g"} |-> IF h = "g" THEN "unsafe" ELSE "aligned"]} :
           x = [Both(Plain, t, a, b) EXCEPT !.clock = c, !.clockBefore = d, !.clocks = k]
      \/ \E a, b \in some, m \in 1..8 :
           x = [Both(Both(Plain, "distributions", a, b), "counters", b, a) EXCEPT !.max = m]

SampleCase(x) == AssessCase(x) \/ CounterCase(x) \/ BudgetCase(x) \/ StoredCase(x)

SamplesAreRight(x) ==
  CASE x.kind = "assess" -> Samples!UndoubtedIsSampled(x.a) /\ Samples!NothingIsBorrowed(x.a)
    [] x.kind = "counter" -> Samples!GrowthIsReal(x.history, x.seen, x.lost)
    [] x.kind = "budget" -> Samples!EveryMetricIsAccounted(x.metrics, x.limit)
    [] x.kind = "stored" -> Stored!BudgetIsShared(x) /\ Stored!DeltaIsFair(x)

-----------------------------------------------------------------------------
(* Replicas: lives of a replica whose every change is observed, and a few  *)
(* times besides, read out of order, in part or not at all; and the rows   *)
(* that its engines return.                                                *)
Lives == [0..6 -> {"serving", "sleeping"}]
Policies == {[t \in 0..6 |-> IF t < c THEN 1 ELSE IF t < d THEN 2 ELSE 1] : c \in {3, 5, 7}, d \in {4, 7}}

Events(life, applied, beats) ==
  LET times(f) == {0} \cup beats \cup {t \in 1..6 : f[t] # f[t-1]}
      list(S)  == SelectSeq(<<6, 5, 4, 3, 2, 1, 0>>, LAMBDA t : t \in S)
      at(S, Of(_)) == [i \in DOMAIN list(S) |-> Of(list(S)[i])]
  IN  at(times(life), LAMBDA t : Replica!Observed("state", <<t>>, life[t], <<"g">>))
      \o at(times(applied), LAMBDA t : Replica!Observed("policy", <<t>>, applied[t], <<"g">>))
      \o at(beats, LAMBDA t : Replica!Poll(<<t>>, <<TRUE>>, t # 5))

LifeCase(x) ==
  \E lost \in {"none", "file", "time"}, age \in {1, 3}, life \in Lives, applied \in Policies, beats \in {{}, {2, 4}, {1, 2, 3, 4, 5, 6}} :
    x = [kind |-> "life", files |-> IF lost = "file" THEN "incomplete" ELSE "complete", age |-> age, life |-> life,
         applied |-> applied,
         events |-> IF lost = "time" THEN Append(Events(life, applied, beats), Replica!Observed("state", <<>>, "sleeping", <<>>))
                    ELSE Events(life, applied, beats)]

EngineRows == [engine : {"e", "f"}, operation : {1, 2}, v : {<<>>, <<4>>}, issues : {{}, {"stale"}}]
MetricCase(x) ==
  \/ x \in [kind : {"metric"}, now : {{r, s} : r, s \in EngineRows}, before : {{}} \cup {{r, s} : r, s \in EngineRows},
         same : BOOLEAN, clock : {TRUE}, clockBefore : {TRUE}]
  \/ x \in [kind : {"metric"}, now : {{r} : r \in EngineRows}, before : {{r} : r \in EngineRows},
              same : {TRUE}, clock : BOOLEAN, clockBefore : BOOLEAN]

ReplicaCase(x) == LifeCase(x) \/ MetricCase(x)

ReplicaIsRight(x) ==
  CASE x.kind = "life" -> /\ Replica!StateIsTrue(x.files, x.events, x.life, <<4, 6>>, x.age)
                          /\ Replica!ComparisonIsTrue(x.files, x.events, x.life, x.applied, <<4, 6>>, <<1, 3>>, x.age)
    [] x.kind = "metric" -> Replica!DeltaIsOwn(x)

-----------------------------------------------------------------------------
(* Traces: a trajectory of which r waited for p and q, with the true times *)
(* of the three, measured with errors of up to one, on one node or two, of *)
(* up to three when the clocks are not known to agree until the end; and   *)
(* the same records out of order, twice, of another run or without ids.    *)
Measured(id, true, node, mode, err) ==
  [id |-> id, run |-> "R", node |-> node, accuracy |-> IF mode = "calibrated" THEN "calibrated" ELSE "exact",
   start |-> true[1] + (IF mode = "calibrated" THEN err ELSE 0), end |-> true[2] + (IF mode = "calibrated" THEN err ELSE 0),
   raw |-> IF node = "n" THEN true ELSE <<true[1] + 3, true[2] + 3>>, duration |-> true[2] - true[1],
   sampling |-> IF mode = "sampled" THEN <<[start |-> true[1] + err, end |-> true[2] + err, us |-> 1, ue |-> 1]>> ELSE <<>>,
   u |-> IF mode = "calibrated" THEN 1 ELSE 0, session |-> "s", links |-> IF id = "r" THEN {"p", "q"} ELSE {},
   parent |-> IF id = "w" THEN <<>> ELSE <<"w">>, contract |-> id = "w", completion |-> id = "r", named |-> TRUE]

Trajectory(truth, node, mode, err) ==
  <<Measured("w", truth["w"], "n", mode, 0), Measured("p", truth["p"], node["p"], mode, err["p"]),
    Measured("q", truth["q"], node["q"], mode, err["q"]), Measured("r", truth["r"], node["r"], mode, err["r"])>>

Truth(p, q, r) == [id \in {"w", "p", "q", "r"} |->
  CASE id = "w" -> <<0, 12>> [] id = "p" -> <<2, p>> [] id = "q" -> <<2, q>> [] id = "r" -> <<r, 9>>]

Known(nodes, window) == [nodes |-> nodes, window |-> window]
TraceCase(x) ==
  \/ \E t \in {Truth(p, q, r) : p \in {3, 4}, q \in {4, 6, 7}, r \in {5, 7, 8}}, m \in {"calibrated"},
        n \in [{"p", "q", "r"} -> {"n", "m"}], c \in {<<{"n"}, 12, 1>>, <<{"n", "m"}, 12, 1>>, <<{"n", "m"}, 11, 3>>} :
       \E e \in [{"p", "q", "r"} -> {-c[3], 0, c[3]}] :
         x = [kind |-> "trace", records |-> Trajectory(t, n, m, e), clocks |-> Known(c[1], <<0, c[2]>>), truth |-> t]
  \/ \E t \in {Truth(p, q, r) : p \in {3, 4}, q \in 3..7, r \in 4..9}, m \in {"exact", "sampled"},
        e \in [{"p", "q", "r"} -> -1..1] :
       x = [kind |-> "trace", records |-> Trajectory(t, [i \in {"p", "q", "r"} |-> "n"], m, e), clocks |-> Known({}, <<0, 12>>), truth |-> t]

WrittenCase(x) ==
  LET all == Trajectory(Truth(3, 4, 7), [i \in {"p", "q", "r"} |-> "n"], "exact", [i \in {"p", "q", "r"} |-> 0])
      records == {all[i] : i \in 1..4} \cup {[all[2] EXCEPT !.run = "other"], [all[4] EXCEPT !.links = {"p"}],
                                             [all[3] EXCEPT !.links = {"r"}], [all[2] EXCEPT !.parent = <<"q">>],
                                             [all[3] EXCEPT !.named = FALSE], [all[4] EXCEPT !.links = {"p", ""}]}
  IN  x \in [kind : {"written"}, records : {<<w>> \o s : w \in {all[1]}, s \in UpTo(records, 3) \cup {<<all[2], all[3], y, z>> : y, z \in records}}]

Path(run, context, workload, sequence, path) ==
  [run |-> run, context |-> context, workload |-> workload, sequence |-> sequence, path |-> path]
ReferenceCase(x) ==
  LET context == [worker |-> "w"]
      current == Path("R", context, "l", 5, TRUE)
      others  == {Path("R", context, "l", n, TRUE) : n \in {1, 4, 5}}
                 \cup {Path("x", context, "l", 2, TRUE), Path("R", [worker |-> "v"], "l", 2, TRUE),
                       Path("R", context, "k", 2, TRUE), Path("R", context, "l", 2, FALSE)}
  IN  x \in [kind : {"references"}, current : {current, [current EXCEPT !.workload = ""]}, references : UpTo(others, 3), limit : {2, 31}]

TracesAreRight(x) ==
  CASE x.kind = "trace" -> Trace!PathIsTrue(Trace!Graph(x.records, "R", 4096, 8192), "w", x.clocks, x.truth)
    [] x.kind = "written" -> Trace!PathIsOwn(x.records, "R", "w", Known({"n"}, <<0, 12>>))
    [] x.kind = "references" -> Trace!ReferencesAreEarlier(x.current, x.references, x.limit)

-----------------------------------------------------------------------------
(* Behaviors: the events of a step with foreign, repeated, invalid and     *)
(* cyclic ones, and summaries compared with such as do not fit.            *)
Context == [run |-> "R", worker |-> "w"]
Boundary(step, context, sequence, workload) ==
  [context |-> context, step |-> step, sequence |-> sequence, scope |-> "rl_step", workload |-> workload, precise |-> TRUE]
Event(id, parent, entity, seconds) ==
  [context |-> Context, step |-> 1, scope |-> "rl_step", name |-> "n", span |-> TRUE, trace |-> "t", id |-> id,
   parent |-> parent, entity |-> entity, seconds |-> seconds, precise |-> TRUE, valid |-> TRUE]

EventSet == LET e == Event(1, <<>>, "x", <<4>>)
            IN  {e, Event(1, <<2>>, "x", <<4>>), Event(2, <<1>>, "x", <<2>>), Event(2, <<3>>, "y", <<2>>), Event(3, <<1>>, "y", <<>>),
                 Event(3, <<3>>, "y", <<2>>), [e EXCEPT !.valid = FALSE], [e EXCEPT !.step = 2],
                 [e EXCEPT !.scope = "rollout"], [e EXCEPT !.span = FALSE], [Event(2, <<1>>, "x", <<2>>) EXCEPT !.trace = "u"]}

CountCase(x) == x \in [kind : {"count"}, records : UpTo(EventSet, 3), maxRecords : {2, 4}, maxGroups : {1, 4}]

Summary(b, records) ==
  Behavior!Signature(b, [i \in DOMAIN records |-> [records[i] EXCEPT !.step = b.step, !.context = b.context]], 3, 4)
Own == Boundary(1, Context, 5, "l")
Currents == {Summary(Own, <<Event(1, <<>>, "x", <<s>>)>>) : s \in {4, 9}}
            \cup {Summary(Own, <<[Event(1, <<>>, "x", <<9>>) EXCEPT !.precise = FALSE]>>),
                  Summary(Own, <<Event(1, <<>>, "x", <<9>>), Event(2, <<>>, "y", <<9>>)>>),
                  Summary([Own EXCEPT !.precise = FALSE], <<Event(1, <<>>, "x", <<9>>)>>),
                  Summary(Own, [i \in 1..4 |-> Event(i, <<>>, "x", <<9>>)])}
Others == {Summary(b, <<Event(1, <<>>, "x", <<4>>)>>) :
             b \in {Boundary(1, Context, 4, "l"), Boundary(0, Context, 3, "l"), Boundary(1, Context, 6, "l"),
                    Boundary(1, Context, 4, "k"), Boundary(1, [Context EXCEPT !.worker = "v"], 4, "l"),
                    Boundary(1, [run |-> "Q", worker |-> "v"], 4, "l")}}
          \cup {Summary(Boundary(0, Context, 2, "l"), [i \in 1..4 |-> Event(i, <<>>, "x", <<2>>)]),
                Summary(Boundary(0, Context, 1, "l"), <<[Event(1, <<>>, "x", <<4>>) EXCEPT !.precise = FALSE]>>)}
Readings == [entity : {"x", "y"}, level : {"hot", "cool"}, status : {"observed"}, unit : {"ratio"}]
            \cup {[entity |-> "x", level |-> "hot", status |-> "stale", unit |-> "ratio"],
                  [entity |-> "x", level |-> "hot", status |-> "observed", unit |-> "percent"]}
CandidateCase(x) ==
  x \in [kind : {"candidate"}, current : Currents, all : UpTo(Others, 2), observations : {{}} \cup {{o, p} : o, p \in Readings},
         peer : BOOLEAN]

BehaviorCase(x) == CountCase(x) \/ CandidateCase(x)

BehaviorIsRight(x) ==
  CASE x.kind = "count" -> Behavior!RecordsAreCounted(Own, x.records, x.maxRecords, x.maxGroups)
    [] x.kind = "candidate" -> Behavior!CandidateIsGrounded(x.current, x.all, x.observations, x.peer, 3)

-----------------------------------------------------------------------------
(* Packets: the answers to two queries in two windows, each of which may   *)
(* fail; and the windows that a configuration names.                       *)
QueryAnswers == {[failed |-> TRUE, series |-> <<>>]} \cup
                [failed : {FALSE}, series : UNION {[S -> {5, 7}] : S \in SUBSET {1, 2}}]
PacketCase(x) ==
  \/ x \in [kind : {"packet"}, now : [{"kv", "io"} -> QueryAnswers], before : {<<>>} \cup [{"kv", "io"} -> QueryAnswers]]
  \/ x \in [kind : {"windows"}, current : Opt({<<4, 6>>}), named : BOOLEAN, baseline : Opt({<<1, 3>>}), span : 1..4, clock : 10..12]

PacketIsRight(x) ==
  CASE x.kind = "packet" -> Packet!PacketIsMeasured(x.now, x.before)
    [] x.kind = "windows" -> Packet!WindowsAreApart(x, x.clock)

-----------------------------------------------------------------------------
(* Topologies: inventories of up to two nodes with what may be wrong with  *)
(* them, topology files that somebody wrote, and reports of many issues.   *)
Node(name, roles, gpus, devices, collector) ==
  [name |-> name, address |-> name, roles |-> roles, collector |-> collector,
   parts |-> [gpu |-> gpus, interface |-> <<>>, device |-> devices]]
Document(nodes, services, components, edges) ==
  [cluster |-> "c", monitoring |-> "a", nodes |-> nodes, services |-> services, components |-> components, edges |-> edges]

Nodes == {Node(n, r, g, v, c) : n \in {"a", "b"}, r \in {<<"trainer">>, <<"storage">>, <<"mds", "trainer">>, <<"ds">>},
                                g \in {<<>>, <<"0">>, <<"0", "0">>}, v \in {<<>>, <<"0">>}, c \in BOOLEAN}
Service(name, node, endpoint, labels) == [name |-> name, node |-> node, endpoint |-> endpoint, labels |-> labels]
Services == {Service("v", "a", 1, <<>>), Service("v", "b", 2, <<>>), Service("w", "b", 1, <<>>), Service("w", "b", 2, [node |-> "b"]),
             Service("w", "a", 2, [nodename |-> "b"]), Service("u", "b", 3, [cluster |-> "c"]), Service("u", "b", 3, [job |-> "x"])}
Listed == {[kind |-> k, item |-> [id |-> i, role |-> r, owner |-> o, parts |-> v, system |-> y]] :
             k \in {"compute", "storage"}, i \in {<<"s">>, <<"a", "gpu", "0">>}, r \in {"fabric", "gpu"}, o \in {"", "a", "b"},
             v \in {{}, {[field |-> "gpu", name |-> "0"]}}, y \in {""}}
Linked == {[kind |-> k, edge |-> <<<<"a">>, <<"s">>, "uses">>] : k \in {"compute", "storage"}}
PlanCase(x) ==
  \/ x \in [kind : {"plan"}, d : {Document(n, <<>>, <<>>, <<>>) : n \in UpTo(Nodes, 1) \cup {<<y, z>> : y, z \in Nodes}}]
  \/ \E c \in BOOLEAN, e \in UpTo(Linked, 1),
        l \in UpTo(Listed, 1) \cup {<<y, z>> : y, z \in {q \in Listed : q.item.id = <<"s">>}} :
       x = [kind |-> "plan", d |-> Document(<<Node("a", <<"trainer">>, <<"0">>, <<>>, TRUE),
                                              Node("b", <<"ds">>, <<>>, <<"0">>, c)>>, <<>>, l, e)]
  \/ \E c \in BOOLEAN, s \in UpTo(Services, 3) :
       x = [kind |-> "plan", d |-> Document(<<Node("a", <<"trainer">>, <<>>, <<>>, TRUE),
                                              Node("b", <<"ds">>, <<>>, <<>>, c)>>, s, <<>>, <<>>)]

InFile == {[id |-> i, role |-> r, owner |-> o, parts |-> {}, system |-> ""] :
             i \in {<<"a">>, <<"b">>}, r \in {"gpu", "own", ""}, o \in {"", "a", "?"}}
          \cup {[id |-> i, role |-> "?", owner |-> "", parts |-> {}, system |-> ""] : i \in {<<>>, <<"a">>}}
FileCase(x) ==
  x \in [kind : {"topology file"}, p : [components : UpTo(InFile, 2), edges : {<<>>}]
     \cup [components : {<<y, z, w>> : y, z, w \in {c \in InFile : c.id = <<"a">>}}, edges : {<<>>}]
     \cup [components : UpTo({c \in InFile : c.role = "gpu"}, 1),
           edges : UpTo({<<<<"a">>, <<"b">>, "r">>, <<<<"a">>, <<"a">>, "?">>, <<<<>>, <<"a">>, "r">>, <<<<"a">>, <<"a">>, "r">>}, 2)]]
IssueCase(x) ==
  x \in [kind : {"issues"}, most : 1..3, files : {<<f, g>> : f, g \in UpTo({"edge_endpoint_unknown", "duplicate_edge"}, 4)}]

TopologyIsRight(x) ==
  CASE x.kind = "plan" -> Plan!CompiledIsClean(x.d, [components |-> 4, edges |-> 2])
    [] x.kind = "topology file" -> Plan!PublishedIsDeclared(x.p)
    [] x.kind = "issues" -> Plan!ErrorsAreKept(x.files, x.most)

-----------------------------------------------------------------------------
DecisionsInit ==
  /\ decision \in {"clocks", "pairs", "report", "peers", "samples", "replicas", "traces", "behavior", "packets", "topologies",
                  "settings", "health", "runs", "samplers", "producers", "stack"}
  /\ input = <<>>

DecisionsNext ==
  /\ input = <<>> /\ decision' = decision
  /\ \/ (decision = "clocks" /\ ClockCase(input'))
     \/ (decision = "pairs" /\ PairCase(input'))
     \/ (decision = "report" /\ ReportCase(input'))
     \/ (decision = "peers" /\ (PeerCase(input') \/ RelationCase(input')))
     \/ (decision = "samples" /\ SampleCase(input'))
     \/ (decision = "replicas" /\ ReplicaCase(input'))
     \/ (decision = "traces" /\ (TraceCase(input') \/ WrittenCase(input') \/ ReferenceCase(input')))
     \/ (decision = "behavior" /\ BehaviorCase(input'))
     \/ (decision = "packets" /\ PacketCase(input'))
     \/ (decision = "topologies" /\ (PlanCase(input') \/ FileCase(input') \/ IssueCase(input')))
     \/ (decision = "settings" /\ Operations!SettingCase(input'))
     \/ (decision = "health" /\ Operations!HealthCase(input'))
     \/ (decision = "runs" /\ Operations!RunCase(input'))
     \/ (decision = "samplers" /\ Operations!SamplerCase(input'))
     \/ (decision = "producers" /\ Operations!ProducerCase(input'))
     \/ (decision = "stack" /\ Operations!StackCase(input'))

DecisionsSpec == DecisionsInit /\ [][DecisionsNext]_<<decision, input>>

(* The decisions, each right on every case.                                *)
Right(p, IsRight(_)) == (decision = p /\ input # <<>>) => IsRight(input)

(* Clocks are called aligned, and times are moved between nodes, only on   *)
(* evidence that says so, and the path that explains a trajectory is the   *)
(* one that its true times give.                                           *)
TimesAreTrue == Right("clocks", ClockIsRight) /\ Right("traces", TracesAreRight)

(* A reading is set against the reading of the same engine, device, host,  *)
(* replica or run, or against none, a resource belongs to the node that    *)
(* declared it, and a record to the producer that wrote it.                *)
EvidenceIsOwn ==
  /\ Right("pairs", PairIsRight) /\ Right("replicas", ReplicaIsRight)
  /\ Right("packets", PacketIsRight) /\ Right("topologies", TopologyIsRight)
  /\ Right("producers", Operations!ProducersAreRight)

(* A strong finding has earned it, and doubt never makes one stronger.     *)
VerdictIsCautious == Right("report", ReportIsRight)

(* What counts as slower is slower than comparable earlier steps, and a    *)
(* candidate cause was seen in what the step did.                          *)
BaselinesAreFair == Right("peers", PeersAreRight) /\ Right("behavior", BehaviorIsRight)

(* A value that is reported without doubt was sampled in its window, what  *)
(* a budget left unread is accounted for, and what a sampler could not     *)
(* read is neither a zero nor a fresh sample.                              *)
SamplingIsKnown == Right("samples", SamplesAreRight) /\ Right("samplers", Operations!SamplersAreRight)

(* What the commands say of a host, of its settings and of its cluster is  *)
(* what was given and what was seen, and no more.                          *)
OperationsAreTrue == 
  /\ Right("settings", Operations!SettingsAreRight) /\ Right("health", Operations!HealthIsRight)
  /\ Right("runs", Operations!RunsAreRight) /\ Right("stack", Operations!StackIsRight)
=============================================================================
