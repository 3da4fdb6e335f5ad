-------------------------- MODULE EvidencePairing --------------------------
(***************************************************************************)
(* analysis/diagnostics.py, diagnosis_analysis.py, diagnostic_signals.py:  *)
(* which of the entities that a query returned is compared, and with what. *)
(* A maximum over a window may come from one engine, device or disk and    *)
(* the baseline's from another; the two may not be subtracted.             *)
(*                                                                         *)
(* A series is a sequence of observations [id, v] in the order of the      *)
(* answer: id stands for the labels that identify the entity, v for the    *)
(* statistic that is read, <<>> if it is missing.  Nobody is the identity  *)
(* of an observation whose labels do not identify an entity; the other     *)
(* identities are positive and in the order of their labels.  A pairing is *)
(* <<>> or <<[id, now, before]>>, whose before is optional.                *)
(***************************************************************************)
EXTENDS Integers, Sequences, FiniteSets, SequencesExt, FiniteSetsExt

Nobody == 0
Ids(series) == {series[i].id : i \in DOMAIN series}
Of(series, id) == SelectSeq(series, LAMBDA o : o.id = id)
Known(series) == SelectSeq(series, LAMBDA o : o.v # <<>>)
NoTwins(series) == Len(series) = Cardinality(Ids(series))
(* What a bug would do: of twins the first is taken.                       *)
AnyValue(series, id) == IF Of(series, id) # <<>> THEN Of(series, id)[1].v ELSE <<>>
OnlyValue(series, id) == IF Len(Of(series, id)) = 1 THEN Of(series, id)[1].v ELSE <<>>
Pairing(id, now, before) == IF now = <<>> THEN <<>> ELSE <<[id |-> id, now |-> now[1], before |-> before]>>

(* A ratio in hundredths; what exceeds one is a percentage.                *)
AsRatio(v) == IF v # <<>> /\ v[1] > 100 THEN <<v[1] \div 100>> ELSE v
Value(v) == IF v = <<>> THEN 0 ELSE v[1]
Greater(a, b) == a[1] > b[1] \/ (a[1] = b[1] /\ a[2] > b[2])
(* The first of the best, as max and min pick it.                          *)
First(items, Better(_, _)) ==
  items[CHOOSE i \in DOMAIN items :
          /\ \A k \in DOMAIN items : ~Better(items[k], items[i])
          /\ \A k \in 1..(i - 1) : Better(items[i], items[k])]

Score(high, extent) == <<Cardinality({n \in DOMAIN high : high[n]}), extent>>

-----------------------------------------------------------------------------
(* select_vllm_observations: one engine for the three metrics.             *)
EngineMetrics == {"waiting", "kv", "preemptions"}
Reported(series) == {n \in EngineMetrics : series[n] # <<>>}
Engines(series) == UNION {Ids(series[n]) : n \in EngineMetrics}

Eligible(series) ==
  {id \in Engines(series) :
     LET with == {n \in Reported(series) : id \in Ids(series[n])}
     IN  with = Reported(series) \/ Cardinality(with) >= 2}

Coherent(series) ==
  /\ \A n \in EngineMetrics : NoTwins(series[n])
  /\ Eligible(series) # {}
  /\ Cardinality(Engines(series)) > 1 => Nobody \notin Eligible(series)

EngineScore(series, id, limit) ==
  LET of(n) == OnlyValue(series[n], id)
      kv    == Value(AsRatio(of("kv")))
  IN  Score([n \in EngineMetrics |-> (IF n = "kv" THEN kv ELSE Value(of(n))) >= limit[n]], kv)

Engine(series, limit) ==
  CHOOSE id \in Eligible(series) :
    \A other \in Eligible(series) \ {id} :
      \/ Greater(EngineScore(series, id, limit), EngineScore(series, other, limit))
      \/ EngineScore(series, id, limit) = EngineScore(series, other, limit) /\ id < other

PairEngine(now, before, limit) ==
  [n \in EngineMetrics |->
     IF ~Coherent(now) \/ Engine(now, limit) \notin Ids(now[n]) THEN <<>>
     ELSE LET id   == Engine(now, limit)
              of(s) == IF n = "kv" THEN AsRatio(OnlyValue(s[n], id)) ELSE OnlyValue(s[n], id)
          IN  Pairing(id, of(now), of(before))]

-----------------------------------------------------------------------------
(* GPU utilization: the device that fell most, of those that were seen     *)
(* before.  Of two earlier observations of one device the last is kept.    *)
LastOf(series, id) == Last(Of(series, id)).v[1]

PairUtilization(now, before) ==
  LET pairs   == SelectSeq(now, LAMBDA o : o.id # Nobody /\ o.id \in Ids(before))
      fall(o) == LastOf(before, o.id) - o.v[1]
      fallen  == First(pairs, LAMBDA o, p : fall(o) > fall(p))
  IN  IF pairs = <<>> THEN <<>> ELSE Pairing(fallen.id, fallen.v, <<LastOf(before, fallen.id)>>)

(* _gpu_memory_observations: devices that several processes report are     *)
(* left out; memory and evictions must be the same device's.               *)
Devices(series) ==
  SelectSeq(series, LAMBDA o : o.id # Nobody /\ o.v # <<>> /\ Len(Of(Known(series), o.id)) = 1)

MemoryScore(o, evictions, limit) ==
  LET ratio == Value(AsRatio(o.v))
  IN  Score(<<ratio >= limit, Value(OnlyValue(Devices(evictions), o.id)) >= 1>>, ratio)

PairMemory(now, before, limit) ==
  LET memory == Devices(now.memory)
      score(o) == MemoryScore(o, now.evictions, limit)
      fullest == First(memory, LAMBDA o, p : Greater(score(o), score(p)))
      of(series) == OnlyValue(Devices(series), fullest.id)
  IN  IF memory = <<>> THEN [memory |-> <<>>, evictions |-> <<>>]
      ELSE [memory    |-> Pairing(fullest.id, AsRatio(of(now.memory)), AsRatio(of(before.memory))),
            evictions |-> Pairing(fullest.id, of(now.evictions), of(before.evictions))]

(* The profiles' metrics: the extreme entity, compared if it is identified *)
(* (for a device, by its node too) and seen exactly once before.           *)
PairProfile(now, before, least, addressed) ==
  LET extreme == First(Known(now), LAMBDA o, p : IF least THEN o.v[1] < p.v[1] ELSE o.v[1] > p.v[1])
      same    == extreme.id # Nobody /\ extreme.id \in addressed
  IN  IF Known(now) = <<>> THEN <<>>
      ELSE Pairing(extreme.id, extreme.v, IF same THEN OnlyValue(before, extreme.id) ELSE <<>>)

-----------------------------------------------------------------------------
(* _distribution_index: of 3FS's reports [id, metric, entity, count, v]    *)
(* those with samples and without a twin.                                  *)
Index(rows) ==
  LET counted == SelectSeq(rows, LAMBDA r : r.count > 0)
  IN  SelectSeq(counted, LAMBDA r : Len(SelectSeq(counted, LAMBDA o : o.id = r.id)) = 1)

Report(rows, id) == CHOOSE r \in Range(Index(rows)) : r.id = id

(* The latency that grew most; its ratio is compared across products.      *)
PairLatency(now, before) ==
  LET latency(rows) == {r \in Range(Index(rows)) : r.metric = "latency" /\ r.v # <<>>}
      comparable == {r \in latency(now) : \E p \in latency(before) : p.id = r.id /\ p.v[1] > 0}
      worst == CHOOSE r \in comparable : \A o \in comparable :
                 r.v[1] * Report(before, o.id).v[1] >= o.v[1] * Report(before, r.id).v[1]
  IN  IF comparable = {} THEN <<>> ELSE Pairing(worst.id, worst.v, Report(before, worst.id).v)

(* The request size, of the producer whose latency was picked.             *)
PairRequests(now, before) ==
  LET latency == PairLatency(now, before)
      pairs == {r \in Range(Index(now)) :
                  /\ r.metric = "size" /\ r.v # <<>>
                  /\ \E p \in Range(Index(before)) : p.id = r.id /\ p.v # <<>>
                  /\ latency # <<>> => r.entity = Report(now, latency[1].id).entity}
      only  == CHOOSE r \in pairs : TRUE
  IN  IF Cardinality(pairs) # 1 THEN <<>> ELSE Pairing(only.id, only.v, Report(before, only.id).v)

-----------------------------------------------------------------------------
(* tool_span_window: spans [id, run, ok, window, v] of tool calls; the     *)
(* longest that lies wholly in an interval, of one entity if one is asked. *)
Inside(span, interval) ==
  span.window # <<>> /\ interval[1] <= span.window[1] /\ span.window[2] <= interval[2]

ToolSpan(spans, run, interval, ids) ==
  LET own == SelectSeq(spans, LAMBDA s : s.run = run /\ s.ok /\ Inside(s, interval) /\ s.id \in ids)
  IN  IF own = <<>> THEN <<>> ELSE <<First(own, LAMBDA s, o : s.v > o.v)>>

PairTool(spans, run, interval, earlier) ==
  LET now == ToolSpan(spans, run, interval, {spans[i].id : i \in DOMAIN spans})
      before == ToolSpan(spans, run, earlier, {now[1].id})
  IN  IF now = <<>> THEN <<>>
      ELSE Pairing(now[1].id, <<now[1].v>>, IF before = <<>> THEN <<>> ELSE <<before[1].v>>)

-----------------------------------------------------------------------------
(* What is compared was observed of one entity, now and before, and where  *)
(* two observations could have been meant neither is the baseline.         *)
Own(pair, now, before, normal(_)) ==
  pair # <<>> =>
    /\ \E o \in Range(now) : o.id = pair[1].id /\ normal(o.v) = <<pair[1].now>>
    /\ pair[1].before # <<>> =>
         /\ pair[1].id # Nobody /\ Len(Of(before, pair[1].id)) = 1
         /\ normal(Of(before, pair[1].id)[1].v) = pair[1].before

Plain(v) == v

EngineIsOwn(now, before, limit) ==
  LET pairs == PairEngine(now, before, limit)
      given == {n \in EngineMetrics : pairs[n] # <<>>}
  IN  /\ Cardinality({pairs[n][1].id : n \in given}) <= 1
      /\ \A n \in given : \E o \in Range(now[n]) :
           /\ o.id = pairs[n][1].id
           /\ (IF n = "kv" THEN AsRatio(o.v) ELSE o.v) = <<pairs[n][1].now>>
           /\ pairs[n][1].before # <<>> => Len(Of(before[n], o.id)) = 1
      /\ Cardinality(Engines(now)) > 1 => \A n \in given : pairs[n][1].id # Nobody
      /\ (\E n \in EngineMetrics : ~NoTwins(now[n])) => given = {}

UtilizationIsOwn(now, before) ==
  LET pair == PairUtilization(now, before)
  IN  pair # <<>> =>
        /\ pair[1].id # Nobody
        /\ [id |-> pair[1].id, v |-> <<pair[1].now>>] \in Range(now)
        /\ [id |-> pair[1].id, v |-> pair[1].before] \in Range(before)

MemoryIsOwn(now, before, limit) ==
  LET pairs == PairMemory(now, before, limit)
  IN  /\ Own(pairs.memory, Devices(now.memory), Devices(before.memory), AsRatio)
      /\ Own(pairs.evictions, Devices(now.evictions), Devices(before.evictions), Plain)
      /\ pairs.evictions # <<>> => pairs.memory # <<>> /\ pairs.memory[1].id = pairs.evictions[1].id

ReportsAreOwn(now, before) ==
  LET latency == PairLatency(now, before)  requests == PairRequests(now, before)
  IN  /\ Own(latency, Index(now), Index(before), Plain) /\ Own(requests, Index(now), Index(before), Plain)
      /\ latency # <<>> /\ requests # <<>> =>
           Report(now, latency[1].id).entity = Report(now, requests[1].id).entity

ToolIsOwn(spans, run, interval, earlier) ==
  LET pair == PairTool(spans, run, interval, earlier)
  IN  pair # <<>> =>
        \E s \in Range(spans) :
          /\ s.run = run /\ s.v = pair[1].now /\ s.id = pair[1].id /\ Inside(s, interval)
          /\ pair[1].before # <<>> =>
               \E p \in Range(spans) : p.run = run /\ p.id = s.id /\ Inside(p, earlier) /\ <<p.v>> = pair[1].before
=============================================================================
