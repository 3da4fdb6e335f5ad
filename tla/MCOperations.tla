---------------------------- MODULE MCOperations ----------------------------
(***************************************************************************)
(* The cases on which the decisions of the commands and of the producers   *)
(* are checked: layers of settings, observations of a host and its         *)
(* cluster, what runs left, what the samplers of a node read, what the     *)
(* producers of a process write, and what the monitoring server is given.  *)
(***************************************************************************)
EXTENDS Integers, Sequences, FiniteSets, SequencesExt, TLC

Setting == INSTANCE Inventory
Health  == INSTANCE HealthStatus
Runs    == INSTANCE RunCatalogue
Sampler == INSTANCE Collectors
Producer == INSTANCE EventRecords
Stack   == INSTANCE MonitoringStack

Opt(S) == {<<>>} \cup {<<x>> : x \in S}
UpTo(S, n) == UNION {[1..k -> S] : k \in 0..n}

-----------------------------------------------------------------------------
(* Settings: what a file and the environment give of seven settings, and   *)
(* another environment that reads what was resolved.                       *)
FromFile == [HOME |-> <<"f">>, RUN_ID |-> "named", RUN_ROOT |-> <<"f", "r">>, RUNS_ROOT |-> <<"f", "rs">>,
             TOOLS |-> <<"f", "t">>, PORT |-> 1, URL |-> <<"f", 9>>]
FromEnv  == [HOME |-> <<"e">>, RUN_ID |-> "other", RUN_ROOT |-> <<"e", "r">>, RUNS_ROOT |-> <<"e", "rs">>,
             TOOLS |-> <<"e", "t">>, PORT |-> 2, URL |-> <<"e", 8>>]
Layers(f) == {[key \in S |-> f[key]] : S \in SUBSET DOMAIN f}

LayerCase(x) ==
  x \in [kind : {"layers"}, file : Layers(FromFile), env : Layers(FromEnv),
         other : {<<>>, [HOME |-> <<"o">>], [PORT |-> 3], [RUN_ID |-> "auto"], [RUNS_ROOT |-> <<"o", "rs">>, RUN_ID |-> ".."]}]

TargetLists == UpTo({<<"a", "x">>, <<"b", "x">>, <<"a", "y">>}, 2)
Declarations(name) ==
  LET full == [CLUSTER |-> name, TARGETS |-> <<<<"a", "x">>>>, TOPOLOGY |-> name, SOURCES |-> name]
  IN  Layers(full) \cup {[TARGETS |-> t, CLUSTER |-> name] : t \in TargetLists}
InventoryCase(x) ==
  \E l \in Declarations("old"), k \in Layers([CLUSTER |-> "other", SOURCES |-> "other"]), m \in Declarations("new") :
    x = [kind |-> "inventory", c |-> Setting!Resolved(l, <<>>), e |-> Setting!Resolved(k, [NODE |-> "n"]), manifest |-> m]
BudgetCase(x) ==
  \E i, t, u \in {0, 1, 2, 300, 301}, r \in {"auto", "..", "named"} :
    x = [kind |-> "layers", file |-> [INTERVAL |-> i, TIMEOUT |-> t, RUN_ID |-> r], env |-> <<>>, other |-> [TIMEOUT |-> u]]

SettingCase(x) == LayerCase(x) \/ InventoryCase(x) \/ BudgetCase(x)

SettingsAreRight(x) ==
  CASE x.kind = "layers" -> /\ Setting!LayersAreOrdered(x.file, x.env)
                            /\ Setting!MigratedIsSame(x.file, x.env, x.other)
    [] x.kind = "inventory" -> Setting!CheckIsDeclared(x.c, x.e, x.manifest)

-----------------------------------------------------------------------------
(* Health: pid files and what became of their writers; targets of a small  *)
(* cluster, endpoints, sources and files, each varied around a good state. *)
Process(id, started, zombie) == [id |-> id, started |-> started, zombie |-> zombie]
IdentityCase(x) ==
  \E n \in {1, 7}, b \in {<<2>>, <<1>>}, p \in Opt({Process("w", 5, FALSE), Process("w", 5, TRUE), Process("x", 6, FALSE)}) :
    x \in {[kind |-> "pid", boot |-> 2, file |-> <<[pid |-> n, started |-> 5, boot |-> b, writer |-> "w"]>>, process |-> p],
           [kind |-> "pid", boot |-> 2, file |-> <<>>, process |-> p],
           [kind |-> "pid", boot |-> 2, file |-> <<[pid |-> n, started |-> 5, boot |-> <<1>>, writer |-> "w"]>>,
            process |-> <<Process("x", 5, FALSE)>>]}

Ip(v) == [ip |-> TRUE, value |-> v]
Collector(node, health, address) ==
  [job |-> "telemetry", cluster |-> "c", node |-> node, health |-> health, address |-> address]
Source(name, cluster) == [source |-> name, cluster |-> cluster]
Group(name, cluster, node) ==
  [identity |-> Source(name, cluster), route |-> name, node |-> node, nodename |-> ""]
Scraped(name, health, route) == [identity |-> Source(name, "c"), health |-> health, route |-> route]

Good ==
  [kind |-> "status", running |-> {"server", "node"}, logs |-> TRUE, discovery |-> "observed", own |-> "a", address |-> Ip(1),
   endpoints |-> [prometheus |-> "healthy", grafana |-> "healthy", loki |-> "healthy"],
   expected |-> [n \in {"a", "b"} |-> IF n = "a" THEN Ip(1) ELSE Ip(2)],
   targets |-> <<Collector("a", "up", Ip(1)), Collector("b", "up", Ip(2))>>, gpu |-> "recent",
   sources |-> "valid", groups |-> <<Group("v", "", "a")>>, scraped |-> <<Scraped("v", "up", "v")>>,
   topology |-> {}, declared |-> {"a"}, diagnosis |-> [status |-> "validated", cluster |-> "c", nodes |-> {"a"}],
   clock |-> [configured |-> TRUE, quality |-> "aligned", whole |-> TRUE],
   tools |-> {"base"} \cup Health!Server \cup Health!Collecting, device |-> TRUE]

SomeTargets ==
  {Collector(n, h, v) : n \in {"a", "b"}, h \in {"up", "down"}, v \in {Ip(1), Ip(2)}}
  \cup {Collector("a", "up", [ip |-> FALSE, value |-> 1]), Collector("a", "unknown", Ip(1)),
        [Collector("b", "up", Ip(2)) EXCEPT !.job = "native"], [Collector("a", "up", Ip(1)) EXCEPT !.cluster = "d"]}

TargetCase(x) ==
  \E t \in UpTo(SomeTargets, 3), d \in {"observed", "unreachable"}, o \in {"a", "n"} :
    x = [Good EXCEPT !.targets = t, !.discovery = d, !.own = o]
EndpointCase(x) ==
  \E r \in SUBSET {"server", "node"}, g \in BOOLEAN, d \in {"observed", "invalid"},
     e \in [prometheus : {"healthy", "unreachable"}, grafana : {"healthy", "unreachable", "old", "no database"},
     loki : {"healthy", "unreachable"}],
     u \in {"disabled", "unavailable", "ahead", "recent", "old"} :
    x = [Good EXCEPT !.running = r, !.logs = g, !.endpoints = e, !.gpu = u, !.discovery = d]
SourceCase(x) ==
  \E f \in {"valid", "invalid", "not_configured"}, g \in UpTo({Group("v", "", "a"), Group("w", "d", "n"), Group("w", "c", "")}, 2),
     s \in UpTo({Scraped("v", "up", "v"), Scraped("v", "down", "v"), Scraped("v", "up", "w"), Scraped("w", "up", "w"),
     Scraped("w", "unknown", "w"), Scraped("w", "up", "unreadable"),
     [Scraped("w", "up", "w") EXCEPT !.identity.cluster = "d"]}, 2),
     d \in {"observed", "invalid"} :
    x = [Good EXCEPT !.sources = f, !.groups = g, !.scraped = s, !.discovery = d]
ReportCase(x) ==
  \E t \in SUBSET {"error", "warning"}, n \in {{}, {"a", "n"}}, q \in {"not_configured", "invalid", "validated"},
     k \in {"", "c", "d"}, m \in {{"a"}, {"n"}}, c \in [configured : BOOLEAN, quality : {"aligned", "unknown", "unsafe"}, whole : BOOLEAN],
     v \in {Good.targets, <<>>} :
    x = [Good EXCEPT !.topology = t, !.declared = n, !.diagnosis = [status |-> q, cluster |-> k, nodes |-> m], !.clock = c,
                !.targets = v]
DoctorCase(x) ==
  \E t \in SUBSET (Health!Server \cup Health!Collecting), g \in BOOLEAN, e \in {"healthy", "unreachable", "old"},
     u \in {"disabled", "recent"}, v \in BOOLEAN :
    x = [Good EXCEPT !.tools = {"base"} \cup t, !.logs = g, !.endpoints.grafana = e, !.gpu = u, !.device = v]

HealthCase(x) ==
  IdentityCase(x) \/ TargetCase(x) \/ EndpointCase(x) \/ SourceCase(x) \/ ReportCase(x) \/ DoctorCase(x)

HealthIsRight(x) ==
  CASE x.kind = "pid" -> Health!IdentityIsTrue(x)
    [] x.kind = "status" -> /\ Health!HealthIsSeen(x) /\ Health!NodeIsItsOwn(x)
                            /\ Health!AllIsEach(x) /\ Health!ObservedIsNoError(x)

-----------------------------------------------------------------------------
(* Runs: files of up to three records among which some are foreign, twice, *)
(* in conflict or incomplete, and pairs of runs that differ in something.  *)
Manifest ==
  [run |-> "R", cluster |-> "c", observer |-> "n", model |-> "m", configured |-> "", origin |-> "", configuredOrigin |-> "observed",
   mode |-> "sync", fingerprint |-> "f"]
Record(id, entity, durations, workload) ==
  [run |-> "R", id |-> id, schema |-> TRUE, cluster |-> "", origin |-> "", entity |-> entity, accuracy |-> "exact",
   durations |-> durations, workload |-> workload]
File(rows) == [state |-> "read", whole |-> TRUE, rows |-> rows]
None == [state |-> "missing", whole |-> TRUE, rows |-> <<>>]
Run(m, steps, reports) == [manifest |-> m, steps |-> steps, reports |-> reports, telemetry |-> "complete"]

Step(s) == [step |-> s]
StepRecords ==
  LET r == Record("1", "w", Step(4), "l")
  IN  {r, Record("2", "w", Step(8), "l"), Record("2", "w", Step(4), "k"), Record("3", "v", Step(2), "l"),
       Record("3", "w", [step |-> 6, stage |-> 1], "l"), Record("4", "w", <<>>, "l"), Record("5", "incomplete", Step(4), "l"),
       [r EXCEPT !.run = "x"], [r EXCEPT !.id = ""], [r EXCEPT !.cluster = "d"], [r EXCEPT !.accuracy = "unknown"],
       [r EXCEPT !.origin = "synthetic"], [r EXCEPT !.workload = ""], [r EXCEPT !.id = "6", !.accuracy = "rough"]}
SummaryCase(x) ==
  \/ \E s \in UpTo(StepRecords, 3) : x = [kind |-> "summary", run |-> Run(Manifest, File(s), None)]
  \/ \E s \in UpTo(StepRecords, 1), t \in {"read", "changed"}, w \in BOOLEAN :
       x = [kind |-> "summary", run |-> Run(Manifest, [File(s) EXCEPT !.state = t, !.whole = w], None)]

Signal(name, entity, statistic, current, exposure) ==
  [name |-> name, scope |-> "node", entity |-> entity, unit |-> "u", statistic |-> statistic, current |-> current,
   sampling |-> "good", disputed |-> FALSE, exposure |-> exposure]
Signals ==
  LET s == Signal("io", "h", "mean", <<5>>, "1")
  IN  {s, Signal("io", "h", "max", <<7>>, "1"), Signal("io", "h", "max", <<7>>, "2"), Signal("io", "g", "mean", <<7>>, ""),
       Signal("", "h", "mean", <<7>>, "1"), [s EXCEPT !.sampling = "bad"], [s EXCEPT !.disputed = TRUE], [s EXCEPT !.current = <<>>],
       [s EXCEPT !.unit = "t"], [s EXCEPT !.scope = "application"]}
Diagnosis(signals) == [run |-> "R", clock |-> "aligned", signals |-> signals]
SomeReports ==
  {File(<<Diagnosis(s)>>) : s \in UpTo(Signals, 2)}
  \cup {File(<<Diagnosis(<<Signal("io", "h", "mean", <<9>>, "1")>>), [Diagnosis(<<s>>) EXCEPT !.run = r, !.clock = c]>>) :
          s \in Signals, r \in {"R", "x"}, c \in {"aligned", "unknown"}}
SomeSteps == {File(s) : s \in {<<>>, <<Record("1", "w", Step(4), "l")>>, <<Record("1", "w", Step(6), "k")>>,
                               <<Record("1", "w", Step(6), "l"), Record("2", "w", Step(8), "k")>>,
                               <<Record("1", "w", Step(6), "l"), Record("2", "w", Step(8), "l")>>,
                               <<Record("1", "v", Step(6), "l")>>, <<Record("1", "w", Step(6), "")>>}}
Whole == File(<<Record("1", "w", Step(4), "l")>>)
Manifests ==
  {Manifest, [Manifest EXCEPT !.model = "o"], [Manifest EXCEPT !.model = ""], [Manifest EXCEPT !.configured = "o"],
   [Manifest EXCEPT !.cluster = "d"], [Manifest EXCEPT !.mode = "async"], [Manifest EXCEPT !.fingerprint = ""],
   [Manifest EXCEPT !.origin = "synthetic"], [Manifest EXCEPT !.origin = "synthetic", !.configuredOrigin = ""]}
PairedCase(x) ==
  \/ \E m, n \in Manifests, s, t \in SomeSteps :
       x = [kind |-> "pair", a |-> Run(m, s, None), b |-> Run(n, t, None)]
  \/ \E s \in {None, Whole}, q, r \in SomeReports :
       x = [kind |-> "pair", a |-> Run(Manifest, s, q), b |-> Run(Manifest, s, r)]

Sample(run, node, at) ==
  [readable |-> TRUE, legacy |-> FALSE, producer |-> "verl", role |-> "trainer", worker |-> "driver", run |-> run,
   node |-> node, at |-> at]
Samples ==
  {Sample(r, n, <<t>>) : r \in {"R", "x"}, n \in {"n", "o"}, t \in {2, 5}}
  \cup {[Sample("R", "", <<t>>) EXCEPT !.legacy = l] : t \in {2, 5}, l \in BOOLEAN}
  \cup {Sample("R", "n", <<>>), [Sample("R", "n", <<9>>) EXCEPT !.worker = "rollout"],
        [Sample("", "o", <<2>>) EXCEPT !.legacy = TRUE], [Sample("R", "n", <<9>>) EXCEPT !.readable = FALSE]}
SnapshotCase(x) ==
  x \in [kind : {"snapshot"}, samples : UpTo(Samples, 3), now : {-4, 6}, most : {3},
         m : {Manifest, [Manifest EXCEPT !.observer = ""], [Manifest EXCEPT !.run = ""]}]

Saved == [readable : BOOLEAN, manifest : {[run |-> r, cluster |-> "c", observer |-> o] : r \in {"R", "Q", ""}, o \in {"n", "o"}}]
CatalogCase(x) ==
  \/ x \in [kind : {"catalog"}, runs : UpTo(Saved, 3), most : {2, 3}]
  \/ x \in [kind : {"recent"}, events : UpTo(1..3, 5), limit : 0..3]

RunCase(x) == SummaryCase(x) \/ PairedCase(x) \/ SnapshotCase(x) \/ CatalogCase(x)

RunsAreRight(x) ==
  CASE x.kind = "summary" -> Runs!SummaryIsOwn(x.run)
    [] x.kind = "pair" -> Runs!DeltaIsComparable(x.a, x.b) /\ Runs!ComparisonIsFair(x.a, x.b)
    [] x.kind = "snapshot" -> Runs!SnapshotIsOwn(x.samples, x.m, x.now, x.most)
    [] x.kind = "catalog" -> Runs!CatalogIsWhole(x.runs, x.most)
    [] x.kind = "recent" -> Runs!RecentAreLatest(x.events, x.limit)

-----------------------------------------------------------------------------
(* Samplers: rows of two devices and their processes with columns that are *)
(* missing or wrong; histories of three intervals of a cgroup; and spans   *)
(* over two block devices, one of them configured.                         *)
Number(n) == [is |-> "number", n |-> n]
Text(kind) == [is |-> kind, n |-> 0]
Device(index, uuid, power, memory) == [index |-> index, uuid |-> uuid, values |-> [power |-> power, memory |-> memory]]
Devices ==
  {Device(i, u, p, m) : i \in {Number(0), Number(1), Number(-1), Text("junk")}, u \in {"a", "b", ""},
                        p \in {Number(0), Text("absent"), Text("n/a"), Text("junk")}, m \in {Number(9), Text("n/a")}}
Process1(uuid, pid, used, short) == [uuid |-> uuid, pid |-> pid, used |-> used, short |-> short]
Processes ==
  {Process1(u, p, m, FALSE) : u \in {"a", "c"}, p \in {Number(1), Number(2), Text("junk")}, m \in {Number(3), Number(4), Text("n/a")}}
  \cup {Process1("a", Number(1), Text("absent"), TRUE), Process1("a", Number(0), Number(3), FALSE)}
Meminfo == [total |-> Number(8), free |-> Number(2)]
Two == <<Device(Number(0), "a", Number(5), Number(9)), Device(Number(1), "b", Text("n/a"), Number(9))>>

GpuSample(devices, include, most, processes, meminfo, stamp) ==
  [kind |-> "gpu", devices |-> devices, include |-> include, most |-> most, processes |-> processes, meminfo |-> meminfo,
   stamp |-> stamp]
GpuCase(x) ==
  \/ \E d \in UpTo(Devices, 2), t \in Opt({1}) :
       x = GpuSample(<<d>>, TRUE, 2, <<<<Process1("a", Number(1), Number(3), FALSE)>>>>, <<Meminfo>>, t)
  \/ \E d \in {<<>>, <<Two>>, <<<<Two[2], [Two[1] EXCEPT !.uuid = "b"]>>>>}, i \in BOOLEAN, n \in {1, 2},
        p \in {<<>>} \cup {<<s>> : s \in UpTo(Processes, 2) \cup {<<a, b, a>> : a, b \in Processes}} :
       x = GpuSample(d, i, n, p, <<Meminfo>>, <<1>>)
  \/ \E m \in {<<>>} \cup {<<[total |-> a, free |-> b]>> : a, b \in {Number(2), Number(-2), Text("absent"), Text("junk")}},
        d \in {<<>>, <<<<>>>>, <<Two>>} : x = GpuSample(d, FALSE, 1, <<>>, m, <<1>>)

Interval(elapsed, stalled, new, pressure, io) ==
  [elapsed |-> elapsed, stalled |-> stalled, new |-> new, pressure |-> pressure, io |-> io]
SomeIo == {<<>>, <<[x |-> [rbytes |-> 1], y |-> [rbytes |-> 2, wios |-> 1]]>>}
Intervals == {Interval(e[1], e[2], n, p, i) : e \in {<<0, 0>>, <<2, 0>>, <<2, 1>>, <<2, 2>>}, n, p \in BOOLEAN, i \in SomeIo}
CgroupCase(x) == \E t \in UpTo(Intervals, 2) \cup {<<a, b, c>> : a \in {Interval(1, 1, FALSE, TRUE, <<>>)}, b, c \in Intervals} :
                   x = [kind |-> "cgroup", truth |-> t]

SandboxSpan(had, did, restarted, readable) ==
  [had |-> had, did |-> did, restarted |-> restarted, readable |-> readable,
   own |-> TRUE, within |-> TRUE, mapped |-> TRUE, file |-> "read"]
SpanCase(x) ==
  \E h \in [{"x", "y"} -> {<<>>, <<-1>>, <<2>>}], d \in [{"x", "y"} -> {0, 1, 3}], r \in SUBSET {"x", "y"}, b \in BOOLEAN \X BOOLEAN :
    x = [kind |-> "sandbox", spans |-> <<SandboxSpan(h, d, r, b)>>, most |-> 8]
Around(s) == {s, [s EXCEPT !.own = FALSE], [s EXCEPT !.within = FALSE], [s EXCEPT !.mapped = FALSE],
              [s EXCEPT !.file = "skipped"], [s EXCEPT !.file = "beyond"]}
WindowCase(x) ==
  \E a, b \in {SandboxSpan([x |-> h, y |-> <<>>], [x |-> d, y |-> e], r, <<k, TRUE>>) :
                 h \in {<<>>, <<2>>}, d, e \in {0, 1}, r \in {{}, {"x"}}, k \in BOOLEAN}, n \in {1, 8} :
    \E s \in Around(a), t \in Around(b) : x = [kind |-> "sandbox", spans |-> <<s, t>>, most |-> n]

SamplerCase(x) == GpuCase(x) \/ CgroupCase(x) \/ SpanCase(x) \/ WindowCase(x)

SamplersAreRight(x) ==
  CASE x.kind = "gpu" -> Sampler!GpuFileIsTrue(x)
    [] x.kind = "cgroup" -> Sampler!PressureIsOfItsInterval(x.truth)
    [] x.kind = "sandbox" -> Sampler!DeviceEvidenceIsOwn(x.spans, "x", x.most)

-----------------------------------------------------------------------------
(* Producers: names with hyphens, environments, up to three calls of a     *)
(* recorder or an emitter, and records of the VERL logger.                 *)
Names == {<<"a">>, <<"a", "-">>, <<"-", "a">>, <<"a", "-", "a">>}
Producers == [producer : Names, role : Names, worker : Names, node : {<<"n">>}, run : {<<"r">>}]
             \cup [producer : {<<"a">>}, role : {<<"a">>}, worker : {<<"a">>}, node : Names, run : Names]
NameCase(x) == \E p, q \in Producers, n \in {12, 40} : x = [kind |-> "names", p |-> p, q |-> q, most |-> n]

EnvCase(x) ==
  x \in [kind : {"env"}, worker : {<<>>, <<"w">>, <<"?">>},
         env : [run : {"", "r"}, events : {"", "d"}, metrics : {"", "d"}, node : {<<>>, <<"">>, <<"n">>},
                rank : {<<>>, <<0>>, <<Producer!NotANumber>>}, local : {<<>>, <<-1>>, <<0>>, <<1>>},
                visible : {<<"">>, <<"0", "1">>, <<"-1", "0">>, <<"1">>, <<"0", "?">>}, async : {"0", "?"}]]

Call(kind, valid, version, body, write) == [kind |-> kind, valid |-> valid, version |-> version, body |-> body, write |-> write]
Calls == {Call("span", TRUE, v, b, w) : v \in Opt({2}), b, w \in {"ok", "error"}}
         \cup {Call(k, TRUE, v, "ok", w) : k \in {"event", "applied"}, v \in Opt({-1, 2}), w \in {"ok", "error"}}
         \cup {Call(k, FALSE, <<2>>, "ok", "ok") : k \in {"event", "span", "applied"}}
RecorderCase(x) ==
  \E s \in UpTo(Calls, 3), p \in Opt({1}) :
    x = [kind |-> "recorder", policy |-> p,
         ops |-> [i \in DOMAIN s |-> [kind |-> s[i].kind, valid |-> s[i].valid, version |-> s[i].version, body |-> s[i].body,
                                      write |-> IF s[i].write = "ok" THEN "ok" ELSE "fails", id |-> i]]]

Emission(samples, live, mapping) == [samples |-> samples, live |-> live, mapping |-> mapping, stepped |-> TRUE, write |-> "ok", at |-> 0]
Metric(kind, value, labels) == [name |-> "m", kind |-> kind, value |-> value, labels |-> labels]
Emissions ==
  LET good == Metric("gauge", <<-1>>, {"phase"})
  IN  {Emission(s, l, m) : s \in {<<good>>, <<good, Metric("counter", <<1>>, {})>>}, l \in BOOLEAN, m \in {"none", "aligned", "unknown"}}
      \cup {Emission(s, TRUE, "aligned") : s \in {<<>>, <<good, Metric("counter", <<-1>>, {})>>, <<Metric("gauge", <<1>>, {"gpu"})>>,
                                                  <<Metric("gauge", <<>>, {})>>}}
      \cup {[Emission(<<good>>, TRUE, "none") EXCEPT !.write = "fails"], [Emission(<<good>>, TRUE, "none") EXCEPT !.stepped = FALSE]}
EmitterCase(x) == \E s \in UpTo(Emissions, 3) : x = [kind |-> "emitter", calls |-> [i \in DOMAIN s |-> [s[i] EXCEPT !.at = i]]]

(* Two workers, the second one sound, and what the first one may report.   *)
Reports == {Producer!Series(n, k, v, l) : n \in {"reward", "training_step"}, k \in {"gauge", "counter"}, v \in {<<-1>>, <<2>>},
                                          l \in {{}, {<<"worker_id", "1">>}}}
           \cup {Producer!Series("reward", "gauge", v, l) : v \in {<<>>, <<2>>}, l \in {{<<"phase", "gen">>}, {<<"?", "gen">>}}}
OfWorker(w, samples, local, gpu) ==
  [worker |-> w, node |-> "n", local |-> local, gpu |-> gpu, visible |-> <<"0", "1">>, step |-> <<3>>, samples |-> samples,
   replay |-> FALSE, listed |-> TRUE]
PublishCase(x) ==
  \E r \in UpTo(Reports, 2), l \in {<<0>>, <<2>>}, g \in Opt({"1"}), y, z, t, first \in BOOLEAN :
    LET odd   == [OfWorker("0", r, l, g) EXCEPT !.replay = y, !.listed = z, !.step = IF t THEN @ ELSE <<>>]
        sound == OfWorker("1", <<Producer!Series("reward", "gauge", <<5>>, {}), Producer!Series("reward", "gauge", <<6>>, {<<"phase", "gen">>})>>, <<1>>, <<>>)
    IN  x = [kind |-> "publish", snapshots |-> IF first THEN <<odd, sound>> ELSE <<sound, odd>>]

VerlCase(x) ==
  \E keys \in {{"step_time", "timing_step", "timing_ref", "timing_old"}, {"mfu_actor", "version", "version_async", "remaining"},
               {"switch", "reward", "token_ref", "timing_unknown", "step_time"}} :
    \E S \in SUBSET keys : \E d \in [S -> {<<>>, <<-2>>, <<0>>, <<1>>, <<2>>}] : x = [kind |-> "verl", data |-> d]

ProducerCase(x) == NameCase(x) \/ EnvCase(x) \/ RecorderCase(x) \/ EmitterCase(x) \/ PublishCase(x) \/ VerlCase(x)

ProducersAreRight(x) ==
  CASE x.kind = "names" -> Producer!FilesAreOwn(x.p, x.q, x.most)
    [] x.kind = "env" -> Producer!ProducersAgree(x.env, [producer |-> "verl", role |-> "trainer", worker |-> x.worker])
    [] x.kind = "recorder" -> Producer!RecordingIsApart(x.ops, x.policy)
    [] x.kind = "emitter" -> Producer!SnapshotIsOneCall(x.calls)
    [] x.kind = "publish" -> Producer!PublicationIsSound(x.snapshots)
    [] x.kind = "verl" -> Producer!TranslationIsOwn(x.data)

-----------------------------------------------------------------------------
(* The monitoring server: target files, attempts at an endpoint, what the  *)
(* endpoints answer, evaluations of the alert rules, manifests, and the    *)
(* packages and answers of the Grafana App.                                *)
Listing(groups) == [is |-> "list", groups |-> groups]
TargetGroup(targets, labelled) == [targets |-> targets, labelled |-> labelled]
SomeFile == {[is |-> "missing", groups |-> <<>>], [is |-> "broken", groups |-> <<>>], Listing(<<>>),
             Listing(<<TargetGroup(<<"a">>, TRUE)>>), Listing(<<TargetGroup(<<"a", "">>, TRUE)>>),
             Listing(<<TargetGroup(<<"a">>, TRUE), TargetGroup(<<"b">>, FALSE)>>), Listing(<<TargetGroup(<<"a", "b">>, TRUE), TargetGroup(<<>>, TRUE)>>)}
FilesCase(x) == x \in [kind : {"files"}, files : [{"applications", "gpus", "nodes", "native"} -> SomeFile]]
WaitCase(x) == x \in [kind : {"wait"}, attempts : UpTo([takes : 0..2, answered : BOOLEAN], 4), timeout : 1..3]
ValidateCase(x) ==
  x \in [kind : {"validate"}, prometheus : BOOLEAN, targets : {<<>>, <<<<>>>>, <<<<"up">>>>, <<<<"up", "down">>>>},
         query : {"success", "error", "unreadable"}, grafana : BOOLEAN, health : Opt([version : BOOLEAN, database : BOOLEAN]),
         loki : Opt([ready : BOOLEAN, query : {"success", "error"}]), requireUp : BOOLEAN]

Seen(up, age, enabled) == [up |-> up, age |-> age, enabled |-> enabled, space |-> <<<<5, 10>>>>]
Instances == {Seen(<<1>>, a, e) : a \in Opt({30, 61}), e \in Opt({0, 1})} \cup {Seen(<<0>>, <<>>, <<>>), Seen(<<>>, <<>>, <<>>)}
AlertCase(x) ==
  \/ \E h \in UpTo(Instances, 4) : x = [kind |-> "alerts", history |-> [k \in DOMAIN h |-> [i \in {"a", "b"} |->
                                          IF i = "a" THEN h[k] ELSE Seen(<<1>>, <<30>>, <<1>>)]], percent |-> 10]
  \/ \E k \in 0..12, s \in {<<>>, <<<<5, 10>>>>, <<<<1, 10>>>>}, n \in 10..12, p \in {10, 11} :
       x = [kind |-> "alerts", percent |-> p, history |-> [j \in 1..n |-> [i \in {"a"} |->
              [Seen(<<1>>, <<30>>, <<1>>) EXCEPT !.space = IF j = k THEN s ELSE <<<<1, 10>>>>]]]]
ManifestCase(x) ==
  x \in [kind : {"manifest"}, run : {"r", "", "?"}, env : {<<>>, [ray |-> "e"], [rl_insight |-> "e", ray |-> "e"]},
         sources : UpTo({<<"ray", "u">>, <<"ray", "v">>, <<"loki", "u">>, <<"", "u">>, <<"ray", "">>}, 2),
         roles : UpTo({<<"t", "a">>, <<"t", "b">>, <<"r", "a">>, <<"?", "a">>}, 3)]

Dependency(is, min, max) == [is |-> is, min |-> min, max |-> max]
Archive(members, dependency) ==
  [digest |-> TRUE, large |-> FALSE, zip |-> TRUE, app |-> TRUE, version |-> TRUE, content |-> <<"c", "e">>, members |-> members, dependency |-> dependency]
Signed == Archive(<<"module.js", "logo", "manifest">>, Dependency("exact", 0, <<>>))
Unsigned == Archive(<<"module.js", "logo">>, Dependency("range", 5, <<>>))
Archives ==
  {Signed, Unsigned, [Signed EXCEPT !.digest = FALSE], [Signed EXCEPT !.large = TRUE], [Signed EXCEPT !.zip = FALSE],
   [Signed EXCEPT !.app = FALSE], [Signed EXCEPT !.version = FALSE]}
  \cup {[Signed EXCEPT !.members = m] : m \in {<<"module.js", "logo", "manifest", "manifest">>, <<"module.js", "manifest">>,
                                               <<"module.js", "logo", "manifest", "unsafe">>}}
  \cup {[Signed EXCEPT !.dependency = Dependency("range", a, b)] : a \in {5, 7, 8}, b \in {<<>>, <<6>>, <<7>>, <<9>>}}
  \cup {[Signed EXCEPT !.dependency = Dependency("other", 0, <<>>)]}

App(archive, allow, health, binary, target, loaded, datasources, boards, served, react) ==
  [kind |-> "app", archive |-> archive, allow |-> allow, health |-> health, binary |-> binary, target |-> target, loaded |-> loaded,
   datasources |-> datasources, boards |-> boards, served |-> served, react |-> react]
Loaded(enabled, signature) == [enabled |-> enabled, signature |-> signature]
AppCase(x) ==
  \/ \E a \in Archives, w \in BOOLEAN, h \in {<<>>, <<6>>, <<7>>, <<8>>}, b \in Opt({6, 7}), s \in {"valid", "unsigned"}, t \in {<<>>, <<"c", "e">>} :
       x = App(a, w, h, b, t, <<Loaded(TRUE, s)>>, <<{"prometheus"}>>, <<<<{"prometheus"}>>>>, <<"c">>, <<"off">>)
  \/ \E a \in {Signed, Unsigned}, h \in {<<>>, <<5>>, <<7>>}, t \in {<<"c", "e">>, <<"d", "e">>, <<"c", "f">>, <<"unreadable">>}, v \in {<<"c">>, <<"d">>},
        l \in {<<>>} \cup {<<Loaded(e, s)>> : e \in BOOLEAN, s \in {"valid", "unsigned"}}, d \in {<<>>, <<{"prometheus"}>>, <<{"loki"}>>},
        o \in {<<{"prometheus"}>>, <<{"loki", "prometheus"}>>, <<>>}, r \in {<<>>, <<"off">>, <<"on">>, <<"junk">>} :
       x = App(a, TRUE, h, <<>>, t, l, d, <<<<{"prometheus"}>>, o>>, v, r)
PackageCase(x) ==
  x \in [kind : {"package"}, package : Opt([checksum : BOOLEAN]), build : BOOLEAN, gh : {"answers", "none"}, run : {<<>>, <<1>>, <<2>>}, main : {<<>>, <<2>>},
         artifacts : {<<>>, <<"expired">>, <<"expired", "good">>}, archives : 0..2, checksum : BOOLEAN, checkout : BOOLEAN,
         commands : {{TRUE}, {TRUE, FALSE}}]

StackCase(x) == AppCase(x) \/ PackageCase(x) \/ FilesCase(x) \/ WaitCase(x) \/ ValidateCase(x) \/ AlertCase(x) \/ ManifestCase(x)

StackIsRight(x) ==
  CASE x.kind = "files" -> Stack!CountIsWhole(x.files)
    [] x.kind = "wait" -> Stack!ReadyInTime(x.attempts, x.timeout)
    [] x.kind = "validate" -> Stack!VerdictHasReason(x)
    [] x.kind = "alerts" -> Stack!AlertsAreFounded(x.history, x.percent)
    [] x.kind = "app" -> Stack!AppStatusIsFounded(x)
    [] x.kind = "package" -> Stack!PackageIsCurrent(x)
    [] x.kind = "manifest" -> Stack!ManifestIsDeclared(x)
=============================================================================
