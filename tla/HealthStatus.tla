---------------------------- MODULE HealthStatus ----------------------------
(***************************************************************************)
(* operations/health.py, the matching of subsystems.py and the report of   *)
(* operations/cluster.py: what `xltel status`, `doctor` and `cluster       *)
(* validate` conclude from the processes of this host, the endpoints of    *)
(* the services, one answer of Prometheus about its targets, and files.    *)
(* An observation is a record                                              *)
(*   running    the roles of this host whose launcher runs                 *)
(*   endpoints  of prometheus, grafana and loki, see Endpoint              *)
(*   discovery  "observed", or why there is no answer                      *)
(*   targets    the collectors in the answer, in its order                 *)
(*   own        NODE_NAME;  expected  the addresses of effective_targets   *)
(*   gpu        "disabled", or <<>> or <<age>> of its newest sample        *)
(*   groups, scraped  the registered sources and their targets             *)
(*   sources    "valid", "invalid" or "not_configured"                     *)
(***************************************************************************)
EXTENDS Integers, Sequences, FiniteSets, SequencesExt

(* process_identity: a pid file of two or three fields, the process that   *)
(* has its pid now (<<>> when none has) and this boot.                     *)
Identity(file, process, boot) ==
  IF /\ file # <<>> /\ file[1].pid > 1 /\ file[1].boot \in {<<>>, <<boot>>}
     /\ process # <<>> /\ ~process[1].zombie /\ process[1].started = file[1].started
  THEN "running" ELSE "stopped"

Endpoint(s, name) ==
  CASE name = "loki" /\ ~s.logs -> "disabled"
    [] s.endpoints[name] = "unreachable" -> "unreachable"
    [] name = "grafana" /\ s.endpoints[name] \in {"old", "no database"} -> "degraded"
    [] OTHER -> "healthy"
Ready == {"healthy", "disabled"}

(* parse_target_response: what cannot be read is no list of targets.       *)
Targets(s) == IF s.discovery = "observed" THEN s.targets ELSE <<>>
Collectors(s, node) ==
  SelectSeq(Targets(s), LAMBDA t : t.job = "telemetry" /\ t.cluster = "c" /\ t.node = node)
AllUp(rows) == rows # <<>> /\ \A t \in Range(rows) : t.health = "up"

(* _target_configuration: an address is [ip, value].                       *)
Configuration(address, rows) ==
  CASE rows = <<>> -> "unknown"
    [] Len(rows) > 1 -> "ambiguous"
    [] OTHER -> LET actual == rows[1].address
                IN  IF actual = address THEN "matched"
                    ELSE IF actual.ip /\ address.ip THEN "mismatch" ELSE "unknown"

Collector(s, node) ==
  LET rows == Collectors(s, node)
  IN  [health |-> IF AllUp(rows) THEN "up" ELSE IF rows # <<>> THEN "down"
                  ELSE IF s.discovery # "observed" THEN "unavailable" ELSE "not_discovered",
       configuration |-> Configuration(s.expected[node], rows)]
CollectorsOK(s) == \A n \in DOMAIN s.expected : Collector(s, n) = [health |-> "up", configuration |-> "matched"]

OwnAddress(s) == IF s.own \in DOMAIN s.expected THEN s.expected[s.own] ELSE s.address
NodeHealth(s) ==
  LET rows == Collectors(s, s.own)
  IN  IF AllUp(rows) THEN "healthy" ELSE IF rows # <<>> THEN "degraded" ELSE "unknown"
ServerHealthy(s) == \A name \in {"prometheus", "grafana", "loki"} : Endpoint(s, name) \in Ready

Gpu(s) ==
  CASE s.gpu = "disabled" -> "disabled"
    [] s.gpu = "unavailable" -> "unavailable"
    [] s.gpu = "ahead" -> "clock_skew"
    [] s.gpu = "recent" -> "fresh"
    [] OTHER -> "stale"

(* _source_configuration and summarize_sources: a group is the identity of *)
(* a source and its route; the server overrides the label of the cluster.  *)
Identified(g) == [g.identity EXCEPT !.cluster = "c"]
Matches(s, g) == SelectSeq(s.scraped, LAMBDA t : s.discovery = "observed" /\ t.identity = Identified(g))
Route(g, rows) ==
  CASE rows = <<>> -> "unknown"
    [] Len(rows) > 1 -> "ambiguous"
    [] rows[1].route = "unreadable" -> "unknown"
    [] rows[1].route = g.route -> "matched"
    [] OTHER -> "mismatch"
Scrape(s, rows) ==
  CASE s.discovery # "observed" -> "unavailable"
    [] rows = <<>> -> "not_discovered"
    [] AllUp(rows) -> "up"
    [] \E t \in Range(rows) : t.health = "down" -> "down"
    [] OTHER -> "unknown"
SourceStatus(s, g) ==
  LET rows == Matches(s, g)
  IN  IF rows # <<>> /\ Route(g, rows) # "matched" THEN "configuration_" \o Route(g, rows) ELSE Scrape(s, rows)

SourcesOK(s) ==
  CASE s.sources = "not_configured" -> TRUE
    [] s.sources = "invalid" -> FALSE
    [] OTHER -> s.discovery = "observed" /\ \A g \in Range(s.groups) : SourceStatus(s, g) = "up"

-----------------------------------------------------------------------------
(* status *)
Selected(role) == IF role = "all" THEN {"server", "node"} ELSE {role}
Owned(s, role) == Selected(role) \subseteq s.running
NodeDelivers(s) ==
  /\ NodeHealth(s) = "healthy" /\ Configuration(OwnAddress(s), Collectors(s, s.own)) = "matched"
  /\ Endpoint(s, "loki") \in Ready
Sampled(s) == Gpu(s) \in {"fresh", "disabled"}

Healthy(s, role) ==
  /\ Owned(s, role)
  /\ CASE role = "server" -> ServerHealthy(s) /\ CollectorsOK(s) /\ SourcesOK(s)
       [] role = "node"   -> NodeDelivers(s) /\ Sampled(s)
       [] role = "all"    -> /\ ServerHealthy(s) /\ NodeHealth(s) = "healthy"
                             /\ CollectorsOK(s) /\ SourcesOK(s) /\ Sampled(s)
Reachable(s) ==
  NodeHealth(s) = "healthy" \/ \E name \in {"prometheus", "grafana"} : Endpoint(s, name) = "healthy"
Status(s, role) ==
  IF Healthy(s, role) THEN "healthy" ELSE IF Owned(s, role) \/ Reachable(s) THEN "degraded" ELSE "stopped"

-----------------------------------------------------------------------------
(* configuration_report: the issues of the files of a configuration c, and *)
(* with `live` those of what is observed.                                  *)
SourceIssues(c, g) ==
  (IF g.node # "" /\ g.nodename # "" /\ g.node # g.nodename THEN {"error"} ELSE {})
  \cup LET node == IF g.node # "" THEN g.node ELSE g.nodename
       IN  (IF node = "" \/ node \notin DOMAIN c.expected THEN {"warning"} ELSE {})
  \cup (IF g.identity.cluster \notin {"", "c"} THEN {"warning"} ELSE {})

DiagnosisIssues(c) ==
  CASE c.diagnosis.status = "not_configured" -> {}
    [] c.diagnosis.status = "invalid" -> {"error"}
    [] OTHER -> (IF c.diagnosis.cluster \notin {"", "c"} THEN {"error"} ELSE {})
                \cup (IF c.diagnosis.nodes \subseteq DOMAIN c.expected THEN {} ELSE {"warning"})

FileIssues(c) ==
  c.topology \cup DiagnosisIssues(c)
  \cup (IF c.declared \subseteq DOMAIN c.expected THEN {} ELSE {"warning"})
  \cup (IF c.sources = "invalid" THEN {"error"}
        ELSE IF c.sources = "valid" THEN UNION {SourceIssues(c, g) : g \in Range(c.groups)} ELSE {})

LiveIssues(s) ==
  IF \/ s.discovery # "observed" \/ \E n \in DOMAIN s.expected : Collector(s, n).health # "up"
     \/ \E n \in DOMAIN s.expected : Collector(s, n).configuration = "mismatch"
     \/ s.sources = "valid" /\ \E g \in Range(s.groups) : SourceStatus(s, g) # "up"
  THEN {"warning"} ELSE {}

(* correlation_preflight passes on aligned clocks and a whole inventory.   *)
Preflight(clock) ==
  CASE ~clock.configured -> "not_configured"
    [] clock.quality = "unsafe" -> "blocked"
    [] clock.quality = "aligned" /\ clock.whole -> "pass"
    [] OTHER -> "needs_attention"

Issues(s, live, correlation) ==
  FileIssues(s) \cup (IF live THEN LiveIssues(s) ELSE {})
  \cup (IF correlation /\ Preflight(s.clock) # "pass" THEN {"warning"} ELSE {})
Conclusion(issues) == IF "error" \in issues THEN "invalid" ELSE IF issues # {} THEN "needs_attention" ELSE "valid"
Validated(s, live, correlation) == Conclusion(Issues(s, live, correlation))

(* doctor: the tools, files and devices that a role needs.                 *)
Server == {"Prometheus", "Grafana", "Loki"}
Collecting == {"Node Exporter", "Alloy"}
Needed(s, role) ==
  ({"base"} \cup (IF role = "node" THEN {} ELSE Server) \cup (IF role = "server" THEN {} ELSE Collecting))
  \ (IF s.logs THEN {} ELSE {"Loki", "Alloy"})
Doctor(s, role, correlation) ==
  IF /\ Needed(s, role) \subseteq s.tools
     /\ role = "node" \/ s.endpoints.grafana # "old"
     /\ role = "server" \/ s.gpu = "disabled" \/ s.device
     /\ Validated(s, FALSE, correlation) = "valid"
     /\ correlation => Preflight(s.clock) = "pass"
  THEN "ready" ELSE "incomplete"

-----------------------------------------------------------------------------
(* A launcher counts as running only as long as the process that wrote the *)
(* pid file lives, however its pid is used since, in this boot or before.  *)
IdentityIsTrue(x) ==
  Identity(x.file, x.process, x.boot) = "running" =>
    /\ x.process # <<>> /\ x.process[1].id = x.file[1].writer
    /\ ~x.process[1].zombie

(* A healthy server has seen each registered collector once, up, at the    *)
(* address that is configured, and a healthy source is the one registered; *)
(* of an answer that did not come nothing is called down.                  *)
HealthIsSeen(s) ==
  /\ \A role \in {"server", "all"} : Status(s, role) = "healthy" =>
       \A n \in DOMAIN s.expected :
         \E i \in DOMAIN s.targets :
           /\ s.targets[i].health = "up" /\ s.targets[i].address = s.expected[n]
           /\ {j \in DOMAIN s.targets : s.targets[j].node = n /\ s.targets[j].job = "telemetry"
                                        /\ s.targets[j].cluster = "c"} = {i}
  /\ \A g \in Range(s.groups) : SourceStatus(s, g) = "up" =>
       Cardinality({i \in DOMAIN s.scraped : s.scraped[i].identity = Identified(g)}) = 1
  /\ s.discovery # "observed" =>
       /\ \A n \in DOMAIN s.expected : Collector(s, n).health # "down"
       /\ s.sources = "valid" => \A g \in Range(s.groups) : SourceStatus(s, g) = "unavailable"
       /\ \A role \in {"server", "all"} : Status(s, role) # "healthy"

(* Whether a node is healthy depends on nothing but what the node runs and *)
(* delivers: not on the user interface, the sources or other nodes.        *)
NodeIsItsOwn(s) ==
  Healthy(s, "node") =
    Healthy([s EXCEPT !.endpoints.grafana = "unreachable", !.sources = "invalid", !.running = @ \cap {"node"},
                      !.targets = SelectSeq(@, LAMBDA t : t.node = s.own)], "node")

(* A host that is healthy or ready in all its roles is so in each of them. *)
AllIsEach(s) ==
  /\ Healthy(s, "all") /\ s.own \in DOMAIN s.expected => Healthy(s, "server") /\ Healthy(s, "node")
  /\ \A correlation \in BOOLEAN :
       Doctor(s, "all", correlation) = "ready" <=> \A role \in {"server", "node"} : Doctor(s, role, correlation) = "ready"

(* What is observed, or not observed, never makes a configuration invalid, *)
(* and never makes one valid that is not.                                  *)
ObservedIsNoError(s) ==
  \A live, correlation \in BOOLEAN :
    /\ Validated(s, live, correlation) = "invalid" <=> Validated(s, FALSE, FALSE) = "invalid"
    /\ Validated(s, live, correlation) = "valid" => Validated(s, FALSE, FALSE) = "valid"
=============================================================================
