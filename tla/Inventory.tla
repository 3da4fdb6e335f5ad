------------------------------ MODULE Inventory ------------------------------
(***************************************************************************)
(* cluster_inventory.py and source_discovery.py: an operator's inventory   *)
(* of nodes, services and components, and the topology, the scrape targets *)
(* and the sources that are compiled from it; then what is reported and    *)
(* published of a topology file.                                           *)
(*                                                                         *)
(* A node is [name, address, roles, parts, collector], parts giving each   *)
(* field of Title the resources of its kind.  A component is [id, role,    *)
(* owner, parts, system]: owner and system are "" when they are not given, *)
(* parts a set of [field, name]; the id of a node is <<node>>, that of a   *)
(* resource of it <<node, title, resource>>.                               *)
(*                                                                         *)
(* Then operations/config.py: the settings that a file, the environment    *)
(* and the defaults give, the file that `xltel config migrate` writes of   *)
(* them, and the settings under which operations/cluster.py checks an      *)
(* inventory.  A layer is a function of the settings that it gives, a path *)
(* a sequence of names, a URL its host and port, and the settings stand    *)
(* for all of their kind: URL and PORT for those of the three services,    *)
(* TOOLS for the directories found below TELEMETRY_HOME.                   *)
(***************************************************************************)
EXTENDS Integers, Sequences, SequencesExt, FiniteSets, TLC

Title == [gpu |-> "gpu", interface |-> "nic", device |-> "ssd"]
StorageRoles == {"storage", "storage-node", "mds", "metadata", "ds", "data"}
DynamicLabels == {"run_id", "model"}
ReservedLabels == {"component", "telemetry_source", "job"}

Distinct(s) == Cardinality(Range(s)) = Len(s)
Each(s, f) == [i \in DOMAIN s |-> s[i][f]]

-----------------------------------------------------------------------------
(* build_file_discovery: each exporter is registered once.                 *)
Registered(services) ==
  /\ Distinct(Each(services, "name")) /\ Distinct(Each(services, "endpoint"))
  /\ \A s \in Range(services) : DOMAIN s.labels \cap ReservedLabels = {}
Group(s) ==
  [target |-> s.endpoint,
   labels |-> [l \in DOMAIN s.labels \cup {"component", "node"} |->
                 CASE l = "component" -> s.name [] l = "node" -> s.node [] OTHER -> s.labels[l]]]
Discovered(services) == {Group(s) : s \in Range(services)}

(* _normalize_inventory *)
Names(d) == Range(Each(d.nodes, "name"))
AcceptedNode(n) == n.roles # <<>> /\ Distinct(n.roles) /\ \A f \in DOMAIN Title : Distinct(n.parts[f])
AcceptedService(s, d) ==
  /\ s.node \in Names(d) /\ DOMAIN s.labels \cap DynamicLabels = {}
  /\ \A l \in DOMAIN s.labels \cap {"node", "nodename"} : s.labels[l] = s.node
  /\ "cluster" \in DOMAIN s.labels => s.labels.cluster = d.cluster
AcceptedComponent(c, d) ==
  /\ c.owner # "" => c.owner \in Names(d)
  /\ Cardinality(c.parts) <= 1 /\ (c.parts # {} => c.owner # "")
Accepted(d) ==
  /\ d.nodes # <<>> /\ Distinct(Each(d.nodes, "name")) /\ Distinct(Each(d.nodes, "address"))
  /\ \A n \in Range(d.nodes) : AcceptedNode(n)
  /\ \E n \in Range(d.nodes) : n.collector
  /\ d.monitoring # "" => d.monitoring \in Names(d)
  /\ \A s \in Range(d.services) : AcceptedService(s, d)
  /\ Registered(d.services)
  /\ \A c \in Range(d.components) : AcceptedComponent(c.item, d)

-----------------------------------------------------------------------------
(* compile_inventory: the namespaces that a node is in, what it is called  *)
(* in each, and its resources in the first of them.                        *)
Stores(n) == Range(n.roles) \cap StorageRoles
Kinds(n) ==
  (IF Stores(n) # {} THEN {"storage"} ELSE {})
  \cup IF Range(n.roles) \ StorageRoles # {} \/ n.parts["gpu"] # <<>> \/ Stores(n) = {} THEN {"compute"} ELSE {}
Primary(n) == IF "compute" \in Kinds(n) THEN "compute" ELSE "storage"
Role(n, kind) ==
  LET metadata == Stores(n) \cap {"mds", "metadata"} # {}
      data     == Stores(n) \cap {"ds", "data"} # {}
  IN  CASE kind = "compute" -> IF n.parts["gpu"] # <<>> THEN "gpu-node" ELSE "compute-node"
        [] kind = "storage" -> IF metadata = data THEN "storage-node" ELSE IF metadata THEN "metadata" ELSE "data"

Item(id, role, owner, parts) == [id |-> id, role |-> role, owner |-> owner, parts |-> parts, system |-> ""]
Attached(n) == UNION {{[field |-> f, name |-> r] : r \in Range(n.parts[f])} : f \in DOMAIN Title}
PartId(n, p) == <<n.name, Title[p.field], p.name>>
Generated(n) ==
  {[kind |-> k, item |-> Item(<<n.name>>, Role(n, k), n.name, {})] : k \in Kinds(n)}
  \cup {[kind |-> Primary(n), item |-> Item(PartId(n, p), Title[p.field], n.name, {p})] : p \in Attached(n)}
Links(n) ==
  {[kind |-> Primary(n), edge |-> <<<<n.name>>, PartId(n, p), "attached">>] : p \in Attached(n)}

(* What is owned by a node without a collector is kept without its owner.  *)
Collectors(d) == {n.name : n \in {m \in Range(d.nodes) : m.collector}}
Effective(c, collectors) ==
  LET hidden == c.owner # "" /\ c.owner \notin collectors
  IN  [id |-> c.id, role |-> IF c.role = "fabric" THEN "network" ELSE c.role,
       owner |-> IF hidden THEN "" ELSE c.owner, parts |-> IF hidden THEN {} ELSE c.parts,
       system |-> IF hidden THEN "" ELSE c.system]

Items(d) ==
  {[kind |-> x.kind, item |-> Effective(x.item, Collectors(d))] :
     x \in Range(d.components) \cup UNION {Generated(n) : n \in Range(d.nodes)}}
Edges(d) == Range(d.edges) \cup UNION {Links(n) : n \in Range(d.nodes)}

(* One meaning of each identity in a namespace, and edges only between     *)
(* what is declared in it.                                                 *)
OneMeaning(items) == \A x, y \in items : x.kind = y.kind /\ x.item.id = y.item.id => x = y
Declared(items, edges) ==
  \A e \in edges : {e.edge[1], e.edge[2]} \subseteq {x.item.id : x \in {y \in items : y.kind = e.kind}}
Namespace(items, edges, k) ==
  [components |-> {x.item : x \in {y \in items : y.kind = k}}, edges |-> {e.edge : e \in {g \in edges : g.kind = k}}]
Within(space, most) == Cardinality(space.components) <= most.components /\ Cardinality(space.edges) <= most.edges

Assembled(d, items, edges, most) ==
  IF /\ OneMeaning(items) /\ Declared(items, edges)
     /\ \A k \in {"compute", "storage"} : Within(Namespace(items, edges, k), most)
  THEN <<[targets |-> {n.address : n \in {m \in Range(d.nodes) : m.collector}},
          sources |-> Discovered(d.services),
          topology |-> [k \in {"compute", "storage"} |-> Namespace(items, edges, k)]]>>
  ELSE <<>>
Compiled(d, most) == IF Accepted(d) THEN Assembled(d, Items(d), Edges(d), most) ELSE <<>>

-----------------------------------------------------------------------------
(* topology_validation.py and collectors/topology_textfile.py: what is     *)
(* reported of a topology file, and what is published of it.  The          *)
(* components of a file are in a sequence and may say anything: an id that *)
(* is <<>>, a role that is "", and any name that is "?" stand for such as  *)
(* are not valid.  The role "?" is not even text.                          *)
KnownRoles == {"gpu-node", "compute-node", "storage-node", "metadata", "data", "gpu", "nic", "ssd", "network"}
Warnings == {"component_role_custom", "resource_mapping_unverified", "node_registration_unverified", "duplicate_edge"}
Severity(code) == IF code \in Warnings THEN "warning" ELSE "error"
When(condition, code) == IF condition THEN <<code>> ELSE <<>>

-----------------------------------------------------------------------------
(* _Issues: a report holds so many; an error displaces a warning, and all  *)
(* are counted.                                                            *)
NoIssues == [values |-> <<>>, counts |-> [error |-> 0, warning |-> 0]]
FirstWarning(values) ==
  SelectInSeq(values, LAMBDA code : Severity(code) = "warning")
Stored(values, code, most) ==
  IF Len(values) < most THEN Append(values, code)
  ELSE IF Severity(code) = "warning" \/ FirstWarning(values) = 0 THEN values
  ELSE [values EXCEPT ![FirstWarning(values)] = code]
Add(report, code, most) ==
  [values |-> Stored(report.values, code, most), counts |-> [report.counts EXCEPT ![Severity(code)] = @ + 1]]
Reported(report, codes, most) == FoldLeft(LAMBDA r, code : Add(r, code, most), report, codes)

(* inspect_topology: the issues that a file's report holds are added, and  *)
(* those it left out are counted.                                          *)
StoredOf(report, severity) == Len(SelectSeq(report.values, LAMBDA code : Severity(code) = severity))
Included(report, file, most) ==
  LET r == Reported(report, file.values, most)
  IN  [r EXCEPT !.counts = [s \in {"error", "warning"} |-> @[s] + file.counts[s] - StoredOf(file, s)]]
Inspected(files, most) == FoldLeft(LAMBDA r, codes : Included(r, Reported(NoIssues, codes, most), most), NoIssues, files)
Status(report) == IF report.counts.error > 0 THEN "error" ELSE IF report.counts.warning > 0 THEN "warning" ELSE "ok"

-----------------------------------------------------------------------------
(* validate_topology_payload *)
ValidRole(c) == c.role \notin {"", "?"}
ValidMapping(c) == "?" \notin {c.owner, c.system} \cup {p.name : p \in c.parts}
Mapping(c) == [owner |-> c.owner, parts |-> c.parts, system |-> c.system]
Previous(components, i) == {j \in 1..(i - 1) : components[j].id # <<>> /\ components[j].id = components[i].id}
First(S) == CHOOSE j \in S : \A k \in S : j <= k

Conflicts(c, before) ==
  <<"duplicate_component_id">> \o When(c.role # before.role, "component_role_conflict")
  \o When(Mapping(c) # Mapping(before), "component_mapping_conflict")

(* nodes is <<registered nodes>>, or <<>> when they are not known.         *)
ComponentCodes(components, i, nodes) ==
  LET c == components[i]
  IN  When(c.id = <<>>, "component_id_invalid")
      \o When(~ValidRole(c), "component_role_invalid")
      \o When(ValidRole(c) /\ c.role \notin KnownRoles, "component_role_custom")
      \o When(~ValidMapping(c), "mapping_field_invalid")
      \o (IF Previous(components, i) = {} THEN <<>> ELSE Conflicts(c, components[First(Previous(components, i))]))
      \o When(ValidMapping(c) /\ c.owner # "" /\ nodes # <<>> /\ c.owner \notin UNION Range(nodes), "resource_node_unregistered")
      \o When(c.owner = "" /\ c.role # "network", "resource_mapping_unverified")

EdgeCodes(p, i) ==
  LET e == p.edges[i]
  IN  IF <<>> \in {e[1], e[2]} THEN <<"edge_endpoint_invalid">>
      ELSE When(~({e[1], e[2]} \subseteq {c.id : c \in Range(p.components)}), "edge_endpoint_unknown")
           \o IF e[3] = "?" THEN <<"edge_relation_invalid">>
              ELSE When(\E j \in 1..(i - 1) : p.edges[j] = e, "duplicate_edge")

Unverified(p, nodes) ==
  When(nodes = <<>> /\ \E c \in Range(p.components) : ValidMapping(c) /\ c.owner # "", "node_registration_unverified")

Codes(p, nodes) ==
  FlattenSeq([i \in DOMAIN p.components |-> ComponentCodes(p.components, i, nodes)])
  \o Unverified(p, nodes) \o FlattenSeq([i \in DOMAIN p.edges |-> EdgeCodes(p, i)])

-----------------------------------------------------------------------------
(* build_gauges: a component is published with its mapping when all its    *)
(* declarations in the file agree and are valid, and without it otherwise. *)
Declarations(p, id) == {<<c.role, Mapping(c)>> : c \in {x \in Range(p.components) : x.id = id}}
Agreed(p, c) == Cardinality(Declarations(p, c.id)) = 1 /\ ValidRole(c) /\ ValidMapping(c)
Gauges(p) ==
  {[id |-> c.id, role |-> c.role, mapping |-> IF Agreed(p, c) THEN <<Mapping(c)>> ELSE <<>>] :
     c \in {x \in Range(p.components) : x.id # <<>> /\ x.role # "?"}}
EdgeGauges(p) == {e \in Range(p.edges) : <<>> \notin {e[1], e[2]} /\ e[3] # "?"}

-----------------------------------------------------------------------------
(* What is compiled from an accepted inventory is without an error for     *)
(* those who read it later, with the nodes that are scraped as those that  *)
(* are registered: it is published whole, each of its owners is scraped,   *)
(* nothing else of an owner that is not is said, and each exporter is      *)
(* scraped once, under the name of the node that it is on.                 *)
InSequence(S) == FoldSet(LAMBDA x, s : Append(s, x), <<>>, S)
CompiledIsClean(d, most) ==
  \A c \in Range(Compiled(d, most)) :
    /\ \A k \in {"compute", "storage"} : \A p \in {[components |-> InSequence(c.topology[k].components),
                                                    edges |-> InSequence(c.topology[k].edges)]} :
         /\ \A code \in Range(Codes(p, <<Collectors(d)>>)) : code \in Warnings
         /\ \A x \in Range(p.components) : [id |-> x.id, role |-> x.role, mapping |-> <<Mapping(x)>>] \in Gauges(p)
         /\ EdgeGauges(p) = c.topology[k].edges
         /\ \A x \in Range(p.components) : x.owner \in Collectors(d) \/ (x.owner = "" /\ x.parts = {})
    /\ \A n \in Range(d.nodes) : n.address \in c.targets <=> n.name \in Collectors(d)
    /\ \A n \in Range(d.nodes), f \in DOMAIN Title : \A r \in Range(n.parts[f]) : \E k \in {"compute", "storage"} :
         \E x \in c.topology[k].components : x.id = <<n.name, Title[f], r>> /\ (n.collector => x.parts = {[field |-> f, name |-> r]})
    /\ \A g, h \in c.sources : g.target = h.target => g = h
    /\ \A g \in c.sources : \E s \in Range(d.services) : s.endpoint = g.target /\ g.labels.node = s.node

(* A mapping is published only if nothing in the file says otherwise, and  *)
(* a file without an error is published whole.                             *)
PublishedIsDeclared(p) ==
  /\ \A g \in Gauges(p) : g.mapping # <<>> =>
       \A c \in Range(p.components) : c.id = g.id => c.role = g.role /\ Mapping(c) = g.mapping[1]
  /\ (\A code \in Range(Codes(p, <<>>)) : code \in Warnings) =>
       Cardinality(Gauges(p)) = Len(p.components) /\ \A g \in Gauges(p) : g.mapping # <<>>

(* No error is hidden by warnings, by the limit of a file's report or by   *)
(* that of the whole, and what is left out is counted.                     *)
ErrorsAreKept(files, most) ==
  \A r \in {Inspected(files, most)}, codes \in {FlattenSeq(files)} :
    /\ r.counts = [s \in {"error", "warning"} |-> Len(SelectSeq(codes, LAMBDA code : Severity(code) = s))]
    /\ Len(r.values) <= most
    /\ StoredOf(r, "error") = IF r.counts.error < most THEN r.counts.error ELSE most
    /\ Status(r) = "ok" <=> codes = <<>>

-----------------------------------------------------------------------------
(* The settings of the commands (operations/config.py).                    *)
Flags == {"LOGS"}
Ages == {"AGE"}
Ports == {"PORT"}
Paths == {"HOME", "TOOLS", "RUN_ROOT", "RUNS_ROOT"}
Keys == Flags \cup Ages \cup Ports \cup Paths \cup
        {"RUN_ID", "URL", "NODE", "ADDRESS", "CLUSTER", "TARGETS", "INTERVAL", "TIMEOUT", "SOURCES", "TOPOLOGY"}

Home == <<"~">>
Defaults ==
  [HOME |-> Append(Home, "telemetry"), RUN_ID |-> "auto", NODE |-> "gpu-local", ADDRESS |-> "local", CLUSTER |-> "c",
   PORT |-> 19090, INTERVAL |-> 5, TIMEOUT |-> 4, LOGS |-> "0", AGE |-> 300]

(* _read_toml: the tables, keys and types of a document that it accepts;   *)
(* flags, ages and ports may be given as such or as text.                  *)
Types(key) ==
  {"text"} \cup (IF key \in Flags THEN {"boolean"} ELSE IF key \in Ages THEN {"integer", "float"}
                 ELSE IF key \in Ports THEN {"integer"} ELSE {})
AcceptedToml(d) ==
  /\ d.tables \subseteq {"telemetry", "workload", "environment"} /\ DOMAIN d.types = DOMAIN d.settings
  /\ \A key \in DOMAIN d.settings : key \in Keys /\ d.types[key] \in Types(key)
  /\ d.workload \subseteq {"command"} /\ DOMAIN d.exports \cap Keys = {}

-----------------------------------------------------------------------------
(* load_config: the environment goes before the file, which goes before    *)
(* the defaults; what none gives is derived from what applies.             *)
Given(file, env) == env @@ file
Parent(path) == SubSeq(path, 1, Len(path) - 1)
Derived(given) ==
  LET c == given @@ Defaults
      parent == IF "RUNS_ROOT" \in DOMAIN given THEN given.RUNS_ROOT
                ELSE IF c.RUN_ID = "auto" THEN Append(c.HOME, "runs") ELSE Append(Home, "telemetry-runs")
      root == IF "RUN_ROOT" \in DOMAIN given THEN given.RUN_ROOT ELSE Append(parent, c.RUN_ID)
  IN  [TOOLS |-> Append(c.HOME, "tools"), URL |-> <<"local", c.PORT>>, RUN_ROOT |-> root,
       RUNS_ROOT |-> IF Len(root) > 1 THEN Parent(root) ELSE root]

Resolved(file, env) == Given(file, env) @@ Derived(Given(file, env)) @@ Defaults

(* validate_collection_budgets and validate.                               *)
WithinBudgets(c) ==
  c.INTERVAL \in 2..300 /\ c.TIMEOUT \in 1..300 /\ c.TIMEOUT <= c.INTERVAL
Targets(c) == IF "TARGETS" \in DOMAIN c THEN c.TARGETS ELSE <<>>
Valid(c) ==
  /\ WithinBudgets(c) /\ c.PORT \in 1..65535 /\ c.RUN_ID \notin {".", "..", "?"}
  /\ \A key \in Paths : c[key] # <<>>
  /\ c.LOGS \in {"0", "1"} /\ c.AGE > 0 /\ c.URL[1] # "?"
  /\ IsInjective([i \in DOMAIN Targets(c) |-> Targets(c)[i][1]])
Load(file, env) == LET c == Resolved(file, env) IN IF Valid(c) THEN <<c>> ELSE <<>>

(* effective_targets: the node itself where no target is given.            *)
EffectiveTargets(c) ==
  IF Targets(c) = <<>> THEN [n \in {c.NODE} |-> c.ADDRESS]
  ELSE [n \in {t[1] : t \in Range(Targets(c))} |-> (CHOOSE t \in Range(Targets(c)) : t[1] = n)[2]]

(* migrate and snapshot: every setting that applies, as text.              *)
Migrated(c) == [key \in DOMAIN c \cap Keys |-> c[key]]
Document(c) ==
  [tables |-> {"telemetry", "workload"}, settings |-> Migrated(c), types |-> [key \in DOMAIN Migrated(c) |-> "text"],
   workload |-> {"command"}, exports |-> <<>>]

(* _execute_cluster: the settings that an inventory declares replace those *)
(* of the installation, and those that it does not declare go.             *)
FromInventory == {"CLUSTER", "TARGETS", "TOPOLOGY", "SOURCES"}
Checked(c, manifest) ==
  [key \in FromInventory \cap DOMAIN manifest |-> manifest[key]] @@ [key \in DOMAIN c \ FromInventory |-> c[key]]

-----------------------------------------------------------------------------
(* The environment is obeyed, and what nobody gave follows what applies.   *)
LayersAreOrdered(file, env) ==
  LET c == Resolved(file, env)
  IN  /\ \A key \in DOMAIN c : key \in DOMAIN env => c[key] = env[key]
      /\ \A key \in DOMAIN c \ DOMAIN env : key \in DOMAIN file => c[key] = file[key]
      /\ {"URL"} \cap (DOMAIN env \cup DOMAIN file) = {} => c.URL = <<"local", c.PORT>>
      /\ ~({"RUN_ROOT", "RUNS_ROOT"} \subseteq DOMAIN env \cup DOMAIN file) => Parent(c.RUN_ROOT) = c.RUNS_ROOT

(* A migrated file is accepted, and gives the same settings again; in      *)
(* another environment it gives the same but for what that one sets.       *)
MigratedIsSame(file, env, other) ==
  \A c \in Range(Load(file, env)) :
    /\ AcceptedToml(Document(c))
    /\ Load(Document(c).settings, env) = <<c>>
    /\ \A d \in Range(Load(Document(c).settings, other)) : \A key \in (Keys \cap DOMAIN c) \ DOMAIN other : d[key] = c[key]

(* An inventory is checked as declared, whatever is installed, and every   *)
(* node has one target.                                                    *)
CheckIsDeclared(c, e, manifest) ==
  /\ \A key \in FromInventory : key \in DOMAIN Checked(c, manifest) <=> key \in DOMAIN manifest
  /\ Targets(manifest) # <<>> => EffectiveTargets(Checked(c, manifest)) = EffectiveTargets(Checked(e, manifest))
  /\ Valid(c) => Cardinality(DOMAIN EffectiveTargets(c)) = (IF Targets(c) = <<>> THEN 1 ELSE Len(Targets(c)))
=============================================================================
