-------------------------- MODULE MonitoringStack ---------------------------
(***************************************************************************)
(* The monitoring server as its commands see it: the files that name its   *)
(* targets, the validation of its endpoints, the alert rules that it is    *)
(* given and when they fire, the manifest of a run, and the Grafana App.   *)
(*                                                                         *)
(* Optional values are sequences of at most one element.                   *)
(***************************************************************************)
EXTENDS Integers, Sequences, FiniteSets, SequencesExt, FiniteSetsExt, TLC

-----------------------------------------------------------------------------
(* The target files: a file is missing, broken, or a list of groups.       *)
TargetFiles == {"applications", "gpus", "nodes"}
OptionalTargetFiles == {"native"}

Checked(files) == TargetFiles \cup {f \in OptionalTargetFiles : files[f].is # "missing"}

GoodGroup(g) == "" \notin ToSet(g.targets) /\ g.labelled

validate_target_files(files) ==
  IF \E f \in Checked(files) : files[f].is # "list" \/ \E i \in DOMAIN files[f].groups : ~GoodGroup(files[f].groups[i])
  THEN <<>>
  ELSE <<[files |-> Cardinality(Checked(files)),
          targets |-> MapThenSumSet(LAMBDA f : FoldLeft(LAMBDA n, g : n + Len(g.targets), 0, files[f].groups), Checked(files))]>>

(* A count is given only if every required file is there and no file that  *)
(* the server reads names a target without an address.                     *)
CountIsWhole(files) ==
  LET blank(f) == files[f].is = "list" /\ \E i \in DOMAIN files[f].groups, k \in 1..2 :
                    k \in DOMAIN files[f].groups[i].targets /\ files[f].groups[i].targets[k] = ""
      Sum(f) == FoldLeft(LAMBDA n, g : n + Len(g.targets), 0, files[f].groups)
      counted == validate_target_files(files)
  IN  counted # <<>> =>
        /\ \A f \in DOMAIN files : ~blank(f) /\ files[f].is # "broken"
        /\ \A f \in TargetFiles : files[f].is = "list"
        /\ \A f \in DOMAIN files : files[f].is = "list" => counted[1].targets >= Sum(f)

-----------------------------------------------------------------------------
(* Waiting for an endpoint: attempts that take a time and are answered or  *)
(* not, a second apart, until the deadline; an answer at the deadline or   *)
(* after it is none.                                                       *)
Smaller(a, b) == IF a < b THEN a ELSE b
wait_until_ready(attempts, timeout) ==
  FoldLeft(LAMBDA acc, a :
             IF acc.ready \/ acc.clock >= timeout THEN acc
             ELSE LET then == acc.clock + a.takes
                  IN  IF a.answered /\ then < timeout THEN [clock |-> then, ready |-> TRUE]
                      ELSE [acc EXCEPT !.clock = then + Smaller(1, IF then < timeout THEN timeout - then ELSE 0)],
           [clock |-> 0, ready |-> FALSE], attempts)

(* An endpoint is ready only by an answer within the time, and it is given *)
(* up only when the time is over.                                          *)
ReadyInTime(attempts, timeout) ==
  LET w == wait_until_ready(attempts, timeout)
  IN  /\ w.ready => w.clock < timeout /\ \E i \in DOMAIN attempts : attempts[i].answered
      /\ (~w.ready /\ Len(attempts) > timeout) => w.clock >= timeout
      /\ (attempts # <<>> /\ attempts[1].answered /\ attempts[1].takes < timeout) => w.ready

(* The validation: what each endpoint did, and the errors that are listed. *)
TargetStatus(x) ==
  IF x.prometheus /\ x.targets # <<>>
  THEN [configured |-> Len(x.targets[1]), up |-> Cardinality({i \in DOMAIN x.targets[1] : x.targets[1][i] = "up"})]
  ELSE [configured |-> 0, up |-> 0]

TargetsAcceptable(x) ==
  ~x.requireUp \/ (TargetStatus(x).configured > 0 /\ TargetStatus(x).up = TargetStatus(x).configured)

validate_stack(x) ==
  [errors |->
     {e \in {"prometheus", "targets read", "query"} :
        \/ e = "prometheus" /\ ~x.prometheus
        \/ e = "targets read" /\ x.prometheus /\ x.targets = <<>>
        \/ e = "query" /\ x.prometheus /\ x.targets # <<>> /\ x.query # "success"}
     \cup {e \in {"grafana", "health read", "version", "database"} :
        \/ e = "grafana" /\ ~x.grafana
        \/ e = "health read" /\ x.grafana /\ x.health = <<>>
        \/ e = "version" /\ x.grafana /\ x.health # <<>> /\ ~x.health[1].version
        \/ e = "database" /\ x.grafana /\ x.health # <<>> /\ ~x.health[1].database}
     \cup {e \in {"loki"} : x.loki # <<>> /\ ~(x.loki[1].ready /\ x.loki[1].query = "success")}
     \cup {e \in {"targets"} : ~TargetsAcceptable(x)},
   valid |-> /\ x.prometheus /\ x.targets # <<>> /\ x.query = "success"
             /\ x.grafana /\ x.health # <<>> /\ x.health[1].version /\ x.health[1].database
             /\ x.loki = <<>> \/ (x.loki[1].ready /\ x.loki[1].query = "success")
             /\ TargetsAcceptable(x),
   status |-> TargetStatus(x)]

(* A verdict has its reason: a stack that is not valid has an error listed *)
(* and a valid one has none; a part that could not be read never makes it  *)
(* valid, and neither do required targets of which none is known.          *)
VerdictHasReason(x) ==
  \A v \in {validate_stack(x)} :
    /\ v.valid <=> v.errors = {}
    /\ v.valid => x.targets # <<>> /\ x.health # <<>> /\ (x.requireUp => ToSet(x.targets[1]) = {"up"})
    /\ (x.loki = <<>>) => "loki" \notin v.errors

-----------------------------------------------------------------------------
(* The alert rules.  An evaluation gives of each instance whether it is    *)
(* up, the age of its GPU sample, whether the GPU sampler is enabled, and  *)
(* the free space of the filesystem as <<available, size>>.  A query is    *)
(* the function of the instances that it returns, 1 or 0 of each.          *)
TargetDown(s) == [i \in {j \in DOMAIN s : s[j].up # <<>>} |-> IF s[i].up[1] = 0 THEN 1 ELSE 0]

IsUp(s) == {i \in DOMAIN s : s[i].up = <<1>>}
Sampled(s) == {i \in DOMAIN s : s[i].age # <<>>}
(* The stale samples, or 1 where there is none, of what is up, without     *)
(* what says that it does not sample GPUs.                                 *)
GpuStale(s) ==
  [i \in ((Sampled(s) \cup (IsUp(s) \ Sampled(s))) \cap IsUp(s)) \ {j \in DOMAIN s : s[j].enabled = <<0>>} |->
     IF i \notin Sampled(s) \/ s[i].age[1] > 60 THEN 1 ELSE 0]

LowSpace(s, percent) ==
  [i \in {j \in DOMAIN s : s[j].space # <<>>} |-> IF s[i].space[1][1] * 100 < s[i].space[1][2] * percent THEN 1 ELSE 0]

(* A rule fires for an instance of which each of the evaluations of its    *)
(* pending time (every 30 seconds) returned 1; no data is no alert.        *)
Fires(answers, i, pending) ==
  LET k == Len(answers)
  IN  k > pending /\ \A j \in k - pending..k : i \in DOMAIN answers[j] /\ answers[j][i] = 1

Alerts(history, percent) ==
  LET Of(Query(_)) == [k \in DOMAIN history |-> Query(history[k])]
      all == UNION {DOMAIN history[k] : k \in DOMAIN history}
      Low(s) == LowSpace(s, percent)
  IN  [down |-> {i \in all : Fires(Of(TargetDown), i, 2)},
       gpu |-> {i \in all : Fires(Of(GpuStale), i, 2)},
       space |-> {i \in all : Fires(Of(Low), i, 10)}]

(* An alert is of what lasted: a collector is reported as down, or its GPU *)
(* samples as old, and never both; a node without GPU sampling is never    *)
(* reported for the lack of samples; and a node that was up for the whole  *)
(* pending time with no fresh sample is reported.                          *)
AlertsAreFounded(history, percent) ==
  \A a \in {Alerts(history, percent)} :
    LET last == Len(history)
        Fresh(s) == s.age # <<>> /\ s.age[1] <= 60
    IN  /\ a.down \cap a.gpu = {}
        /\ \A i \in a.gpu : \A j \in last - 2..last : ~Fresh(history[j][i]) /\ history[j][i].enabled # <<0>> /\ history[j][i].up = <<1>>
        /\ \A i \in a.space : \A j \in last - 10..last : history[j][i].space # <<>>
        /\ last >= 3 => \A i \in DOMAIN history[last] :
             (\A j \in last - 2..last : LET s == history[j][i] IN s.up = <<1>> /\ ~Fresh(s) /\ s.enabled # <<0>>) => i \in a.gpu

-----------------------------------------------------------------------------
(* The manifest of a run: names with values, of which an option overrides  *)
(* what the environment says, and roles on nodes.                          *)
NameOK(n) == n \notin {"", "?"}

Pairs(values) ==
  IF \/ \E i \in DOMAIN values : ~NameOK(values[i][1]) \/ values[i][2] = ""
     \/ ~IsInjective([i \in DOMAIN values |-> values[i][1]])
  THEN <<>>
  ELSE <<[name \in {values[i][1] : i \in DOMAIN values} |-> values[CHOOSE i \in DOMAIN values : values[i][1] = name][2]]>>

Over(env, option) == [n \in DOMAIN env \cup DOMAIN option |-> IF n \in DOMAIN option THEN option[n] ELSE env[n]]

RoleAssignments(values) ==
  IF (\E i \in DOMAIN values, k \in 1..2 : ~NameOK(values[i][k])) \/ ~IsInjective(values) THEN <<>> ELSE <<ToSet(values)>>

make_agent_rl_manifest(m) ==
  LET sources == Pairs(m.sources)
      roles   == RoleAssignments(m.roles)
  IN  IF ~NameOK(m.run) \/ sources = <<>> \/ roles = <<>> THEN <<>>
      ELSE <<[run |-> m.run, sources |-> Over(m.env, sources[1]), roles |-> roles[1]]>>

(* A manifest says all that was declared: nothing that was given is lost   *)
(* to another value of the same name, a role may be on several nodes, and  *)
(* only what no option names is taken from the environment.                *)
ManifestIsDeclared(m) ==
  \A x \in {make_agent_rl_manifest(m)} : x # <<>> =>
    /\ \A i \in DOMAIN m.sources : x[1].sources[m.sources[i][1]] = m.sources[i][2]
    /\ \A n \in DOMAIN x[1].sources : n \in DOMAIN m.env \/ \E i \in DOMAIN m.sources : m.sources[i][1] = n
    /\ \A n \in DOMAIN m.env : n \in DOMAIN x[1].sources
    /\ Cardinality(x[1].roles) = Len(m.roles) /\ ToSet(m.roles) = x[1].roles
-----------------------------------------------------------------------------
(* The Grafana App: the package that an update takes, what is accepted of  *)
(* it, and what app status concludes.  How the files are replaced is in    *)
(* AppInstaller.  A version is a number: 7 is the one that is supported and*)
(* 6 the first with the frontend's React 19 switch.  A datasource has the  *)
(* name of its type.                                                       *)
DEFAULT_GRAFANA_VERSION == 7
GRAFANA_CEILING == 8
FIRST_WITH_REACT == 6

dependency_bounds(d) ==
  LET max == IF d.max = <<>> THEN GRAFANA_CEILING ELSE Smaller(d.max[1], GRAFANA_CEILING)
  IN  CASE d.is = "exact" -> <<[min |-> DEFAULT_GRAFANA_VERSION, max |-> GRAFANA_CEILING]>>
        [] d.is = "range" /\ d.min < max -> <<[min |-> d.min, max |-> max]>>
        [] d.is = "range" /\ d.min >= max -> <<>>
        [] d.is = "other" -> <<>>

grafana_compatible(version, d) ==
  LET bounds == dependency_bounds(d)
  IN  version = <<DEFAULT_GRAFANA_VERSION>> /\ bounds # <<>> /\ version[1] \in bounds[1].min..bounds[1].max - 1

(* The package: the given one, or else that of the last successful CI run  *)
(* if it is of main's head and comes whole, or else a build of the checkout*)
(* of which every command succeeds.                                        *)
FromCI(s) ==
  /\ ~s.build /\ s.gh = "answers" /\ s.run # <<>> /\ s.run = s.main
  /\ \E i \in DOMAIN s.artifacts : s.artifacts[i] = "good"
  /\ s.archives = 1 /\ s.checksum
Built(s) == s.checkout /\ s.commands = {TRUE}

package_source(s) ==
  CASE s.package # <<>> -> IF s.package[1].checksum THEN <<"given">> ELSE <<>>
    [] s.package = <<>> /\ FromCI(s) -> <<"ci">>
    [] s.package = <<>> /\ ~FromCI(s) -> IF Built(s) THEN <<"built">> ELSE <<>>

(* A package is never older than main and never one that failed a command, *)
(* and no trouble with CI keeps a sound checkout from being built.         *)
PackageIsCurrent(s) ==
  LET p == package_source(s)
  IN  /\ p = <<"ci">> => s.package = <<>> /\ s.run = s.main /\ ~s.build /\ s.checksum
      /\ p = <<"built">> => s.package = <<>> /\ FALSE \notin s.commands
      /\ (s.package = <<>> /\ s.checkout /\ s.commands = {TRUE}) => p # <<>>

(* What is installed of an archive, if it is accepted, by the Grafana that *)
(* was detected: its API's version, or else its binary's.                  *)
Detected(x) == IF x.health # <<>> THEN x.health ELSE x.binary

Unpacked(a, allow) ==
  /\ a.digest /\ ~a.large /\ a.zip
  /\ IsInjective(a.members) /\ \A i \in DOMAIN a.members : a.members[i] \in {"module.js", "logo", "manifest", "other"}
  /\ a.app /\ a.version /\ dependency_bounds(a.dependency) # <<>>
  /\ {"module.js", "logo"} \subseteq ToSet(a.members)
  /\ "manifest" \in ToSet(a.members) \/ allow

Receipt(x) ==
  LET a == x.archive
      accepted == Unpacked(a, x.allow) /\ (Detected(x) # <<>> => grafana_compatible(Detected(x), a.dependency))
      manifest == "manifest" \in ToSet(a.members)
  IN  IF accepted THEN <<[files |-> a.content, dependency |-> a.dependency, manifest |-> manifest, unsigned |-> ~manifest /\ x.allow]>>
      ELSE <<>>

(* The installed directory against its receipt; a directory is the         *)
(* sequence of its files, module.js first.                                 *)
Integrity(receipt, target) ==
  CASE target = <<"unreadable">> -> IF receipt = <<>> THEN "unmanaged" ELSE "unknown"
    [] target # <<"unreadable">> /\ target # <<>> /\ receipt # <<>> /\ target = receipt[1].files -> "verified"
    [] target # <<"unreadable">> /\ target # <<>> /\ receipt # <<>> /\ target # receipt[1].files -> "modified"
    [] target # <<"unreadable">> /\ target # <<>> /\ receipt = <<>> -> "unmanaged"
    [] target = <<>> -> "not_installed"

unsigned_allowed(receipt, target) == Integrity(receipt, target) = "verified" /\ receipt[1].unsigned

Pass(b) == IF b THEN "pass" ELSE "unknown"
Known(version, b) == IF version = <<>> THEN "unknown" ELSE IF b THEN "pass" ELSE "fail"

(* The checks of the app by name; the receipt of what was never installed  *)
(* has the default dependency.  What an API does not answer is unknown.    *)
AppChecks(x, receipt) ==
  LET dependency == IF receipt = <<>> THEN [is |-> "exact", min |-> 0, max |-> <<>>] ELSE receipt[1].dependency
      integrity  == Integrity(receipt, x.target)
      enabled    == x.loaded # <<>> /\ x.loaded[1].enabled
      boards     == \A i \in DOMAIN x.boards : x.boards[i] # <<>>
      required   == UNION {x.boards[i][1] : i \in {j \in DOMAIN x.boards : x.boards[j] # <<>>}}
      Common ==
        [grafana |-> Known(x.health, x.health = <<DEFAULT_GRAFANA_VERSION>>),
         compatible |-> Known(x.health, grafana_compatible(x.health, dependency)),
         integrity |-> IF integrity = "verified" THEN "pass" ELSE "fail",
         enabled |-> Pass(enabled),
         datasources |-> Pass(x.datasources # <<>> /\ "prometheus" \in x.datasources[1]),
         boards |-> Pass(boards),
         mapping |-> Pass(boards /\ required # {} /\ x.datasources # <<>> /\ required \subseteq x.datasources[1]),
         served |-> Pass(integrity = "verified" /\ enabled /\ x.served = <<receipt[1].files[1]>>),
         signature |-> Pass(x.loaded # <<>> /\ receipt # <<>> /\
                         IF receipt[1].manifest THEN x.loaded[1].signature = "valid"
                         ELSE x.loaded[1].signature = "unsigned" /\ receipt[1].unsigned)]
  IN  IF x.health = <<>> \/ x.health[1] < FIRST_WITH_REACT THEN Common
      ELSE [react |-> IF x.react = <<>> \/ x.react = <<"junk">> THEN "unknown" ELSE IF x.react = <<"on">> THEN "fail" ELSE "pass"] @@ Common

AppReady(checks) == \A name \in DOMAIN checks : checks[name] = "pass"

(* The app is ready only by what Grafana answers: the supported version    *)
(* without React 19, the very files that were installed, the module of    *)
(* these served and enabled, and each datasource of a dashboard; nothing   *)
(* but the directory fails by the lack of an answer; and what is accepted  *)
(* for installation is ready once Grafana runs it as its signature demands.*)
AppStatusIsFounded(x) ==
  \A receipt \in {Receipt(x)} : \A checks \in {AppChecks(x, receipt)} :
    /\ AppReady(checks) =>
         /\ x.health = <<DEFAULT_GRAFANA_VERSION>> /\ x.react \notin {<<>>, <<"on">>, <<"junk">>}
         /\ x.target = x.archive.content /\ x.served = <<x.target[1]>> /\ x.loaded[1].enabled
         /\ \A i \in DOMAIN x.boards : x.boards[i] # <<>> /\ x.boards[i][1] \subseteq x.datasources[1]
         /\ x.loaded[1].signature = IF "manifest" \in ToSet(x.archive.members) THEN "valid" ELSE "unsigned"
         /\ x.loaded[1].signature # "valid" => x.allow
         /\ LET d == x.archive.dependency IN
              d.is = "exact" \/ (d.min <= DEFAULT_GRAFANA_VERSION /\ (d.max = <<>> \/ DEFAULT_GRAFANA_VERSION < d.max[1]))
    /\ (x.health = <<>> /\ x.loaded = <<>> /\ x.datasources = <<>>) => \A n \in DOMAIN checks : checks[n] = "fail" => n = "integrity"
    /\ unsigned_allowed(receipt, x.target) => x.allow /\ "manifest" \notin ToSet(x.archive.members) /\ x.target = x.archive.content
    /\ (/\ receipt # <<>> /\ x.target = x.archive.content /\ x.served = <<x.target[1]>> /\ x.health # <<>> /\ x.react = <<"off">>
        /\ x.loaded = <<[enabled |-> TRUE, signature |-> IF receipt[1].manifest THEN "valid" ELSE "unsigned"]>>
        /\ x.datasources = <<{"prometheus"}>> /\ \A i \in DOMAIN x.boards : x.boards[i] = <<{"prometheus"}>>)
         => AppReady(checks)
=============================================================================
