-------------------------- MODULE DiagnosisVerdict --------------------------
(***************************************************************************)
(* analysis/diagnostics.py, diagnosis_analysis.py, diagnosis_pipeline.py   *)
(* and diagnostic_signals.py: what a report concludes of the observations  *)
(* that were paired: the catalogue of rules, the caps on what they claim,  *)
(* the findings, and the verdict.                                          *)
(*                                                                         *)
(* An observation is [now, before, stale, doubted]: two optional levels,   *)
(* the roles ("now", "before") whose source time lies outside the window,  *)
(* and those whose sampling is limited otherwise.  Levels are relative to  *)
(* thresholds: two is high, zero is low, twice the baseline is raised.     *)
(*                                                                         *)
(* A case x has an observation of every signal and says: whether a step    *)
(* is analysed; the statuses clock and baseline, whether the inventory is  *)
(* configured, all observed nodes registered and the clock's session the   *)
(* baseline's; whether the workload is matched, 3FS's series are read and  *)
(* its exposures comparable; the dispersion (robust) of the baselines; the *)
(* replica's serving state; the roles clocked by 3FS's producers; and      *)
(* whether the two readings of Mooncake's file system (dfs) name the same  *)
(* client, different ones, or none.  Its writes are judged as its reads,   *)
(* and the straggler among participants is left out.                       *)
(***************************************************************************)
EXTENDS Integers, Sequences, FiniteSets, FiniteSetsExt

Rule(component, scope, capped, trigger, checks) ==
  [component |-> component, scope |-> scope, capped |-> capped, trigger |-> trigger, checks |-> checks]

(* A rule is looked at when its trigger holds; its checks are what a       *)
(* strong signal needs.                                                    *)
RuleBook ==
  [storage_queue_saturation |-> Rule("storage", "mixed", FALSE, {"threefs_p99", "device_busy"},
      [threefs_p99 |-> "raised", device_busy |-> "high", threefs_throughput |-> "plateau"]),
   device_limited_storage |-> Rule("storage", "mixed", FALSE, {"threefs_p99", "device_busy"},
      [threefs_p99 |-> "raised", device_busy |-> "high", network_utilization |-> "headroom"]),
   network_limited_storage |-> Rule("storage", "mixed", FALSE, {"threefs_p99", "network_utilization"},
      [threefs_p99 |-> "raised", network_utilization |-> "high", device_busy |-> "headroom"]),
   small_io_pressure |-> Rule("storage", "shared-service", FALSE, {"threefs_p99"},
      [request_bytes |-> "low", threefs_p99 |-> "raised"]),
   gpu_starvation |-> Rule("compute", "mixed", FALSE, {"step"},
      [step |-> "raised", gpu_utilization |-> "dropped", vllm_waiting |-> "high"]),
   gpu_memory_pressure |-> Rule("compute", "device", FALSE, {"gpu_memory"},
      [gpu_memory |-> "high", gpu_evictions |-> "high"]),
   rollout_queue_backlog |-> Rule("rollout", "mixed", FALSE, {"rollout"},
      [rollout |-> "raised", vllm_waiting |-> "high"]),
   kv_cache_pressure |-> Rule("rollout", "service", FALSE, {"vllm_kv"},
      [vllm_kv |-> "high", vllm_preemptions |-> "high", vllm_waiting |-> "high"]),
   communication_bound |-> Rule("network", "mixed", FALSE, {"communication"},
      [communication |-> "raised", rdma_bytes |-> "raised", gpu_utilization |-> "dropped"]),
   host_memory_pressure |-> Rule("host", "node", FALSE, {"host_memory"},
      [host_memory |-> "low", host_swap |-> "high"]),
   host_cpu_stalls |-> Rule("host", "mixed", TRUE, {"step", "cpu_pressure"},
      [step |-> "raised", cpu_pressure |-> "high"]),
   host_memory_stalls |-> Rule("host", "mixed", TRUE, {"step", "memory_pressure"},
      [step |-> "raised", memory_pressure |-> "high"]),
   host_io_stalls |-> Rule("host", "mixed", TRUE, {"step", "io_pressure"},
      [step |-> "raised", io_pressure |-> "high"]),
   ray_object_store_disk_pressure |-> Rule("ray", "mixed", TRUE, {"step", "ray_mmap"},
      [step |-> "raised", ray_mmap |-> "high"]),
   actor_update_cpu_stalls |-> Rule("host", "mixed", TRUE, {"actor_update", "cpu_pressure"},
      [actor_update |-> "raised", cpu_pressure |-> "high"]),
   critic_update_cpu_stalls |-> Rule("host", "mixed", TRUE, {"critic_update", "cpu_pressure"},
      [critic_update |-> "raised", cpu_pressure |-> "high"]),
   checkpoint_io_stalls |-> Rule("host", "mixed", TRUE, {"checkpoint", "io_pressure"},
      [checkpoint |-> "raised", io_pressure |-> "high"]),
   mooncake_dfs_read_pressure |-> Rule("storage", "mixed", TRUE, {"step"},
      [step |-> "raised", dfs_latency |-> "raised", dfs_errors |-> "positive"]),
   rollout_queue_latency |-> Rule("rollout", "mixed", TRUE, {"rollout", "vllm_queue"},
      [rollout |-> "raised", vllm_queue |-> "raised"]),
   sandbox_local_storage_pressure |-> Rule("sandbox", "mixed", TRUE, {"tool"},
      [tool |-> "raised", sandbox_io |-> "high", sandbox_busy |-> "high"])]

Signals == (UNION {DOMAIN RuleBook[r].checks : r \in DOMAIN RuleBook}) \cup {"ray_pending", "policy_lag", "disk_busy"}
Durations == {"step", "rollout", "communication", "actor_update", "critic_update", "checkpoint"}
BaselineRequired ==
  Durations \cup {"gpu_utilization", "threefs_p99", "threefs_throughput", "tool", "vllm_queue", "dfs_latency", "rdma_bytes"}
Dfs == {"dfs_latency", "dfs_errors"}
Storage == {"threefs_p99", "request_bytes"}
ServiceSignals == {"vllm_waiting", "vllm_kv", "vllm_preemptions", "vllm_queue"}

-----------------------------------------------------------------------------
(* analyze: how far the clocks of this and of the baseline's window are    *)
(* known.  An unregistered node that was observed is one more doubt.       *)
Doubt(status) == IF status = "unsafe" THEN "unsafe" ELSE "unknown"

ClockStatus(x) == IF x.configured /\ x.nodes THEN x.clock ELSE Doubt(x.clock)
BaselineStatus(x) ==
  IF ~x.sessions THEN "unknown" ELSE IF x.configured THEN x.baseline ELSE Doubt(x.baseline)

TimingUsable(x) == {ClockStatus(x), BaselineStatus(x)} \subseteq {"aligned", "unchecked"}

(* What may be used of a signal in a role: nothing stale, of 3FS only what *)
(* producers with a verified clock reported, a latency only against a      *)
(* baseline with the same exposure, and of a replica that changed between  *)
(* the windows no baseline.                                                *)
Usable(x, signal, role) ==
  LET o == x.signals[signal]
      ok == /\ role \notin o.stale
            /\ signal \in Storage => role \in x.clocked
            /\ role = "before" =>
                 /\ signal = "threefs_p99" => x.comparable
                 /\ signal \in ServiceSignals => x.serving # "changed"
  IN  IF ok THEN o[role] ELSE <<>>

Available(x, signal) == [now |-> Usable(x, signal, "now"), before |-> Usable(x, signal, "before")]

Holds(test, o) ==
  /\ o.now # <<>>
  /\ CASE test = "high" -> o.now[1] >= 2
       [] test = "positive" -> o.now[1] > 0
       [] test = "low" -> o.now[1] <= 0
       [] test = "headroom" -> o.now[1] < 2
       [] test = "raised" -> o.before # <<>> /\ o.before[1] > 0 /\ o.now[1] >= 2 * o.before[1]
       [] test = "dropped" -> o.before # <<>> /\ o.before[1] - o.now[1] >= 1
       [] test = "plateau" -> o.before # <<>> /\ o.before[1] > 0 /\ o.now[1] <= o.before[1]

(* evaluate_rules: neither the resource that has headroom, which does not  *)
(* prove the path, nor a reading of another client is counted as observed. *)
Other(x) == IF Holds("raised", Available(x, "dfs_latency")) THEN "dfs_errors" ELSE "dfs_latency"

Unlinked(id, x) ==
  LET checks == RuleBook[id].checks
  IN  {s \in DOMAIN checks : checks[s] = "headroom"}
      \cup {s \in DOMAIN checks \cap {Other(x)} : x.dfs # "same" /\ Available(x, s).now # <<>>}

Observed(id, x) ==
  LET checks == RuleBook[id].checks
  IN  {s \in DOMAIN checks \ Unlinked(id, x) : Holds(checks[s], Available(x, s))}
Missing(id, x) ==
  LET checks == RuleBook[id].checks
  IN  Unlinked(id, x) \cup {s \in DOMAIN checks : Available(x, s).now = <<>>}
                     \cup {s \in DOMAIN checks \cap BaselineRequired : Available(x, s).before = <<>>}
Contrary(id, x) == DOMAIN RuleBook[id].checks \ (Observed(id, x) \cup Missing(id, x))

Triggered(id, x) ==
  /\ \A s \in RuleBook[id].trigger : Holds(RuleBook[id].checks[s], Available(x, s))
  /\ id = "small_io_pressure" => Available(x, "request_bytes").now # <<>>
  /\ Dfs \subseteq DOMAIN RuleBook[id].checks =>
       Holds("raised", Available(x, "dfs_latency")) \/ Holds("positive", Available(x, "dfs_errors"))

(* What a bug would do: only a supporting signal is capped.                *)
CapLate(state, limited) == IF limited /\ state = "supporting" THEN "weak" ELSE state
Cap(state, limited) == IF limited /\ state = "strong" THEN "supporting" ELSE state

RuleState(id, x) ==
  LET r        == RuleBook[id]
      observed == Observed(id, x)
      state    == IF observed = DOMAIN r.checks /\ Missing(id, x) = {} THEN "strong"
                  ELSE IF Cardinality(observed) >= 2 THEN "supporting" ELSE "weak"
  IN  IF x.dfs = "anonymous" /\ observed \cap Dfs # {} THEN "weak"
      ELSE Cap(state, r.capped \/ (r.component = "storage" /\ r.scope = "mixed"))

(* The caps, in the order of analyze: 3FS's collection, the workload's     *)
(* comparability, the sampling of evidence and of counter-evidence, the    *)
(* dispersion of the baselines, the replica that serves, and the clocks of *)
(* the storage's producers.                                                *)
ComparableClocks(x) == {"now", "before"} \subseteq x.clocked

Serve(id, state, x, evidence) ==
  LET served == evidence \cap ServiceSignals # {}
      idle   == id = "gpu_starvation" /\ "gpu_utilization" \in evidence
  IN  CASE served /\ x.serving = "inactive" -> "weak"
        [] served /\ x.serving \in {"unregistered", "transition"} -> Cap(state, TRUE)
        [] OTHER -> Cap(state, idle /\ x.serving \in {"inactive", "transition"})

CandidateState(id, x) ==
  LET evidence  == Observed(id, x)
      against   == {s \in evidence : Available(x, s).before # <<>>}
      storage   == \E s \in evidence : s \in {"threefs_p99", "threefs_throughput"}
      sampled   == Cap(Cap(Cap(RuleState(id, x), x.series /\ storage),
                           ~x.matched /\ against \cap Durations # {}),
                       \E s \in evidence \cup Contrary(id, x) : x.signals[s].doubted \cup x.signals[s].stale # {})
      dispersed == Cap(sampled, x.robust \notin {"off", "shift"} /\ against \cap Durations # {})
  IN  Cap(Serve(id, dispersed, x, evidence), storage /\ ~ComparableClocks(x))

Candidates(x) ==
  IF ~x.step \/ ~TimingUsable(x) THEN {}
  ELSE {id \in DOMAIN RuleBook : Triggered(id, x) /\ Observed(id, x) # {}}

-----------------------------------------------------------------------------
(* legacy_findings: thresholds on this window alone, and 3FS's latency     *)
(* against its baseline where the clocks of both are known.                *)
Inactive(x) == x.serving = "inactive"
Finding(x, signal, test) ==
  LET o == x.signals[signal]
  IN  "now" \notin o.stale /\ ~(signal \in ServiceSignals /\ Inactive(x)) /\ Holds(test, o)

Findings(x) ==
  IF ~TimingUsable(x) THEN {}
  ELSE {component \in {"vllm", "ray", "verl_async", "host", "3fs"} :
          CASE component = "vllm" -> \E s \in {"vllm_waiting", "vllm_kv", "vllm_preemptions"} : Finding(x, s, "high")
            [] component = "ray" -> Finding(x, "ray_pending", "high")
            [] component = "verl_async" -> Finding(x, "policy_lag", "high")
            [] component = "host" -> Finding(x, "host_memory", "low") \/ Finding(x, "disk_busy", "high")
            [] component = "3fs" -> ComparableClocks(x) /\ x.comparable /\ Holds("raised", x.signals["threefs_p99"])}

External(x) ==
  {s \in Signals \ (Durations \cup Storage) : x.signals[s].now # <<>> /\ "now" \notin x.signals[s].stale}
  \cup {s \in Storage : x.signals[s].now # <<>> /\ "now" \in x.clocked}

Verdict(x) ==
  IF ~TimingUsable(x) \/ (External(x) = {} /\ Candidates(x) = {}) THEN "insufficient_data"
  ELSE IF Findings(x) \cup Candidates(x) # {} THEN "bottleneck_suspected" ELSE "no_anomaly_observed"

-----------------------------------------------------------------------------
(* A strong signal is one whose every check holds on usable observations   *)
(* of undoubted sampling, of a comparable workload and a serving replica.  *)
StrongIsEarned(x) ==
  \A id \in Candidates(x) :
    CandidateState(id, x) = "strong" =>
      \A s \in DOMAIN RuleBook[id].checks :
        /\ Holds(RuleBook[id].checks[s], x.signals[s])
        /\ x.signals[s].stale = {} /\ x.signals[s].doubted = {}
        /\ s \in Durations => x.matched /\ x.robust \in {"off", "shift"}
        /\ s \in ServiceSignals => x.serving \notin {"inactive", "transition", "unregistered"}
        /\ s \in Storage => ComparableClocks(x) /\ x.comparable

(* Evidence that is lost, doubted or found stale never strengthens a       *)
(* candidate, nor does a doubt about the clocks; but for what an inactive  *)
(* replica reports, whose presence is what makes the candidate weak.       *)
Rank(state) == CASE state = "weak" -> 1 [] state = "supporting" -> 2 [] state = "strong" -> 3
Strengths(x) == [id \in Candidates(x) |-> Rank(CandidateState(id, x))]

Discredited(x) == IF x.serving = "inactive" THEN ServiceSignals ELSE {}

Weaker(x) ==
  {[x EXCEPT !.signals[s].now = <<>>] : s \in {t \in Signals : x.signals[t].now # <<>>} \ Discredited(x)}
  \cup {[x EXCEPT !.signals[s].before = <<>>] : s \in {t \in Signals : x.signals[t].before # <<>>}}
  \cup {[x EXCEPT !.signals[s].stale = @ \cup {"now"}] :
           s \in {t \in Signals \ (Durations \cup Storage) : x.signals[t].now # <<>>} \ Discredited(x)}
  \cup {[x EXCEPT !.matched = FALSE], [x EXCEPT !.nodes = FALSE], [x EXCEPT !.clocked = {}],
        [x EXCEPT !.sessions = FALSE]}

DoubtNeverStrengthens(x) ==
  LET strengths == Strengths(x)
  IN  \A y \in Weaker(x) :
        LET weaker == Strengths(y)
        IN  \A id \in DOMAIN weaker : id \in DOMAIN strengths /\ weaker[id] <= strengths[id]

(* A bottleneck is suspected only on aligned clocks and on something that  *)
(* was observed, and no report lists findings for which it had no data.    *)
VerdictHasGrounds(x) ==
  /\ Verdict(x) = "bottleneck_suspected" =>
       /\ TimingUsable(x)
       /\ \E s \in Signals : x.signals[s].now # <<>> /\ "now" \notin x.signals[s].stale
  /\ Verdict(x) = "insufficient_data" => Findings(x) = {} /\ Candidates(x) = {}
=============================================================================
