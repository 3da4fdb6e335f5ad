------------------------- MODULE MCDecisionsProofs -------------------------
(***************************************************************************)
(* The verdict is cautious whatever the report: MCDecisions enumerates the *)
(* levels of one rule's signals at a time and one doubt, here every signal *)
(* has any levels and any of it may be missing or doubted.                 *)
(***************************************************************************)
EXTENDS MCDecisions, FiniteSetTheorems, TLAPS

-----------------------------------------------------------------------------
(* The rules, one by one: what they test, and how.                         *)
Tests == {"high", "positive", "low", "headroom", "raised", "dropped", "plateau"}
Relative == {"raised", "dropped", "plateau"}
Few(S) == \E a, b, c : S = {a, b, c}
Rules == DOMAIN Report!RuleBook

(* Some rules by name, and signals they look at.                           *)
Looks(id) ==
  CASE id = "gpu_starvation" -> {"step", "gpu_utilization"}
    [] id = "rollout_queue_backlog" -> {"rollout"}
    [] id = "communication_bound" -> {"communication"}
    [] id = "actor_update_cpu_stalls" -> {"actor_update"}
    [] id = "critic_update_cpu_stalls" -> {"critic_update"}
    [] id = "checkpoint_io_stalls" -> {"checkpoint"}
    [] id = "small_io_pressure" -> {"request_bytes", "threefs_p99"}
    [] id = "host_memory_pressure" -> {"host_memory"}
    [] id = "kv_cache_pressure" -> {"vllm_waiting", "vllm_kv", "vllm_preemptions"}
    [] id = "rollout_queue_latency" -> {"vllm_queue"}
    [] OTHER -> {}

(* What the proofs use of a rule.                                          *)
Made(id, r) ==
  /\ Few(DOMAIN r.checks) /\ r.trigger \subseteq DOMAIN r.checks /\ Looks(id) \subseteq DOMAIN r.checks
  /\ \A s \in DOMAIN r.checks : r.checks[s] \in Tests
  /\ \A s \in DOMAIN r.checks \cap Report!ServiceSignals : r.checks[s] \in Relative => s \in r.trigger
  /\ DOMAIN r.checks \cap Report!Storage # {} => "threefs_p99" \in DOMAIN r.checks /\ r.checks["threefs_p99"] = "raised"
  /\ DOMAIN r.checks \cap Report!Dfs # {} =>
       /\ r.capped /\ r.trigger = {"step"}
       /\ r.checks = [step |-> "raised", dfs_latency |-> "raised", dfs_errors |-> "positive"]

(* Three at most, so that they can be counted.                             *)
LEMMA FewAre == \A a, b, c : Few({a, b, c}) /\ Few({a, b})
<1>. TAKE a, b, c
<1>1. {a, b} = {a, b, b}
  OBVIOUS
<1>. QED
  BY <1>1 DEF Few

LEMMA EachIsMade == ASSUME NEW id \in Rules PROVE Made(id, Report!RuleBook[id])
<1>1. CASE id = "storage_queue_saturation"
  <2>1. Report!RuleBook[id] = Report!Rule("storage", "mixed", FALSE, {"threefs_p99", "device_busy"},
                                [threefs_p99 |-> "raised", device_busy |-> "high", threefs_throughput |-> "plateau"])
    BY <1>1 DEF Report!RuleBook
  <2>2. Few({"threefs_p99", "device_busy", "threefs_throughput"})
    BY FewAre, Zenon
  <2>. QED
    BY <1>1, <2>1, <2>2 DEF Made, Report!Rule, Tests, Relative, Looks, Report!ServiceSignals, Report!Storage, Report!Dfs
<1>2. CASE id = "device_limited_storage"
  <2>1. Report!RuleBook[id] = Report!Rule("storage", "mixed", FALSE, {"threefs_p99", "device_busy"},
                                [threefs_p99 |-> "raised", device_busy |-> "high", network_utilization |-> "headroom"])
    BY <1>2 DEF Report!RuleBook
  <2>2. Few({"threefs_p99", "device_busy", "network_utilization"})
    BY FewAre, Zenon
  <2>. QED
    BY <1>2, <2>1, <2>2 DEF Made, Report!Rule, Tests, Relative, Looks, Report!ServiceSignals, Report!Storage, Report!Dfs
<1>3. CASE id = "network_limited_storage"
  <2>1. Report!RuleBook[id] = Report!Rule("storage", "mixed", FALSE, {"threefs_p99", "network_utilization"},
                                [threefs_p99 |-> "raised", network_utilization |-> "high", device_busy |-> "headroom"])
    BY <1>3 DEF Report!RuleBook
  <2>2. Few({"threefs_p99", "network_utilization", "device_busy"})
    BY FewAre, Zenon
  <2>. QED
    BY <1>3, <2>1, <2>2 DEF Made, Report!Rule, Tests, Relative, Looks, Report!ServiceSignals, Report!Storage, Report!Dfs
<1>4. CASE id = "small_io_pressure"
  <2>1. Report!RuleBook[id] = Report!Rule("storage", "shared-service", FALSE, {"threefs_p99"},
                                [request_bytes |-> "low", threefs_p99 |-> "raised"])
    BY <1>4 DEF Report!RuleBook
  <2>2. Few({"request_bytes", "threefs_p99"})
    BY FewAre, Zenon
  <2>. QED
    BY <1>4, <2>1, <2>2 DEF Made, Report!Rule, Tests, Relative, Looks, Report!ServiceSignals, Report!Storage, Report!Dfs
<1>5. CASE id = "gpu_starvation"
  <2>1. Report!RuleBook[id] = Report!Rule("compute", "mixed", FALSE, {"step"},
                                [step |-> "raised", gpu_utilization |-> "dropped", vllm_waiting |-> "high"])
    BY <1>5 DEF Report!RuleBook
  <2>2. Few({"step", "gpu_utilization", "vllm_waiting"})
    BY FewAre, Zenon
  <2>. QED
    BY <1>5, <2>1, <2>2 DEF Made, Report!Rule, Tests, Relative, Looks, Report!ServiceSignals, Report!Storage, Report!Dfs
<1>6. CASE id = "gpu_memory_pressure"
  <2>1. Report!RuleBook[id] = Report!Rule("compute", "device", FALSE, {"gpu_memory"},
                                [gpu_memory |-> "high", gpu_evictions |-> "high"])
    BY <1>6 DEF Report!RuleBook
  <2>2. Few({"gpu_memory", "gpu_evictions"})
    BY FewAre, Zenon
  <2>. QED
    BY <1>6, <2>1, <2>2 DEF Made, Report!Rule, Tests, Relative, Looks, Report!ServiceSignals, Report!Storage, Report!Dfs
<1>7. CASE id = "rollout_queue_backlog"
  <2>1. Report!RuleBook[id] = Report!Rule("rollout", "mixed", FALSE, {"rollout"},
                                [rollout |-> "raised", vllm_waiting |-> "high"])
    BY <1>7 DEF Report!RuleBook
  <2>2. Few({"rollout", "vllm_waiting"})
    BY FewAre, Zenon
  <2>. QED
    BY <1>7, <2>1, <2>2 DEF Made, Report!Rule, Tests, Relative, Looks, Report!ServiceSignals, Report!Storage, Report!Dfs
<1>8. CASE id = "kv_cache_pressure"
  <2>1. Report!RuleBook[id] = Report!Rule("rollout", "service", FALSE, {"vllm_kv"},
                                [vllm_kv |-> "high", vllm_preemptions |-> "high", vllm_waiting |-> "high"])
    BY <1>8 DEF Report!RuleBook
  <2>2. Few({"vllm_kv", "vllm_preemptions", "vllm_waiting"})
    BY FewAre, Zenon
  <2>. QED
    BY <1>8, <2>1, <2>2 DEF Made, Report!Rule, Tests, Relative, Looks, Report!ServiceSignals, Report!Storage, Report!Dfs
<1>9. CASE id = "communication_bound"
  <2>1. Report!RuleBook[id] = Report!Rule("network", "mixed", FALSE, {"communication"},
                                [communication |-> "raised", rdma_bytes |-> "raised", gpu_utilization |-> "dropped"])
    BY <1>9 DEF Report!RuleBook
  <2>2. Few({"communication", "rdma_bytes", "gpu_utilization"})
    BY FewAre, Zenon
  <2>. QED
    BY <1>9, <2>1, <2>2 DEF Made, Report!Rule, Tests, Relative, Looks, Report!ServiceSignals, Report!Storage, Report!Dfs
<1>10. CASE id = "host_memory_pressure"
  <2>1. Report!RuleBook[id] = Report!Rule("host", "node", FALSE, {"host_memory"},
                                [host_memory |-> "low", host_swap |-> "high"])
    BY <1>10 DEF Report!RuleBook
  <2>2. Few({"host_memory", "host_swap"})
    BY FewAre, Zenon
  <2>. QED
    BY <1>10, <2>1, <2>2 DEF Made, Report!Rule, Tests, Relative, Looks, Report!ServiceSignals, Report!Storage, Report!Dfs
<1>11. CASE id = "host_cpu_stalls"
  <2>1. Report!RuleBook[id] = Report!Rule("host", "mixed", TRUE, {"step", "cpu_pressure"},
                                [step |-> "raised", cpu_pressure |-> "high"])
    BY <1>11 DEF Report!RuleBook
  <2>2. Few({"step", "cpu_pressure"})
    BY FewAre, Zenon
  <2>. QED
    BY <1>11, <2>1, <2>2 DEF Made, Report!Rule, Tests, Relative, Looks, Report!ServiceSignals, Report!Storage, Report!Dfs
<1>12. CASE id = "host_memory_stalls"
  <2>1. Report!RuleBook[id] = Report!Rule("host", "mixed", TRUE, {"step", "memory_pressure"},
                                [step |-> "raised", memory_pressure |-> "high"])
    BY <1>12 DEF Report!RuleBook
  <2>2. Few({"step", "memory_pressure"})
    BY FewAre, Zenon
  <2>. QED
    BY <1>12, <2>1, <2>2 DEF Made, Report!Rule, Tests, Relative, Looks, Report!ServiceSignals, Report!Storage, Report!Dfs
<1>13. CASE id = "host_io_stalls"
  <2>1. Report!RuleBook[id] = Report!Rule("host", "mixed", TRUE, {"step", "io_pressure"},
                                [step |-> "raised", io_pressure |-> "high"])
    BY <1>13 DEF Report!RuleBook
  <2>2. Few({"step", "io_pressure"})
    BY FewAre, Zenon
  <2>. QED
    BY <1>13, <2>1, <2>2 DEF Made, Report!Rule, Tests, Relative, Looks, Report!ServiceSignals, Report!Storage, Report!Dfs
<1>14. CASE id = "ray_object_store_disk_pressure"
  <2>1. Report!RuleBook[id] = Report!Rule("ray", "mixed", TRUE, {"step", "ray_mmap"},
                                [step |-> "raised", ray_mmap |-> "high"])
    BY <1>14 DEF Report!RuleBook
  <2>2. Few({"step", "ray_mmap"})
    BY FewAre, Zenon
  <2>. QED
    BY <1>14, <2>1, <2>2 DEF Made, Report!Rule, Tests, Relative, Looks, Report!ServiceSignals, Report!Storage, Report!Dfs
<1>15. CASE id = "actor_update_cpu_stalls"
  <2>1. Report!RuleBook[id] = Report!Rule("host", "mixed", TRUE, {"actor_update", "cpu_pressure"},
                                [actor_update |-> "raised", cpu_pressure |-> "high"])
    BY <1>15 DEF Report!RuleBook
  <2>2. Few({"actor_update", "cpu_pressure"})
    BY FewAre, Zenon
  <2>. QED
    BY <1>15, <2>1, <2>2 DEF Made, Report!Rule, Tests, Relative, Looks, Report!ServiceSignals, Report!Storage, Report!Dfs
<1>16. CASE id = "critic_update_cpu_stalls"
  <2>1. Report!RuleBook[id] = Report!Rule("host", "mixed", TRUE, {"critic_update", "cpu_pressure"},
                                [critic_update |-> "raised", cpu_pressure |-> "high"])
    BY <1>16 DEF Report!RuleBook
  <2>2. Few({"critic_update", "cpu_pressure"})
    BY FewAre, Zenon
  <2>. QED
    BY <1>16, <2>1, <2>2 DEF Made, Report!Rule, Tests, Relative, Looks, Report!ServiceSignals, Report!Storage, Report!Dfs
<1>17. CASE id = "checkpoint_io_stalls"
  <2>1. Report!RuleBook[id] = Report!Rule("host", "mixed", TRUE, {"checkpoint", "io_pressure"},
                                [checkpoint |-> "raised", io_pressure |-> "high"])
    BY <1>17 DEF Report!RuleBook
  <2>2. Few({"checkpoint", "io_pressure"})
    BY FewAre, Zenon
  <2>. QED
    BY <1>17, <2>1, <2>2 DEF Made, Report!Rule, Tests, Relative, Looks, Report!ServiceSignals, Report!Storage, Report!Dfs
<1>18. CASE id = "mooncake_dfs_read_pressure"
  <2>1. Report!RuleBook[id] = Report!Rule("storage", "mixed", TRUE, {"step"},
                                [step |-> "raised", dfs_latency |-> "raised", dfs_errors |-> "positive"])
    BY <1>18 DEF Report!RuleBook
  <2>2. Few({"step", "dfs_latency", "dfs_errors"})
    BY FewAre, Zenon
  <2>. QED
    BY <1>18, <2>1, <2>2 DEF Made, Report!Rule, Tests, Relative, Looks, Report!ServiceSignals, Report!Storage, Report!Dfs
<1>19. CASE id = "rollout_queue_latency"
  <2>1. Report!RuleBook[id] = Report!Rule("rollout", "mixed", TRUE, {"rollout", "vllm_queue"},
                                [rollout |-> "raised", vllm_queue |-> "raised"])
    BY <1>19 DEF Report!RuleBook
  <2>2. Few({"rollout", "vllm_queue"})
    BY FewAre, Zenon
  <2>. QED
    BY <1>19, <2>1, <2>2 DEF Made, Report!Rule, Tests, Relative, Looks, Report!ServiceSignals, Report!Storage, Report!Dfs
<1>20. CASE id = "sandbox_local_storage_pressure"
  <2>1. Report!RuleBook[id] = Report!Rule("sandbox", "mixed", TRUE, {"tool"},
                                [tool |-> "raised", sandbox_io |-> "high", sandbox_busy |-> "high"])
    BY <1>20 DEF Report!RuleBook
  <2>2. Few({"tool", "sandbox_io", "sandbox_busy"})
    BY FewAre, Zenon
  <2>. QED
    BY <1>20, <2>1, <2>2 DEF Made, Report!Rule, Tests, Relative, Looks, Report!ServiceSignals, Report!Storage, Report!Dfs
<1>21. id \in {"storage_queue_saturation", "device_limited_storage", "network_limited_storage", "small_io_pressure",
          "gpu_starvation", "gpu_memory_pressure", "rollout_queue_backlog", "kv_cache_pressure",
          "communication_bound", "host_memory_pressure", "host_cpu_stalls", "host_memory_stalls",
          "host_io_stalls", "ray_object_store_disk_pressure", "actor_update_cpu_stalls", "critic_update_cpu_stalls",
          "checkpoint_io_stalls", "mooncake_dfs_read_pressure", "rollout_queue_latency", "sandbox_local_storage_pressure"}
  BY DEF Rules, Report!RuleBook
<1>. QED
  BY <1>1, <1>2, <1>3, <1>4, <1>5, <1>6, <1>7, <1>8, <1>9, <1>10, <1>11, <1>12, <1>13, <1>14, <1>15, <1>16, <1>17, <1>18, <1>19, <1>20, <1>21

-----------------------------------------------------------------------------
(* Any report: its levels are numbers, and of 3FS and of a duration no     *)
(* time lies outside the window.                                           *)
Optional == {<<>>} \cup {<<level>> : level \in Int}
Roles == {"now", "before"}
Measurements == [now : Optional, before : Optional, stale : SUBSET Roles, doubted : SUBSET Roles]
Statuses == {"aligned", "unchecked", "unknown", "unsafe"}
Dispersions == {"off", "shift", "within", "insufficient", "unverified"}
Servings == {"active", "inactive", "transition", "unregistered", "changed", "unknown"}
Forms ==
  [kind : {"report"}, step : BOOLEAN, clock : Statuses, baseline : Statuses, configured : BOOLEAN,
   sessions : BOOLEAN, nodes : BOOLEAN, matched : BOOLEAN, series : BOOLEAN, robust : Dispersions,
   serving : Servings, comparable : BOOLEAN, clocked : SUBSET Roles, dfs : {"same", "other", "anonymous"},
   signals : [Report!Signals -> Measurements]]
Reports == {x \in Forms : \A s \in Report!Durations \cup Report!Storage : x.signals[s].stale = {}}

ChecksOf(id) == Report!RuleBook[id].checks

LEMMA RuleSignals == \A id \in Rules : DOMAIN ChecksOf(id) \subseteq Report!Signals
BY DEF Rules, ChecksOf, Report!Signals

LEMMA RuleIsWellMade ==
  ASSUME NEW id \in Rules
  PROVE  /\ Report!RuleBook[id].trigger \subseteq DOMAIN ChecksOf(id) /\ IsFiniteSet(DOMAIN ChecksOf(id))
         /\ \A s \in DOMAIN ChecksOf(id) : ChecksOf(id)[s] \in Tests
<1>1. Made(id, Report!RuleBook[id])
  BY EachIsMade
<1>2. PICK a, b, c : DOMAIN ChecksOf(id) = {a, b, c}
  BY <1>1 DEF Made, Few, ChecksOf
<1>3. IsFiniteSet({a, b, c})
  <2>1. IsFiniteSet({a, b})
    <3>1. IsFiniteSet({a}) /\ {a} \cup {b} = {a, b}
      BY FS_Singleton, Zenon
    <3>. QED
      BY <3>1, FS_AddElement
  <2>2. {a, b} \cup {c} = {a, b, c}
    OBVIOUS
  <2>. QED
    BY <2>1, <2>2, FS_AddElement
<1>. QED
  BY <1>1, <1>2, <1>3 DEF Made, ChecksOf

LEMMA UnruledHere == {"ray_pending", "policy_lag", "disk_busy"} \subseteq Report!Signals
<1>. DEFINE ruled == UNION {DOMAIN Report!RuleBook[r].checks : r \in DOMAIN Report!RuleBook}
<1>1. Report!Signals = ruled \cup {"ray_pending", "policy_lag", "disk_busy"}
  BY DEF Report!Signals
<1>. HIDE DEF ruled
<1>. QED
  BY <1>1

LEMMA SignalsHere ==
  /\ Report!Durations \cup Report!Storage \cup Report!ServiceSignals \subseteq Report!Signals
  /\ {"host_memory", "ray_pending", "policy_lag", "disk_busy"} \subseteq Report!Signals
<1>1. {"gpu_starvation", "rollout_queue_backlog", "communication_bound", "actor_update_cpu_stalls",
       "critic_update_cpu_stalls", "checkpoint_io_stalls", "small_io_pressure", "host_memory_pressure",
       "kv_cache_pressure", "rollout_queue_latency"} \subseteq Rules
  BY DEF Rules, Report!RuleBook
<1>2. \A id \in Rules : Looks(id) \subseteq Report!Signals
  BY EachIsMade, RuleSignals DEF Made, ChecksOf
<1>3. /\ "step" \in Looks("gpu_starvation") /\ "rollout" \in Looks("rollout_queue_backlog")
      /\ "communication" \in Looks("communication_bound") /\ "actor_update" \in Looks("actor_update_cpu_stalls")
      /\ "critic_update" \in Looks("critic_update_cpu_stalls") /\ "checkpoint" \in Looks("checkpoint_io_stalls")
  BY DEF Looks
<1>4. /\ {"request_bytes", "threefs_p99"} \subseteq Looks("small_io_pressure")
      /\ "host_memory" \in Looks("host_memory_pressure") /\ "vllm_queue" \in Looks("rollout_queue_latency")
      /\ {"vllm_waiting", "vllm_kv", "vllm_preemptions"} \subseteq Looks("kv_cache_pressure")
  BY DEF Looks
<1>5. {"step", "rollout", "communication", "actor_update", "critic_update", "checkpoint"} \subseteq Report!Signals
  BY <1>1, <1>2, <1>3
<1>6. {"request_bytes", "threefs_p99", "host_memory", "vllm_queue", "vllm_waiting", "vllm_kv", "vllm_preemptions"}
        \subseteq Report!Signals
  BY <1>1, <1>2, <1>4
<1>. QED
  BY <1>5, <1>6, UnruledHere DEF Report!Durations, Report!Storage, Report!ServiceSignals

(* A test that holds on less holds on more.                                *)
LEMMA HoldsOnMore ==
  ASSUME NEW test \in Tests, NEW o, NEW q, q.now \in {<<>>, o.now}, q.before \in {<<>>, o.before},
         Report!Holds(test, q)
  PROVE  /\ Report!Holds(test, o) /\ q.now = o.now /\ o.now # <<>>
         /\ test \in Relative => q.before = o.before /\ o.before # <<>>
BY DEF Report!Holds, Tests, Relative

LEMMA HoldsBy ==
  ASSUME NEW test \in Tests, NEW o, Report!Holds(test, o)
  PROVE  o.now # <<>> /\ (test \in Relative => o.before # <<>>)
BY HoldsOnMore

LEMMA HoldsNow ==
  ASSUME NEW test \in Tests, test \notin Relative, NEW o, NEW q, q.now = o.now, Report!Holds(test, o)
  PROVE  Report!Holds(test, q)
BY DEF Report!Holds, Tests, Relative

LEMMA CountedVerdict == \A S : Report!Cardinality(S) = Cardinality(S)
BY DEF Report!Cardinality, Cardinality

(* What RuleState and the caps after it come to: a candidate is weak when  *)
(* it has Fallen, and of the others strong when every check of its rule is *)
(* observed and nothing has Limited it.                                    *)
Sound(id, x) == Report!Observed(id, x) = DOMAIN ChecksOf(id) /\ Report!Missing(id, x) = {}
Against(id, x) == {s \in Report!Observed(id, x) : Report!Available(x, s).before # <<>>}
Timed(id, x) == \E s \in Report!Observed(id, x) : s \in {"threefs_p99", "threefs_throughput"}
Served(id, x) == Report!Observed(id, x) \cap Report!ServiceSignals # {}

Fallen(id, x) ==
  \/ x.dfs = "anonymous" /\ Report!Observed(id, x) \cap Report!Dfs # {}
  \/ Served(id, x) /\ x.serving = "inactive"
  \/ ~Sound(id, x) /\ ~(Cardinality(Report!Observed(id, x)) >= 2)

Limited(id, x) ==
  \/ Report!RuleBook[id].capped
  \/ Report!RuleBook[id].component = "storage" /\ Report!RuleBook[id].scope = "mixed"
  \/ x.series /\ Timed(id, x)
  \/ ~x.matched /\ Against(id, x) \cap Report!Durations # {}
  \/ \E s \in Report!Observed(id, x) \cup Report!Contrary(id, x) :
       x.signals[s].doubted \cup x.signals[s].stale # {}
  \/ x.robust \notin {"off", "shift"} /\ Against(id, x) \cap Report!Durations # {}
  \/ Served(id, x) /\ x.serving \in {"unregistered", "transition"}
  \/ /\ id = "gpu_starvation" /\ "gpu_utilization" \in Report!Observed(id, x)
     /\ x.serving \in {"inactive", "transition"}
  \/ Timed(id, x) /\ ~Report!ComparableClocks(x)

LEMMA StateIs ==
  ASSUME NEW id, NEW x
  PROVE  Report!CandidateState(id, x) =
           IF Fallen(id, x) THEN "weak" ELSE IF Sound(id, x) /\ ~Limited(id, x) THEN "strong" ELSE "supporting"
<1>. DEFINE r    == Report!RuleBook[id]
            held == Report!Observed(id, x)
            doubted == \E s \in held \cup Report!Contrary(id, x) : x.signals[s].doubted \cup x.signals[s].stale # {}
            timed == Against(id, x) \cap Report!Durations # {}
            base == Report!RuleState(id, x)
            sampled == Report!Cap(Report!Cap(Report!Cap(base, x.series /\ Timed(id, x)), ~x.matched /\ timed), doubted)
            dispersed == Report!Cap(sampled, x.robust \notin {"off", "shift"} /\ timed)
<1>1. Report!CandidateState(id, x) =
        Report!Cap(Report!Serve(id, dispersed, x, held), Timed(id, x) /\ ~Report!ComparableClocks(x))
  BY DEF Report!CandidateState, Timed, Against
<1>2. base = IF x.dfs = "anonymous" /\ held \cap Report!Dfs # {} THEN "weak"
             ELSE IF Sound(id, x)
             THEN (IF r.capped \/ (r.component = "storage" /\ r.scope = "mixed") THEN "supporting" ELSE "strong")
             ELSE IF Cardinality(held) >= 2 THEN "supporting" ELSE "weak"
  BY CountedVerdict DEF Report!RuleState, Sound, ChecksOf, Report!Cap
<1>3. dispersed = IF base = "strong" /\ ((x.series /\ Timed(id, x)) \/ (~x.matched /\ timed) \/ doubted
                                         \/ (x.robust \notin {"off", "shift"} /\ timed))
                  THEN "supporting" ELSE base
  BY DEF Report!Cap
<1>4. \A state \in {"weak", "supporting", "strong"} :
        Report!Serve(id, state, x, held) =
          IF Served(id, x) /\ x.serving = "inactive" THEN "weak"
          ELSE IF /\ state = "strong"
                  /\ \/ Served(id, x) /\ x.serving \in {"unregistered", "transition"}
                     \/ id = "gpu_starvation" /\ "gpu_utilization" \in held /\ x.serving \in {"inactive", "transition"}
          THEN "supporting" ELSE state
  BY DEF Report!Serve, Report!Cap, Served
<1>. HIDE DEF base, sampled, dispersed, held, timed, doubted
<1>5. dispersed \in {"weak", "supporting", "strong"}
  BY <1>2, <1>3
<1>6. Fallen(id, x) <=> \/ base = "weak" \/ (Served(id, x) /\ x.serving = "inactive")
  BY <1>2 DEF Fallen, held
<1>7. Limited(id, x) <=>
        \/ r.capped \/ (r.component = "storage" /\ r.scope = "mixed") \/ (x.series /\ Timed(id, x))
        \/ (~x.matched /\ timed) \/ doubted \/ (x.robust \notin {"off", "shift"} /\ timed)
        \/ (Served(id, x) /\ x.serving \in {"unregistered", "transition"})
        \/ (id = "gpu_starvation" /\ "gpu_utilization" \in held /\ x.serving \in {"inactive", "transition"})
        \/ (Timed(id, x) /\ ~Report!ComparableClocks(x))
  BY DEF Limited, held, timed, doubted
<1>. QED
  BY <1>1, <1>2, <1>3, <1>4, <1>5, <1>6, <1>7 DEF Report!Cap

-----------------------------------------------------------------------------
(* What is left of a report when something is doubted.                     *)
Less(y, x) ==
  /\ \A s \in Report!Signals :
       /\ \A role \in Roles : Report!Usable(y, s, role) \in {<<>>, Report!Usable(x, s, role)}
       /\ x.signals[s].stale \subseteq y.signals[s].stale /\ x.signals[s].doubted \subseteq y.signals[s].doubted
  /\ y.step = x.step /\ y.series = x.series /\ y.robust = x.robust /\ y.serving = x.serving /\ y.dfs = x.dfs
  /\ y.matched => x.matched
  /\ y.clocked \subseteq x.clocked
  /\ x.serving = "inactive" =>
       \A s \in Report!ServiceSignals : Report!Usable(y, s, "now") = Report!Usable(x, s, "now")
  /\ Report!TimingUsable(x)

LEMMA AvailableLess ==
  ASSUME NEW x, NEW y, Less(y, x), NEW s \in Report!Signals
  PROVE  /\ Report!Available(y, s).now \in {<<>>, Report!Available(x, s).now}
         /\ Report!Available(y, s).before \in {<<>>, Report!Available(x, s).before}
BY DEF Less, Roles, Report!Available

(* Whatever is taken from a report, less is left of it.                    *)
LEMMA Untimely ==
  ASSUME NEW x \in Reports
  PROVE  /\ ~Report!TimingUsable([x EXCEPT !.nodes = FALSE])
         /\ ~Report!TimingUsable([x EXCEPT !.sessions = FALSE])
<1>1. [x EXCEPT !.nodes = FALSE].nodes = FALSE /\ [x EXCEPT !.sessions = FALSE].sessions = FALSE
  BY DEF Reports, Forms
<1>. QED
  BY <1>1 DEF Report!TimingUsable, Report!ClockStatus, Report!BaselineStatus, Report!Doubt

LEMMA Unmatched ==
  ASSUME NEW x \in Reports, Report!TimingUsable([x EXCEPT !.matched = FALSE])
  PROVE  Less([x EXCEPT !.matched = FALSE], x)
<1>. DEFINE y == [x EXCEPT !.matched = FALSE]
<1>1. /\ y.signals = x.signals /\ y.step = x.step /\ y.series = x.series /\ y.robust = x.robust
      /\ y.serving = x.serving /\ y.dfs = x.dfs /\ y.clocked = x.clocked /\ y.comparable = x.comparable
      /\ y.clock = x.clock /\ y.baseline = x.baseline /\ y.configured = x.configured
      /\ y.nodes = x.nodes /\ y.sessions = x.sessions /\ y.matched = FALSE
  BY DEF Reports, Forms
<1>2. Report!TimingUsable(y)
  OBVIOUS
<1>. HIDE DEF y
<1>3. Report!TimingUsable(x)
  BY <1>1, <1>2 DEF Report!TimingUsable, Report!ClockStatus, Report!BaselineStatus, Report!Doubt
<1>4. \A s, role : Report!Usable(y, s, role) = Report!Usable(x, s, role)
  BY <1>1 DEF Report!Usable
<1>5. Less(y, x)
  BY <1>1, <1>3, <1>4 DEF Less
<1>. QED
  BY <1>5 DEF y

LEMMA Unclocked ==
  ASSUME NEW x \in Reports, Report!TimingUsable([x EXCEPT !.clocked = {}])
  PROVE  Less([x EXCEPT !.clocked = {}], x)
<1>. DEFINE y == [x EXCEPT !.clocked = {}]
<1>1. /\ y.signals = x.signals /\ y.step = x.step /\ y.series = x.series /\ y.robust = x.robust
      /\ y.serving = x.serving /\ y.dfs = x.dfs /\ y.clocked = {} /\ y.comparable = x.comparable
      /\ y.clock = x.clock /\ y.baseline = x.baseline /\ y.configured = x.configured
      /\ y.nodes = x.nodes /\ y.sessions = x.sessions /\ y.matched = x.matched
  BY DEF Reports, Forms
<1>2. Report!TimingUsable(y)
  OBVIOUS
<1>. HIDE DEF y
<1>3. Report!TimingUsable(x)
  BY <1>1, <1>2 DEF Report!TimingUsable, Report!ClockStatus, Report!BaselineStatus, Report!Doubt
<1>4. \A s, role : /\ Report!Usable(y, s, role) \in {<<>>, Report!Usable(x, s, role)}
                   /\ s \notin Report!Storage => Report!Usable(y, s, role) = Report!Usable(x, s, role)
  BY <1>1 DEF Report!Usable
<1>5. Report!ServiceSignals \cap Report!Storage = {}
  BY DEF Report!ServiceSignals, Report!Storage
<1>6. Less(y, x)
  BY <1>1, <1>3, <1>4, <1>5 DEF Less
<1>. QED
  BY <1>6 DEF y

(* One observation loses something.                                        *)
LEMMA Unobserved ==
  ASSUME NEW x \in Reports, NEW y, NEW s \in Report!Signals, NEW o,
         y = [x EXCEPT !.signals[s] = o], Report!TimingUsable(y),
         x.signals[s].stale \subseteq o.stale, o.doubted = x.signals[s].doubted,
         o.before \in {<<>>, x.signals[s].before}, o.now \in {<<>>, x.signals[s].now},
         "before" \in o.stale => "before" \in x.signals[s].stale,
         s \in Report!Discredited(x) => o.now = x.signals[s].now /\ ("now" \in o.stale => "now" \in x.signals[s].stale)
  PROVE  Less(y, x)
<1>1. /\ y.step = x.step /\ y.series = x.series /\ y.robust = x.robust
      /\ y.serving = x.serving /\ y.dfs = x.dfs /\ y.clocked = x.clocked /\ y.comparable = x.comparable
      /\ y.clock = x.clock /\ y.baseline = x.baseline /\ y.configured = x.configured
      /\ y.nodes = x.nodes /\ y.sessions = x.sessions /\ y.matched = x.matched
  BY DEF Reports, Forms
<1>2. /\ y.signals[s] = o
      /\ \A t \in Report!Signals : t # s => y.signals[t] = x.signals[t]
  BY DEF Reports, Forms
<1>3. Report!TimingUsable(x)
  BY <1>1 DEF Report!TimingUsable, Report!ClockStatus, Report!BaselineStatus, Report!Doubt
<1>4. \A role : \A t \in Report!Signals : t # s => Report!Usable(y, t, role) = Report!Usable(x, t, role)
  BY <1>1, <1>2 DEF Report!Usable
<1>5. \A role \in Roles : Report!Usable(y, s, role) \in {<<>>, Report!Usable(x, s, role)}
  BY <1>1, <1>2 DEF Report!Usable, Roles
<1>6. ASSUME x.serving = "inactive", s \in Report!ServiceSignals
      PROVE  Report!Usable(y, s, "now") = Report!Usable(x, s, "now")
  <2>1. o.now = x.signals[s].now /\ ("now" \in o.stale <=> "now" \in x.signals[s].stale)
    BY <1>6 DEF Report!Discredited
  <2>. QED
    BY <1>1, <1>2, <2>1 DEF Report!Usable
<1>7. x.serving = "inactive" =>
        \A t \in Report!ServiceSignals : Report!Usable(y, t, "now") = Report!Usable(x, t, "now")
  BY <1>4, <1>6, SignalsHere
<1>8. \A t \in Report!Signals :
         x.signals[t].stale \subseteq y.signals[t].stale /\ x.signals[t].doubted \subseteq y.signals[t].doubted
  BY <1>2
<1>. QED
  BY <1>1, <1>3, <1>4, <1>5, <1>7, <1>8 DEF Less

LEMMA WeakerIsLess ==
  ASSUME NEW x \in Reports, NEW y \in Report!Weaker(x), Report!TimingUsable(y) PROVE Less(y, x)
<1>0. \A s \in Report!Signals : x.signals[s] \in Measurements
  BY DEF Reports, Forms
<1>1. ASSUME NEW s \in Report!Signals, s \notin Report!Discredited(x), y = [x EXCEPT !.signals[s].now = <<>>]
      PROVE  Less(y, x)
  <2>. DEFINE o == [x.signals[s] EXCEPT !.now = <<>>]
  <2>1. /\ o.stale = x.signals[s].stale /\ o.doubted = x.signals[s].doubted
        /\ o.before = x.signals[s].before /\ o.now = <<>>
    BY <1>0 DEF Measurements
  <2>2. y = [x EXCEPT !.signals[s] = o]
    BY <1>1
  <2>. HIDE DEF o
  <2>. QED
    BY <1>1, <2>1, <2>2, Unobserved
<1>2. ASSUME NEW s \in Report!Signals, y = [x EXCEPT !.signals[s].before = <<>>]
      PROVE  Less(y, x)
  <2>. DEFINE o == [x.signals[s] EXCEPT !.before = <<>>]
  <2>1. /\ o.stale = x.signals[s].stale /\ o.doubted = x.signals[s].doubted
        /\ o.before = <<>> /\ o.now = x.signals[s].now
    BY <1>0 DEF Measurements
  <2>2. y = [x EXCEPT !.signals[s] = o]
    BY <1>2
  <2>. HIDE DEF o
  <2>. QED
    BY <1>2, <2>1, <2>2, Unobserved
<1>3. ASSUME NEW s \in Report!Signals, s \notin Report!Discredited(x),
             y = [x EXCEPT !.signals[s].stale = @ \cup {"now"}]
      PROVE  Less(y, x)
  <2>. DEFINE o == [x.signals[s] EXCEPT !.stale = @ \cup {"now"}]
  <2>1. /\ o.stale = x.signals[s].stale \cup {"now"} /\ o.doubted = x.signals[s].doubted
        /\ o.before = x.signals[s].before /\ o.now = x.signals[s].now
    BY <1>0 DEF Measurements
  <2>2. y = [x EXCEPT !.signals[s] = o]
    BY <1>3
  <2>. HIDE DEF o
  <2>3. /\ x.signals[s].stale \subseteq o.stale /\ ("before" \in o.stale => "before" \in x.signals[s].stale)
        /\ o.before \in {<<>>, x.signals[s].before} /\ o.now \in {<<>>, x.signals[s].now}
    BY <2>1
  <2>4. s \in Report!Discredited(x) => o.now = x.signals[s].now /\ ("now" \in o.stale => "now" \in x.signals[s].stale)
    BY <1>3
  <2>. QED
    BY <2>1, <2>2, <2>3, <2>4, Unobserved
<1>4. ASSUME \/ y = [x EXCEPT !.matched = FALSE] \/ y = [x EXCEPT !.nodes = FALSE]
             \/ y = [x EXCEPT !.clocked = {}] \/ y = [x EXCEPT !.sessions = FALSE]
      PROVE  Less(y, x)
  <2>1. CASE y = [x EXCEPT !.matched = FALSE]
    BY <2>1, Unmatched
  <2>2. CASE y = [x EXCEPT !.clocked = {}]
    BY <2>2, Unclocked
  <2>. QED
    BY <1>4, <2>1, <2>2, Untimely, Zenon
<1>5. \/ \E s \in {t \in Report!Signals : x.signals[t].now # <<>>} \ Report!Discredited(x) :
           y = [x EXCEPT !.signals[s].now = <<>>]
      \/ \E s \in {t \in Report!Signals : x.signals[t].before # <<>>} : y = [x EXCEPT !.signals[s].before = <<>>]
      \/ \E s \in {t \in Report!Signals \ (Report!Durations \cup Report!Storage) : x.signals[t].now # <<>>}
                   \ Report!Discredited(x) : y = [x EXCEPT !.signals[s].stale = @ \cup {"now"}]
      \/ \/ y = [x EXCEPT !.matched = FALSE] \/ y = [x EXCEPT !.nodes = FALSE]
         \/ y = [x EXCEPT !.clocked = {}] \/ y = [x EXCEPT !.sessions = FALSE]
  BY Zenon DEF Report!Weaker
<1>. QED
  BY <1>1, <1>2, <1>3, <1>4, <1>5
-----------------------------------------------------------------------------
(* A candidate of what is left is one of the whole, and no weaker there.   *)
LEMMA HoldsOnReport ==
  ASSUME NEW x, NEW y, Less(y, x), NEW id \in Rules, NEW s \in DOMAIN ChecksOf(id),
         Report!Holds(ChecksOf(id)[s], Report!Available(y, s))
  PROVE  /\ Report!Holds(ChecksOf(id)[s], Report!Available(x, s))
         /\ Report!Available(x, s).now = Report!Available(y, s).now /\ Report!Available(x, s).now # <<>>
         /\ ChecksOf(id)[s] \in Relative => Report!Available(y, s).before # <<>>
<1>1. s \in Report!Signals /\ ChecksOf(id)[s] \in Tests
  BY RuleSignals, RuleIsWellMade
<1>2. /\ Report!Available(y, s).now \in {<<>>, Report!Available(x, s).now}
      /\ Report!Available(y, s).before \in {<<>>, Report!Available(x, s).before}
  BY <1>1, AvailableLess
<1>. QED
  BY <1>1, <1>2, HoldsOnMore

LEMMA TriggeredMore ==
  ASSUME NEW x, NEW y, Less(y, x), NEW id \in Rules, Report!Triggered(id, y)
  PROVE  Report!Triggered(id, x)
<1>1. \A s \in Report!RuleBook[id].trigger : Report!Holds(ChecksOf(id)[s], Report!Available(x, s))
  BY HoldsOnReport, RuleIsWellMade DEF Report!Triggered, ChecksOf
<1>2. id = "small_io_pressure" => Report!Available(x, "request_bytes").now # <<>>
  <2>1. "request_bytes" \in Report!Signals
    BY SignalsHere DEF Report!Storage
  <2>. QED
    BY <2>1, AvailableLess DEF Report!Triggered
<1>3. ASSUME Report!Dfs \subseteq DOMAIN ChecksOf(id)
      PROVE  \/ Report!Holds("raised", Report!Available(x, "dfs_latency"))
             \/ Report!Holds("positive", Report!Available(x, "dfs_errors"))
  <2>1. "dfs_latency" \in Report!Signals /\ "dfs_errors" \in Report!Signals
    BY <1>3, RuleSignals DEF Report!Dfs
  <2>2. "raised" \in Tests /\ "positive" \in Tests
    BY DEF Tests
  <2>3. \/ Report!Holds("raised", Report!Available(y, "dfs_latency"))
        \/ Report!Holds("positive", Report!Available(y, "dfs_errors"))
    BY <1>3 DEF Report!Triggered, ChecksOf
  <2>. QED
    BY <2>1, <2>2, <2>3, AvailableLess, HoldsOnMore
<1>. QED
  BY <1>1, <1>2, <1>3 DEF Report!Triggered, ChecksOf

(* The file system's rule is the only one that looks at its signals.       *)
OfDfs(id) == DOMAIN ChecksOf(id) \cap Report!Dfs # {}

LEMMA DfsRule ==
  ASSUME NEW id \in Rules, OfDfs(id)
  PROVE  /\ Report!RuleBook[id].capped /\ Report!RuleBook[id].trigger = {"step"}
         /\ ChecksOf(id) = [step |-> "raised", dfs_latency |-> "raised", dfs_errors |-> "positive"]
BY EachIsMade DEF Made, OfDfs, ChecksOf, Rules

LEMMA OrdinaryRule ==
  ASSUME NEW id \in Rules, ~OfDfs(id), NEW x
  PROVE  Report!Unlinked(id, x) = {s \in DOMAIN ChecksOf(id) : ChecksOf(id)[s] = "headroom"}
<1>1. Report!Other(x) \notin DOMAIN ChecksOf(id)
  BY DEF OfDfs, Report!Dfs, Report!Other
<1>. QED
  BY <1>1 DEF Report!Unlinked, ChecksOf

LEMMA ObservedMore ==
  ASSUME NEW x, NEW y, Less(y, x), NEW id \in Rules, ~OfDfs(id)
  PROVE  Report!Observed(id, y) \subseteq Report!Observed(id, x)
<1>1. Report!Unlinked(id, y) = Report!Unlinked(id, x)
  BY OrdinaryRule
<1>2. /\ Report!Observed(id, y) = {s \in DOMAIN ChecksOf(id) \ Report!Unlinked(id, y) :
                                      Report!Holds(ChecksOf(id)[s], Report!Available(y, s))}
      /\ Report!Observed(id, x) = {s \in DOMAIN ChecksOf(id) \ Report!Unlinked(id, x) :
                                      Report!Holds(ChecksOf(id)[s], Report!Available(x, s))}
  BY DEF Report!Observed, ChecksOf
<1>3. \A s \in DOMAIN ChecksOf(id) : Report!Holds(ChecksOf(id)[s], Report!Available(y, s)) =>
        Report!Holds(ChecksOf(id)[s], Report!Available(x, s))
  BY HoldsOnReport
<1>. QED
  BY <1>1, <1>2, <1>3

LEMMA ObservedAre ==
  ASSUME NEW id \in Rules, NEW x
  PROVE  /\ Report!Observed(id, x) \subseteq DOMAIN ChecksOf(id) /\ IsFiniteSet(Report!Observed(id, x))
         /\ \A s \in Report!Observed(id, x) : Report!Holds(ChecksOf(id)[s], Report!Available(x, s))
         /\ \A s \in DOMAIN ChecksOf(id) \ Report!Unlinked(id, x) :
              Report!Holds(ChecksOf(id)[s], Report!Available(x, s)) => s \in Report!Observed(id, x)
<1>1. /\ Report!Observed(id, x) \subseteq DOMAIN ChecksOf(id)
      /\ \A s \in Report!Observed(id, x) : Report!Holds(ChecksOf(id)[s], Report!Available(x, s))
      /\ \A s \in DOMAIN ChecksOf(id) \ Report!Unlinked(id, x) :
              Report!Holds(ChecksOf(id)[s], Report!Available(x, s)) => s \in Report!Observed(id, x)
  BY DEF Report!Observed, ChecksOf
<1>. QED
  BY <1>1, RuleIsWellMade, FS_Subset

LEMMA SoundMore ==
  ASSUME NEW x, NEW y, Less(y, x), NEW id \in Rules, ~OfDfs(id), Sound(id, y)
  PROVE  Sound(id, x)
<1>1. Report!Observed(id, x) = DOMAIN ChecksOf(id)
  BY ObservedMore, ObservedAre DEF Sound
<1>2. Report!Unlinked(id, x) = Report!Unlinked(id, y)
  BY OrdinaryRule
<1>3. \A s \in DOMAIN ChecksOf(id) :
         /\ Report!Available(y, s).now \in {<<>>, Report!Available(x, s).now}
         /\ Report!Available(y, s).before \in {<<>>, Report!Available(x, s).before}
  BY AvailableLess, RuleSignals
<1>4. Report!Missing(id, x) \subseteq Report!Missing(id, y)
  BY <1>2, <1>3 DEF Report!Missing, ChecksOf
<1>. QED
  BY <1>1, <1>4 DEF Sound

(* A replica that serves nothing is noticed in what is left too.           *)
LEMMA ServedLess ==
  ASSUME NEW x, NEW y, Less(y, x), x.serving = "inactive", NEW id \in Rules, ~OfDfs(id),
         Report!Triggered(id, y), Served(id, x)
  PROVE  Served(id, y)
<1>1. PICK s \in Report!Observed(id, x) : s \in Report!ServiceSignals
  BY DEF Served
<1>2. /\ s \in DOMAIN ChecksOf(id) /\ s \in Report!Signals /\ ChecksOf(id)[s] \in Tests
      /\ Report!Holds(ChecksOf(id)[s], Report!Available(x, s))
  BY ObservedAre, RuleSignals, RuleIsWellMade
<1>3. Report!Holds(ChecksOf(id)[s], Report!Available(y, s))
  <2>1. CASE ChecksOf(id)[s] \in Relative
    <3>1. s \in Report!RuleBook[id].trigger
      <4>1. Made(id, Report!RuleBook[id])
        BY EachIsMade
      <4>. QED
        BY <1>1, <1>2, <2>1, <4>1 DEF Made, ChecksOf
    <3>. QED
      BY <3>1, Zenon DEF Report!Triggered, ChecksOf
  <2>2. CASE ChecksOf(id)[s] \notin Relative
    <3>1. Report!Available(y, s).now = Report!Available(x, s).now
      BY <1>1 DEF Less, Report!Available
    <3>. QED
      BY <1>2, <2>2, <3>1, HoldsNow
  <2>. QED
    BY <2>1, <2>2
<1>4. s \notin Report!Unlinked(id, y)
  <2>1. s \notin Report!Unlinked(id, x)
    BY DEF Report!Observed
  <2>. QED
    BY <2>1, OrdinaryRule
<1>. QED
  BY <1>1, <1>2, <1>3, <1>4, ObservedAre DEF Served

(* An ordinary rule: what is weak of the whole is weak of what is left,    *)
(* and what is strong of what is left is strong of the whole.              *)
LEMMA OrdinaryIsLess ==
  ASSUME NEW x, NEW y, Less(y, x), NEW id \in Rules, ~OfDfs(id), Report!Triggered(id, y)
  PROVE  /\ Fallen(id, x) => Fallen(id, y)
         /\ Sound(id, y) /\ ~Limited(id, y) => Sound(id, x) /\ ~Limited(id, x)
<1>1. ASSUME Fallen(id, x) PROVE Fallen(id, y)
  <2>1. Report!Observed(id, x) \cap Report!Dfs = {}
    BY ObservedAre DEF OfDfs
  <2>2. CASE Served(id, x) /\ x.serving = "inactive"
    BY <2>2, ServedLess DEF Fallen, Less
  <2>3. CASE ~Sound(id, x) /\ ~(Cardinality(Report!Observed(id, x)) >= 2)
    <3>1. ~Sound(id, y)
      BY <2>3, SoundMore
    <3>2. /\ Cardinality(Report!Observed(id, y)) <= Cardinality(Report!Observed(id, x))
          /\ Cardinality(Report!Observed(id, y)) \in Nat /\ Cardinality(Report!Observed(id, x)) \in Nat
      BY ObservedMore, ObservedAre, FS_Subset, FS_CardinalityType
    <3>3. ~(Cardinality(Report!Observed(id, y)) >= 2)
      BY <2>3, <3>2
    <3>. QED
      BY <3>1, <3>3 DEF Fallen
  <2>. QED
    BY <1>1, <2>1, <2>2, <2>3 DEF Fallen
<1>2. ASSUME Sound(id, y), ~Limited(id, y) PROVE Sound(id, x) /\ ~Limited(id, x)
  <2>1. Sound(id, x) /\ Report!Observed(id, x) = Report!Observed(id, y)
    BY <1>2, SoundMore DEF Sound
  <2>2. Report!Contrary(id, x) = {}
    BY <2>1 DEF Report!Contrary, Sound, ChecksOf
  <2>3. Timed(id, x) <=> Timed(id, y)
    BY <2>1 DEF Timed
  <2>4. Served(id, x) <=> Served(id, y)
    BY <2>1 DEF Served
  <2>5. Against(id, x) \cap Report!Durations \subseteq Against(id, y)
    <3>1. ASSUME NEW s \in Report!Observed(id, x), s \in Report!Durations
          PROVE  Report!Available(y, s).before # <<>>
      <4>1. s \in DOMAIN ChecksOf(id) \cap Report!BaselineRequired
        BY <3>1, ObservedAre DEF Report!BaselineRequired
      <4>2. s \notin Report!Missing(id, y)
        BY <1>2 DEF Sound
      <4>. QED
        BY <4>1, <4>2 DEF Report!Missing, ChecksOf
    <3>. QED
      BY <2>1, <3>1 DEF Against
  <2>6. \A s \in Report!Observed(id, x) : x.signals[s].doubted \cup x.signals[s].stale = {}
    <3>1. ASSUME NEW s \in Report!Observed(id, x) PROVE x.signals[s].doubted \cup x.signals[s].stale = {}
      <4>1. y.signals[s].doubted \cup y.signals[s].stale = {}
        BY <1>2, <2>1 DEF Limited
      <4>2. s \in Report!Signals
        BY ObservedAre, RuleSignals
      <4>. QED
        BY <4>1, <4>2 DEF Less
    <3>. QED
      BY <3>1
  <2>7. Report!ComparableClocks(y) => Report!ComparableClocks(x)
    BY DEF Less, Report!ComparableClocks
  <2>8. y.series = x.series /\ y.robust = x.robust /\ y.serving = x.serving /\ (y.matched => x.matched)
    BY DEF Less
  <2>9. ~Limited(id, x)
    BY <1>2, <2>1, <2>2, <2>3, <2>4, <2>5, <2>6, <2>7, <2>8 DEF Limited
  <2>. QED
    BY <2>1, <2>9
<1>. QED
  BY <1>1, <1>2

(* Two signals are what supports a candidate.                              *)
LEMMA OfTwo == ASSUME NEW a, NEW b, a # b PROVE Cardinality({a, b}) = 2
<1>1. IsFiniteSet({a}) /\ Cardinality({a}) = 1
  BY FS_Singleton, Zenon
<1>2. Cardinality({a} \cup {b}) = Cardinality({a}) + 1
  BY <1>1, FS_AddElement
<1>3. {a} \cup {b} = {a, b}
  OBVIOUS
<1>. QED
  BY <1>1, <1>2, <1>3

(* The file system's rule needs one of its two signals, and whichever      *)
(* counts as observed of what is left has a counterpart in the whole.      *)
LEMMA DfsIsLess ==
  ASSUME NEW x, NEW y, Less(y, x), NEW id \in Rules, OfDfs(id), Report!Triggered(id, y), Fallen(id, x)
  PROVE  Fallen(id, y)
<1>. DEFINE checks == ChecksOf(id)
<1>1. /\ DOMAIN checks = {"step", "dfs_latency", "dfs_errors"} /\ Report!RuleBook[id].trigger = {"step"}
      /\ checks["step"] = "raised" /\ checks["dfs_latency"] = "raised" /\ checks["dfs_errors"] = "positive"
  BY DfsRule
<1>2. ASSUME NEW z
      PROVE  Report!Unlinked(id, z) = {s \in {Report!Other(z)} : z.dfs # "same" /\ Report!Available(z, s).now # <<>>}
  BY <1>1 DEF Report!Unlinked, ChecksOf, Report!Other
<1>. HIDE DEF checks
<1>3. ~(Report!Observed(id, y) \cap Report!Dfs # {} /\ y.dfs = "anonymous") => ~Served(id, y) /\ ~Served(id, x)
  BY <1>1, ObservedAre DEF Served, Report!ServiceSignals, checks
<1>4. "step" \in Report!Observed(id, y) /\ "step" \in Report!Observed(id, x)
  <2>1. Report!Triggered(id, x)
    BY TriggeredMore
  <2>2. "step" \notin Report!Unlinked(id, x) /\ "step" \notin Report!Unlinked(id, y)
    BY <1>2 DEF Report!Other
  <2>. QED
    BY <1>1, <2>1, <2>2, ObservedAre DEF Report!Triggered, checks, ChecksOf
<1>5. SUFFICES ASSUME ~Fallen(id, y) PROVE FALSE
  OBVIOUS
<1>6. ~(y.dfs = "anonymous" /\ Report!Observed(id, y) \cap Report!Dfs # {})
  BY <1>5 DEF Fallen
<1>7. PICK s \in Report!Observed(id, y) : s \in Report!Dfs
  <2>1. Sound(id, y) \/ Cardinality(Report!Observed(id, y)) >= 2
    BY <1>5 DEF Fallen
  <2>2. CASE Sound(id, y)
    BY <1>1, <2>2 DEF Sound, Report!Dfs, checks
  <2>3. CASE Cardinality(Report!Observed(id, y)) >= 2
    <3>1. Report!Observed(id, y) # {"step"}
      <4>1. Cardinality({"step"}) = 1
        BY FS_Singleton, Zenon
      <4>. QED
        BY <2>3, <4>1
    <3>. QED
      BY <1>1, <1>4, <3>1, ObservedAre DEF Report!Dfs, checks
  <2>. QED
    BY <2>1, <2>2, <2>3
<1>8. \E t \in Report!Observed(id, x) : t \in Report!Dfs
  <2>1. \A t \in DOMAIN checks : Report!Holds(checks[t], Report!Available(y, t)) =>
                                   Report!Holds(checks[t], Report!Available(x, t))
    BY HoldsOnReport DEF checks
  <2>2. s \in {"dfs_latency", "dfs_errors"} /\ Report!Holds(checks[s], Report!Available(y, s))
    BY <1>7, ObservedAre DEF Report!Dfs, checks
  <2>3. Report!Holds(checks[s], Report!Available(x, s))
    BY <1>1, <2>1, <2>2
  <2>4. CASE Report!Holds("raised", Report!Available(x, "dfs_latency"))
    <3>1. "dfs_latency" \notin Report!Unlinked(id, x)
      BY <1>2, <2>4 DEF Report!Other
    <3>. QED
      BY <1>1, <2>4, <3>1, ObservedAre DEF Report!Dfs, checks
  <2>5. CASE ~Report!Holds("raised", Report!Available(x, "dfs_latency"))
    <3>1. s = "dfs_errors"
      BY <1>1, <2>2, <2>3, <2>5
    <3>2. "dfs_errors" \notin Report!Unlinked(id, x)
      BY <1>2, <2>5 DEF Report!Other
    <3>. QED
      BY <1>1, <2>3, <3>1, <3>2, ObservedAre DEF Report!Dfs, checks
  <2>. QED
    BY <2>4, <2>5
<1>9. Cardinality(Report!Observed(id, x)) >= 2
  <2>1. PICK t \in Report!Observed(id, x) : t \in Report!Dfs
    BY <1>8
  <2>2. t # "step" /\ {"step", t} \subseteq Report!Observed(id, x)
    BY <1>4, <2>1 DEF Report!Dfs
  <2>3. Cardinality({"step", t}) = 2
    <3>1. "step" # t
      BY <2>2
    <3>. QED
      BY <3>1, OfTwo, Zenon
  <2>4. Cardinality({"step", t}) <= Cardinality(Report!Observed(id, x)) /\ Cardinality(Report!Observed(id, x)) \in Nat
    BY <2>2, ObservedAre, FS_Subset, FS_CardinalityType
  <2>. QED
    BY <2>3, <2>4
<1>10. x.dfs = y.dfs
  BY DEF Less
<1>11. y.dfs # "anonymous"
  BY <1>6, <1>7
<1>. QED
  BY <1>3, <1>6, <1>9, <1>10, <1>11 DEF Fallen

LEMMA DoubtWeakens ==
  ASSUME NEW x \in Reports PROVE Report!DoubtNeverStrengthens(x)
<1>1. ASSUME NEW y \in Report!Weaker(x), NEW id \in Report!Candidates(y)
      PROVE  /\ id \in Report!Candidates(x)
             /\ Report!Rank(Report!CandidateState(id, y)) <= Report!Rank(Report!CandidateState(id, x))
  <2>1. id \in Rules /\ y.step /\ Report!TimingUsable(y) /\ Report!Triggered(id, y) /\ Report!Observed(id, y) # {}
    BY DEF Report!Candidates, Rules
  <2>2. Less(y, x)
    BY <2>1, WeakerIsLess
  <2>3. Report!Observed(id, x) # {}
    <3>1. CASE OfDfs(id)
      <4>1. "step" \in DOMAIN ChecksOf(id) /\ Report!RuleBook[id].trigger = {"step"} /\ ChecksOf(id)["step"] = "raised"
        BY <2>1, <3>1, DfsRule
      <4>2. Report!Holds(ChecksOf(id)["step"], Report!Available(x, "step"))
        <5>1. Report!Triggered(id, x)
          BY <2>1, <2>2, TriggeredMore
        <5>. QED
          BY <4>1, <5>1 DEF Report!Triggered, ChecksOf
      <4>3. "step" \notin Report!Unlinked(id, x)
        BY <4>1 DEF Report!Unlinked, ChecksOf, Report!Other
      <4>. QED
        BY <2>1, <4>1, <4>2, <4>3, ObservedAre
    <3>2. CASE ~OfDfs(id)
      BY <2>1, <2>2, <3>2, ObservedMore
    <3>. QED
      BY <3>1, <3>2
  <2>4. id \in Report!Candidates(x)
    <3>1. Report!Triggered(id, x) /\ x.step /\ Report!TimingUsable(x)
      BY <2>1, <2>2, TriggeredMore DEF Less
    <3>. QED
      BY <2>1, <2>3, <3>1 DEF Report!Candidates, Rules
  <2>5. Fallen(id, x) => Fallen(id, y)
    BY <2>1, <2>2, OrdinaryIsLess, DfsIsLess
  <2>6. Sound(id, y) /\ ~Limited(id, y) => Sound(id, x) /\ ~Limited(id, x)
    BY <2>1, <2>2, OrdinaryIsLess, DfsRule DEF Limited
  <2>7. Report!Rank("weak") = 1 /\ Report!Rank("supporting") = 2 /\ Report!Rank("strong") = 3
    BY DEF Report!Rank
  <2>. QED
    BY <2>4, <2>5, <2>6, <2>7, StateIs
<1>. QED
  BY <1>1 DEF Report!DoubtNeverStrengthens, Report!Strengths

-----------------------------------------------------------------------------
(* A signal is strong with every check of its rule on evidence in order.   *)
LEMMA StrongEarned ==
  ASSUME NEW x \in Reports PROVE Report!StrongIsEarned(x)
<1>1. ASSUME NEW id \in Report!Candidates(x), Report!CandidateState(id, x) = "strong",
             NEW s \in DOMAIN ChecksOf(id)
      PROVE  /\ Report!Holds(ChecksOf(id)[s], x.signals[s])
             /\ x.signals[s].stale = {} /\ x.signals[s].doubted = {}
             /\ s \in Report!Durations => x.matched /\ x.robust \in {"off", "shift"}
             /\ s \in Report!ServiceSignals => x.serving \notin {"inactive", "transition", "unregistered"}
             /\ s \in Report!Storage => Report!ComparableClocks(x) /\ x.comparable
  <2>1. id \in Rules
    BY DEF Report!Candidates, Rules
  <2>2. ~Fallen(id, x) /\ Sound(id, x) /\ ~Limited(id, x)
    BY <1>1, StateIs
  <2>3. /\ Report!Observed(id, x) = DOMAIN ChecksOf(id) /\ Report!Missing(id, x) = {}
        /\ \A t \in DOMAIN ChecksOf(id) : Report!Holds(ChecksOf(id)[t], Report!Available(x, t))
    BY <2>1, <2>2, ObservedAre DEF Sound
  <2>4. Report!Holds(ChecksOf(id)[s], x.signals[s])
    <3>1. /\ Report!Available(x, s).now \in {<<>>, x.signals[s].now}
          /\ Report!Available(x, s).before \in {<<>>, x.signals[s].before}
      BY DEF Report!Available, Report!Usable
    <3>. QED
      BY <2>1, <2>3, <3>1, RuleIsWellMade, HoldsOnMore
  <2>5. x.signals[s].doubted \cup x.signals[s].stale = {}
    BY <2>2, <2>3 DEF Limited
  <2>6. ASSUME s \in Report!Durations PROVE x.matched /\ x.robust \in {"off", "shift"}
    <3>1. Report!Available(x, s).before # <<>>
      <4>1. s \notin Report!Missing(id, x) /\ s \in Report!BaselineRequired
        BY <2>3, <2>6 DEF Report!BaselineRequired
      <4>. QED
        BY <4>1 DEF Report!Missing, ChecksOf
    <3>2. Against(id, x) \cap Report!Durations # {}
      BY <2>3, <2>6, <3>1 DEF Against
    <3>. QED
      BY <2>2, <3>2 DEF Limited
  <2>7. s \in Report!ServiceSignals => x.serving \notin {"inactive", "transition", "unregistered"}
    BY <2>2, <2>3 DEF Served, Fallen, Limited
  <2>8. ASSUME s \in Report!Storage PROVE Report!ComparableClocks(x) /\ x.comparable
    <3>1. "threefs_p99" \in DOMAIN ChecksOf(id) /\ ChecksOf(id)["threefs_p99"] = "raised"
      BY <2>1, <2>8, EachIsMade DEF Made, ChecksOf, Rules
    <3>2. Report!ComparableClocks(x)
      BY <2>2, <2>3, <3>1 DEF Timed, Limited
    <3>3. Report!Available(x, "threefs_p99").before # <<>>
      <4>1. Report!Holds("raised", Report!Available(x, "threefs_p99"))
        BY <2>3, <3>1
      <4>2. "raised" \in Tests /\ "raised" \in Relative
        BY DEF Tests, Relative
      <4>. QED
        BY <4>1, <4>2, HoldsBy
    <3>4. x.comparable
      BY <3>3 DEF Report!Available, Report!Usable
    <3>. QED
      BY <3>2, <3>4
  <2>. QED
    BY <2>4, <2>5, <2>6, <2>7, <2>8
<1>. QED
  BY <1>1 DEF Report!StrongIsEarned, ChecksOf

(* What is found was observed, from outside of the run.                    *)
LEMMA FoundIsObserved ==
  ASSUME NEW x \in Reports, Report!Findings(x) # {}
  PROVE  \E s \in Report!External(x) \cap Report!Signals : x.signals[s].now # <<>> /\ "now" \notin x.signals[s].stale
<1>1. PICK component \in Report!Findings(x) : TRUE
  OBVIOUS
<1>2. \/ \E s \in {"vllm_waiting", "vllm_kv", "vllm_preemptions", "ray_pending", "policy_lag", "host_memory", "disk_busy"} :
           \E test \in Tests : Report!Finding(x, s, test)
      \/ Report!ComparableClocks(x) /\ Report!Holds("raised", x.signals["threefs_p99"])
  BY <1>1 DEF Report!Findings, Tests
<1>3. ASSUME NEW s \in {"vllm_waiting", "vllm_kv", "vllm_preemptions", "ray_pending", "policy_lag", "host_memory", "disk_busy"},
             NEW test \in Tests, Report!Finding(x, s, test)
      PROVE  s \in Report!External(x) \cap Report!Signals /\ x.signals[s].now # <<>> /\ "now" \notin x.signals[s].stale
  <2>1. "now" \notin x.signals[s].stale /\ x.signals[s].now # <<>>
    BY <1>3, HoldsBy DEF Report!Finding
  <2>2. s \in Report!Signals /\ s \notin Report!Durations \cup Report!Storage
    BY SignalsHere DEF Report!Durations, Report!Storage, Report!ServiceSignals
  <2>. QED
    BY <2>1, <2>2 DEF Report!External
<1>4. ASSUME Report!ComparableClocks(x), Report!Holds("raised", x.signals["threefs_p99"])
      PROVE  /\ "threefs_p99" \in Report!External(x) \cap Report!Signals
             /\ x.signals["threefs_p99"].now # <<>> /\ "now" \notin x.signals["threefs_p99"].stale
  <2>1. x.signals["threefs_p99"].now # <<>> /\ "now" \in x.clocked
    BY <1>4 DEF Report!Holds, Report!ComparableClocks
  <2>2. "threefs_p99" \in Report!Storage /\ "threefs_p99" \in Report!Signals
    BY SignalsHere DEF Report!Storage
  <2>3. x.signals["threefs_p99"].stale = {}
    BY <2>2 DEF Reports
  <2>. QED
    BY <2>1, <2>2, <2>3 DEF Report!External
<1>. QED
  BY <1>2, <1>3, <1>4

LEMMA GroundsAreGiven ==
  ASSUME NEW x \in Reports PROVE Report!VerdictHasGrounds(x)
<1>1. ASSUME NEW id \in Report!Candidates(x)
      PROVE  \E s \in Report!Signals : x.signals[s].now # <<>> /\ "now" \notin x.signals[s].stale
  <2>1. id \in Rules /\ Report!Observed(id, x) # {}
    BY DEF Report!Candidates, Rules
  <2>2. PICK s \in Report!Observed(id, x) : TRUE
    BY <2>1
  <2>3. s \in Report!Signals /\ Report!Available(x, s).now # <<>>
    BY <2>1, ObservedAre, RuleSignals, RuleIsWellMade, HoldsBy
  <2>. QED
    BY <2>3 DEF Report!Available, Report!Usable
<1>2. ASSUME Report!Verdict(x) = "bottleneck_suspected"
      PROVE  /\ Report!TimingUsable(x)
             /\ \E s \in Report!Signals : x.signals[s].now # <<>> /\ "now" \notin x.signals[s].stale
  <2>1. Report!TimingUsable(x) /\ Report!Findings(x) \cup Report!Candidates(x) # {}
    BY <1>2 DEF Report!Verdict
  <2>2. Report!Findings(x) # {} \/ \E id \in Report!Candidates(x) : TRUE
    BY <2>1
  <2>. QED
    BY <1>1, <2>1, <2>2, FoundIsObserved
<1>3. ASSUME Report!Verdict(x) = "insufficient_data"
      PROVE  Report!Findings(x) = {} /\ Report!Candidates(x) = {}
  <2>1. CASE ~Report!TimingUsable(x)
    BY <2>1 DEF Report!Findings, Report!Candidates
  <2>2. CASE Report!TimingUsable(x)
    <3>1. Report!External(x) = {} /\ Report!Candidates(x) = {}
      BY <1>3, <2>2 DEF Report!Verdict
    <3>. QED
      BY <3>1, FoundIsObserved
  <2>. QED
    BY <2>1, <2>2
<1>. QED
  BY <1>2, <1>3 DEF Report!VerdictHasGrounds

(* The cases are reports.                                                  *)
LEMMA LevelIs ==
  /\ Levels \subseteq Measurements /\ \A v \in Levels \cup {Level(<<>>, <<>>)} : v.stale = {}
  /\ Level(<<>>, <<>>) \in Measurements
BY DEF Levels, Level, Measurements, Optional, Roles

LEMMA AssignedAreReports ==
  ASSUME NEW signals \in SUBSET Report!Signals, NEW x \in Assigned(signals) PROVE x \in Reports
<1>1. PICK v \in [signals -> Levels] :
        x = [Good EXCEPT !.signals = [s \in Report!Signals |-> IF s \in signals THEN v[s] ELSE Good.signals[s]]]
  BY DEF Assigned
<1>2. Good.signals = [s \in Report!Signals |-> Level(<<>>, <<>>)]
  BY DEF Good
<1>. DEFINE given == [s \in Report!Signals |-> IF s \in signals THEN v[s] ELSE Good.signals[s]]
<1>3. given \in [Report!Signals -> Measurements] /\ \A s \in Report!Signals : given[s].stale = {}
  <2>1. ASSUME NEW s \in Report!Signals PROVE given[s] \in Measurements /\ given[s].stale = {}
    BY <1>2, LevelIs
  <2>. QED
    BY <2>1
<1>4. x = [kind |-> "report", step |-> TRUE, clock |-> "aligned", baseline |-> "aligned", configured |-> TRUE,
           sessions |-> TRUE, nodes |-> TRUE, matched |-> TRUE, series |-> FALSE, robust |-> "off",
           serving |-> "active", comparable |-> TRUE, clocked |-> {"now", "before"}, dfs |-> "same",
           signals |-> given]
  BY <1>1 DEF Good
<1>. HIDE DEF given
<1>5. Report!Durations \cup Report!Storage \subseteq Report!Signals
  BY SignalsHere
<1>. QED
  <2>1. x \in Forms /\ x.signals = given
    BY <1>3, <1>4 DEF Forms, Statuses, Roles, Dispersions, Servings
  <2>. QED
    BY <1>3, <1>5, <2>1 DEF Reports

(* Reports remain reports when one thing in them is another.               *)
LEMMA StillReports ==
  ASSUME NEW x \in Reports, NEW y \in Forms, y.signals = x.signals PROVE y \in Reports
BY DEF Reports

LEMMA Answered ==
  ASSUME NEW x \in Reports, NEW b \in BOOLEAN
  PROVE  /\ [x EXCEPT !.step = b] \in Reports /\ [x EXCEPT !.sessions = b] \in Reports
         /\ [x EXCEPT !.nodes = b] \in Reports /\ [x EXCEPT !.matched = b] \in Reports
         /\ [x EXCEPT !.series = b] \in Reports /\ [x EXCEPT !.comparable = b] \in Reports
<1>1. x \in Forms
  BY DEF Reports
<1>2. /\ [x EXCEPT !.step = b] \in Forms /\ [x EXCEPT !.step = b].signals = x.signals
      /\ [x EXCEPT !.sessions = b] \in Forms /\ [x EXCEPT !.sessions = b].signals = x.signals
      /\ [x EXCEPT !.nodes = b] \in Forms /\ [x EXCEPT !.nodes = b].signals = x.signals
  BY <1>1 DEF Forms
<1>3. /\ [x EXCEPT !.matched = b] \in Forms /\ [x EXCEPT !.matched = b].signals = x.signals
      /\ [x EXCEPT !.series = b] \in Forms /\ [x EXCEPT !.series = b].signals = x.signals
      /\ [x EXCEPT !.comparable = b] \in Forms /\ [x EXCEPT !.comparable = b].signals = x.signals
  BY <1>1 DEF Forms
<1>. QED
  BY <1>2, <1>3, StillReports, Zenon

LEMMA Restated ==
  ASSUME NEW x \in Reports
  PROVE  /\ \A status \in Statuses : /\ [x EXCEPT !.clock = status] \in Reports
                                     /\ [x EXCEPT !.baseline = status] \in Reports
         /\ \A set \in SUBSET Roles : [x EXCEPT !.clocked = set] \in Reports
         /\ \A same \in {"same", "other", "anonymous"} : [x EXCEPT !.dfs = same] \in Reports
         /\ \A dispersion \in Dispersions : [x EXCEPT !.robust = dispersion] \in Reports
         /\ \A serving \in Servings : [x EXCEPT !.serving = serving] \in Reports
<1>1. x \in Forms
  BY DEF Reports
<1>2. ASSUME NEW status \in Statuses
      PROVE  [x EXCEPT !.clock = status] \in Reports /\ [x EXCEPT !.baseline = status] \in Reports
  <2>1. /\ [x EXCEPT !.clock = status] \in Forms /\ [x EXCEPT !.clock = status].signals = x.signals
        /\ [x EXCEPT !.baseline = status] \in Forms /\ [x EXCEPT !.baseline = status].signals = x.signals
    BY <1>1 DEF Forms
  <2>. QED
    BY <2>1, StillReports, Zenon
<1>3. ASSUME NEW set \in SUBSET Roles PROVE [x EXCEPT !.clocked = set] \in Reports
  <2>1. [x EXCEPT !.clocked = set] \in Forms /\ [x EXCEPT !.clocked = set].signals = x.signals
    BY <1>1 DEF Forms
  <2>. QED
    BY <2>1, StillReports, Zenon
<1>4. ASSUME NEW same \in {"same", "other", "anonymous"} PROVE [x EXCEPT !.dfs = same] \in Reports
  <2>1. [x EXCEPT !.dfs = same] \in Forms /\ [x EXCEPT !.dfs = same].signals = x.signals
    BY <1>1 DEF Forms
  <2>. QED
    BY <2>1, StillReports, Zenon
<1>5. ASSUME NEW dispersion \in Dispersions PROVE [x EXCEPT !.robust = dispersion] \in Reports
  <2>1. [x EXCEPT !.robust = dispersion] \in Forms /\ [x EXCEPT !.robust = dispersion].signals = x.signals
    BY <1>1 DEF Forms
  <2>. QED
    BY <2>1, StillReports, Zenon
<1>6. ASSUME NEW serving \in Servings PROVE [x EXCEPT !.serving = serving] \in Reports
  <2>1. [x EXCEPT !.serving = serving] \in Forms /\ [x EXCEPT !.serving = serving].signals = x.signals
    BY <1>1 DEF Forms
  <2>. QED
    BY <2>1, StillReports, Zenon
<1>. QED
  BY <1>2, <1>3, <1>4, <1>5, <1>6

LEMMA OtherwiseAreReports ==
  ASSUME NEW x \in Reports, NEW y \in Otherwise(x) PROVE y \in Reports
<1>1. \A s \in Report!Signals : x.signals[s] \in Measurements
  BY DEF Reports, Forms
<1>2. ASSUME NEW s \in Report!Signals \ (Report!Durations \cup Report!Storage), NEW o \in Measurements,
             y = [x EXCEPT !.signals[s] = o]
      PROVE  y \in Reports
  <2>1. y \in Forms
    BY <1>2 DEF Reports, Forms
  <2>2. \A t \in Report!Signals : t # s => y.signals[t] = x.signals[t]
    BY <1>2 DEF Reports, Forms
  <2>. QED
    <3>1. \A t \in Report!Durations \cup Report!Storage : t \in Report!Signals /\ t # s /\ x.signals[t].stale = {}
      BY SignalsHere DEF Reports
    <3>2. \A t \in Report!Durations \cup Report!Storage : y.signals[t].stale = {}
      BY <2>2, <3>1
    <3>. QED
      BY <2>1, <3>2 DEF Reports
<1>3. ASSUME NEW s \in Report!Signals \ (Report!Durations \cup Report!Storage), NEW r \in Roles,
             \/ y = [x EXCEPT !.signals[s].stale = {r}] \/ y = [x EXCEPT !.signals[s].doubted = {r}]
      PROVE  y \in Reports
  <2>1. /\ [x.signals[s] EXCEPT !.stale = {r}] \in Measurements
        /\ [x.signals[s] EXCEPT !.doubted = {r}] \in Measurements
    BY <1>1 DEF Measurements
  <2>. QED
    BY <1>2, <1>3, <2>1
<1>4. /\ [x EXCEPT !.step = FALSE] \in Reports /\ [x EXCEPT !.sessions = FALSE] \in Reports
      /\ [x EXCEPT !.nodes = FALSE] \in Reports /\ [x EXCEPT !.matched = FALSE] \in Reports
      /\ [x EXCEPT !.series = TRUE] \in Reports /\ [x EXCEPT !.comparable = FALSE] \in Reports
  BY Answered, TRUE \in BOOLEAN, FALSE \in BOOLEAN, Zenon
<1>5. /\ [x EXCEPT !.clock = "unsafe"] \in Reports /\ [x EXCEPT !.clock = "unchecked"] \in Reports
      /\ [x EXCEPT !.baseline = "unknown"] \in Reports
  BY Restated, Zenon DEF Statuses
<1>6. /\ [x EXCEPT !.clocked = {"now"}] \in Reports /\ [x EXCEPT !.clocked = {"before"}] \in Reports
      /\ [x EXCEPT !.dfs = "other"] \in Reports /\ [x EXCEPT !.dfs = "anonymous"] \in Reports
  <2>1. {"now"} \in SUBSET Roles /\ {"before"} \in SUBSET Roles
    BY DEF Roles
  <2>. QED
    BY <2>1, Restated, Zenon
<1>7. /\ [x EXCEPT !.robust = "within"] \in Reports /\ [x EXCEPT !.serving = "inactive"] \in Reports
      /\ [x EXCEPT !.serving = "transition"] \in Reports /\ [x EXCEPT !.serving = "changed"] \in Reports
  BY Restated, Zenon DEF Dispersions, Servings
<1>8. \/ y = x \/ y = [x EXCEPT !.step = FALSE] \/ y = [x EXCEPT !.clock = "unsafe"] \/ y = [x EXCEPT !.clock = "unchecked"]
      \/ y = [x EXCEPT !.baseline = "unknown"] \/ y = [x EXCEPT !.sessions = FALSE] \/ y = [x EXCEPT !.nodes = FALSE]
      \/ y = [x EXCEPT !.matched = FALSE] \/ y = [x EXCEPT !.series = TRUE] \/ y = [x EXCEPT !.comparable = FALSE]
      \/ y = [x EXCEPT !.robust = "within"] \/ y = [x EXCEPT !.serving = "inactive"]
      \/ y = [x EXCEPT !.serving = "transition"] \/ y = [x EXCEPT !.serving = "changed"]
      \/ y = [x EXCEPT !.clocked = {"now"}] \/ y = [x EXCEPT !.clocked = {"before"}]
      \/ y = [x EXCEPT !.dfs = "other"] \/ y = [x EXCEPT !.dfs = "anonymous"]
      \/ \E r \in {"now", "before"},
            s \in {t \in Report!Signals \ (Report!Durations \cup Report!Storage) : x.signals[t].now # <<>>} :
           y \in {[x EXCEPT !.signals[s].stale = {r}], [x EXCEPT !.signals[s].doubted = {r}]}
  <2>. DEFINE one == {x, [x EXCEPT !.step = FALSE], [x EXCEPT !.clock = "unsafe"], [x EXCEPT !.clock = "unchecked"],
     [x EXCEPT !.baseline = "unknown"], [x EXCEPT !.sessions = FALSE], [x EXCEPT !.nodes = FALSE],
     [x EXCEPT !.matched = FALSE], [x EXCEPT !.series = TRUE], [x EXCEPT !.comparable = FALSE],
     [x EXCEPT !.robust = "within"], [x EXCEPT !.serving = "inactive"], [x EXCEPT !.serving = "transition"],
     [x EXCEPT !.serving = "changed"], [x EXCEPT !.clocked = {"now"}], [x EXCEPT !.clocked = {"before"}],
     [x EXCEPT !.dfs = "other"], [x EXCEPT !.dfs = "anonymous"]}
         two(r, s) == {[x EXCEPT !.signals[s].stale = {r}], [x EXCEPT !.signals[s].doubted = {r}]}
         seen == {t \in Report!Signals \ (Report!Durations \cup Report!Storage) : x.signals[t].now # <<>>}
  <2>1. Otherwise(x) = IF \E s \in Report!Signals : x.signals[s] = Level(<<>>, <<1>>) THEN {x}
                       ELSE one \cup UNION {two(r, s) : r \in {"now", "before"}, s \in seen}
    BY DEF Otherwise
  <2>2. y = x \/ y \in one \/ \E r \in {"now", "before"}, s \in seen : y \in two(r, s)
    <3>. HIDE DEF one, two, seen
    <3>. QED
      BY <2>1
  <2>. QED
    BY <2>2, Zenon
<1>9. ASSUME NEW r \in {"now", "before"},
             NEW s \in {t \in Report!Signals \ (Report!Durations \cup Report!Storage) : x.signals[t].now # <<>>},
             y \in {[x EXCEPT !.signals[s].stale = {r}], [x EXCEPT !.signals[s].doubted = {r}]}
      PROVE  y \in Reports
  BY <1>3, <1>9 DEF Roles
<1>. QED
  BY <1>4, <1>5, <1>6, <1>7, <1>8, <1>9, Zenon

LEMMA CasesAreReports ==
  ASSUME NEW x, ReportCase(x) PROVE x \in Reports
<1>. DEFINE ruled == UNION {Assigned(DOMAIN Report!RuleBook[r].checks) : r \in DOMAIN Report!RuleBook}
            free == {"ray_pending", "policy_lag", "disk_busy"}
<1>1. PICK y \in ruled \cup Assigned(free) : x \in Otherwise(y)
  BY DEF ReportCase
<1>2. ASSUME y \in ruled PROVE y \in Reports
  <2>1. PICK r \in DOMAIN Report!RuleBook : y \in Assigned(DOMAIN Report!RuleBook[r].checks)
    BY <1>2
  <2>2. DOMAIN Report!RuleBook[r].checks \in SUBSET Report!Signals
    BY RuleSignals DEF Rules, ChecksOf
  <2>. QED
    BY <2>1, <2>2, AssignedAreReports
<1>3. ASSUME y \in Assigned(free) PROVE y \in Reports
  <2>1. free \in SUBSET Report!Signals
    BY UnruledHere
  <2>. HIDE DEF free
  <2>. QED
    BY <1>3, <2>1, AssignedAreReports
<1>. HIDE DEF ruled, free
<1>. QED
  BY <1>1, <1>2, <1>3, OtherwiseAreReports

(* Whatever levels the signals of a report have, whatever of them is lost, *)
(* doubted or outside the window, and whatever is known of the clocks, the *)
(* workload, the baselines, the replica and the storage's producers: a     *)
(* signal is called strong only if every check of its rule holds on        *)
(* undoubted evidence, taking evidence away strengthens none, and a        *)
(* verdict has grounds (evaluate_rules and the caps of analyze).           *)
THEOREM CautiousReport == \A x \in Reports : ReportIsRight(x)
BY StrongEarned, DoubtWeakens, GroundsAreGiven DEF ReportIsRight

(* Every decision about a report that MCDecisions makes is on one of these *)
(* reports, so its verdict is cautious (evaluate_rules and analyze).       *)
THEOREM CautiousVerdict == DecisionsSpec => []VerdictIsCautious
<1>. DEFINE Inv == decision = "report" /\ input # <<>> => input \in Reports
<1>1. DecisionsInit => Inv
  BY DEF DecisionsInit
<1>2. Inv /\ [DecisionsNext]_<<decision, input>> => Inv'
  <2>. SUFFICES ASSUME Inv, [DecisionsNext]_<<decision, input>>, decision' = "report" PROVE Inv'
    OBVIOUS
  <2>1. CASE UNCHANGED <<decision, input>>
    BY <2>1
  <2>2. CASE DecisionsNext
    BY <2>2, CasesAreReports DEF DecisionsNext
  <2>. QED
    BY <2>1, <2>2
<1>3. Inv => VerdictIsCautious
  BY CautiousReport DEF VerdictIsCautious, Right
<1>. QED
  BY <1>1, <1>2, <1>3, PTL DEF DecisionsSpec

=============================================================================
