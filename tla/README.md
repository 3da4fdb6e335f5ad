# Verification of xlayer-telemetry

TLA+ models of xlayer-telemetry: of the parts that keep state across threads,
processes, hosts or restarts, and of the decisions that its analysis, its
samplers and its commands take; the TLC runs that check them on small instances;
and the theorems that TLAPS checks for every value of the constants. Paths are
relative to the repository (`io_writer.py` is `xlayer_telemetry/io_writer.py`,
`verl_local.sh` is `scripts/verl_local.sh`); `PROJECT.json` maps every definition
to the lines it stands for.

## 1. The system

xlayer-telemetry observes Agent-RL training (VERL first of all) from outside.
A wrapper starts the workload and its sidecars; the workload's processes emit
events and metric snapshots through a small SDK; a bridge follows VERL's log and
persists one row for each training step; a diagnosis loop explains slow steps
and may ask a profiling hook or a language model for help; on every host a service
supervises exporters, samplers and dashboards, and one controller starts and stops
those services over ssh. Two rules are behind all of it (docs/architecture.md):
telemetry never changes what the workload does (it drops records rather than
block, keeps the workload's exit status, and stops only what it has started); and
what is unknown stays unknown (no value is borrowed from another entity, run or
time, and doubt never makes a conclusion stronger).

### Inventory: components that keep state

| Component | State | Operations | What is hard | What makes it correct |
| --- | --- | --- | --- | --- |
| SDK background writer (`io_writer.py`) | bounded queue and its bytes, one thread that retires when idle, closed/failed, counters | submit, the thread, flush, close, status, fork hook | lock sections that interleave, calls that time out, fork, a callback that hangs | limits kept, counts add up, order, no replay, `True` means settled, failures reported, calls return |
| Worker recorder handle (`worker_events.py`) | current recorder, its Run, closed | get, close, fork hook | replacement while tools use the old recorder, storage that hangs | records carry the Run of their tool, one busy writer, no inherited lock |
| Host service lifecycle (`verl_local.sh`) | pid file for each role, lifecycle lock | up, down, status | kill, reboot and pid reuse between any two steps | only own services are signalled, none is lost or doubled |
| Service supervisor (`run_telemetry.sh`) | array of children, bash's job table, textfiles | start, wait, validate, signal, cleanup | signals between any two commands, children that hang or whose number is reused | ends in its grace periods, leaves nothing that it does not report, signals only its own |
| Cluster lifecycle (`operations/cluster_lifecycle.py`, `cli.py`) | receipts, the pass; on a host, what ran before and after | up, down, status, the worker on a host | lost and late answers, rollback beside others, signals | rollback spares what others started; a failure that leaves something says so |
| VERL bridge, step history (`adapters/verl.py`, `step_history.py`, `fileio.py`) | position in the log, steps seen, history | follow, final export, append | truncation and replacement of the log, torn rows, kill in a write, full disk | every step once, rows stay readable, no step is given a time that is not its own |
| Run wrapper (`run_verl_with_telemetry.sh`, `owned_shutdown.py`, `logger_settle.py`, `telemetry_health.py`) | pids of the sessions, health record | start, wait, settle, stop, export, record, traps | signals between any two commands, sessions that hang or whose number is reused | signals only its own, leaves nothing quietly, records its exit status, ends |
| Diagnosis loop and its reports (`analysis/diagnostics.py`, `scheduling.py`, `diagnostic_artifacts.py`) | settle deadlines, pending retries, journal, latest report, projections | prepare, analyse, journal, publish, project, finalize | late evidence, kill between two writes, reboot, retries | every step final once, never before its evidence settled, projections repaired |
| Isolated analysis (`analysis/deadline.py`) | one worker process, unreaped one | send, deadline, stop, replace, guard | late answers, workers in uninterruptible I/O, death of the controller | an answer belongs to its request; workers do not accumulate; requests end |
| Node clock (`operations/clock.py`) and time mapping (`time_alignment.py`, spans of `events.py`) | backlog, connection in hand; offset, session, calibration file, cache | serve, guard, close; exchange, calibrate, load, map a span | a deadline racing the handler; clock steps at any moment; stale calibrations | only what is in hand is cut; a span lies where its mapping says, within its uncertainty |
| HTTP transport (`_http_transport.py`) | list of unreaped subprocesses, its lock | request, append, fork | threads between the check and the start, fork with the lock held | bounded subprocesses, no inherited lock |
| Incremental JSONL cache (`analysis/jsonl_cache.py`) | records read, stamp | read | a file that grows, is torn, rewritten or replaced during a read | equals reading the file afresh |
| Textfile collector (`metrics/textfile.py`) | bounded snapshot cache, selection per poll | poll | snapshots replaced and runs ended while a poll goes on | the newest snapshot of runs that go on; cache within its bounds |
| Grafana App (`operations/app.py`) | installed, staged, previous and retained trees; receipts, provisioning | install, update, roll back, recover, status, package | failure, interrupt or crash between two renames | a complete version is always kept; a failure restores; a status has grounds |
| Triggered profiling (`analysis/triggered_profiling.py`) | attempts, cooldown, keys seen, the hook | ask | threads at once, a hook that outlives its deadline | one hook at a time, within the budget |
| LLM diagnosis (`analysis/llm_diagnosis.py`, `llm_investigation.py`) | the command's phases, its output, projections | select, draft, review, write, project | a model that answers anything at any time, newer reports, kill and retry with the same output | what is published was reviewed in time and cites its own packet |

### Inventory: decisions

These parts keep no state worth a state machine, but their answers are easy to get
wrong and hard to cover by tests: pairing of evidence (`diagnostics.py`,
`diagnosis_analysis.py`), quality of samples (`evidence_quality.py`,
`observation_contracts.py`, `prometheus.py`, `query_budget.py`), verdicts
(`diagnosis_pipeline.py`, `diagnostic_signals.py`), baselines
(`robust_differential.py`), clock quality (`clock_quality.py`), storage reports
(`storage_series.py`), serving state of rollout replicas (`rollout_state.py`,
`rollout_replicas.py`), execution graphs and critical paths (`execution_graph.py`,
`trajectory_path.py`), behaviour signatures (`behavior_signature.py`), packets for a
model (`llm_diagnosis.py`), inventories and topologies (`cluster_inventory.py`,
`source_discovery.py`, `topology_validation.py`), settings (`operations/config.py`),
health (`operations/health.py`, `subsystems.py`, `operations/cluster.py`), the run
catalogue (`operations/runs.py`, `run_artifacts.py`), samplers
(`collectors/*.py`, `sandbox.py`), records and identities of producers
(`events.py`, `identity.py`, `metrics/emitter.py`, `adapters/verl.py`), and what the
monitoring server is told (`stack.py`, `alerting.py`, `manifest.py`).

How the parts interact: the writer is used by both recorders; the worker handle
owns recorders; the wrapper starts bridge, observer and diagnosis loop, and its
final export runs the bridge's code again on the same history; the loop isolates
its analysis in a worker, whose queries go through the HTTP transport, and reads
histories through the JSONL cache; cluster workers call the host lifecycle, which
starts the supervisor. The history file (under flock), the health record (replaced
by rename), the pid files (under the host's lock), the journal, the snapshots of
the producers and the worker's environment are the shared state.

The hazards, each at the line where it bites, are in `PROJECT.json` with the
properties that cover them.

## 2. Modules

### State machines

| Module | Stands for | State | Steps |
| --- | --- | --- | --- |
| `LossyChannel` | what a caller of the SDK may rely on | records pending, delivered, shut | offer, deliver in order, lose, shut |
| `BoundedWriter` | `io_writer.py` | the class's attributes, the thread's place, each caller's place in flush or close; history: offered, log, lost, refused | one for each section of code under the condition, each callback, each wait that ends |
| `WorkerRecorder` | `worker_events.py`, the writer reduced to queue, record in flight, closed, failed | the handle, its lock, recorders, tools | get in its sections, tool calls, the writers, close, fork, the environment |
| `HostLifecycle` | `verl_local.sh` | processes, pid files, lock, shells | one between two points where a kill or a signal makes a difference |
| `Supervisor` | `run_telemetry.sh` | command the shell is at, array of children, children (live, hung, ended, dropped from the job table), reused numbers, textfiles | one for each command or wait, and for each child it treats; children hang, end, fall to a signal |
| `ClusterLifecycle` | `cluster_lifecycle.py` | services, host locks, workers on hosts, controllers | send, worker, answer or deadline, booking, rollback, report, signal |
| `StepExport` | `adapters/verl.py`, `step_history.py`, `append_jsonl` | cells of the log files and of the history, the reader's variables | logger, file changes, one for each read, lock, write, failure, kill |
| `RunWrapper` | `run_verl_with_telemetry.sh` and its helpers | commands left to run, sessions (leader and rest), strangers with reused numbers, health record | one for each command or wait; processes start, fork, hang, end |
| `DiagnosisSchedule` | the loop of `diagnostics.py`, `scheduling.py`, `diagnostic_artifacts.py` | reports of each step, ages and deadlines, the batch, the derived files | prepare, repair, analyse, journal, publish, project, kill, reboot, finalizer |
| `IsolatedWorker` | `analysis/deadline.py` | worker processes, pipe, request in hand | send, answer, deadline, stop, reap, replace, kill of the controller |
| `ClockServer` | `operations/clock.py` | backlog, connection in hand, guard, closing | accept, register, handle, finish, guard, close |
| `ClockMapping` | calibration and spans | two wall clocks, sessions, exchange, calibration, cache, span | exchange, save, load, start and end of a span, clock steps |
| `HttpTransport` | `_http_transport.py` | subprocesses, lists, locks of parent and child | check, start, wait, append, fork |
| `JsonlCache`, `TextfileCollector` | the two caches | file, entry, read under way; snapshots, poll under way | one for each system call that another process may come between |
| `AppInstaller` | install, update, rollback | directories and files, steps to come, renames noted | each rename or replacement, its failure, interrupt, crash |
| `TriggeredProfiler` | `triggered_profiling.py` | lock, budget, hook | enter, decide, run, deadline, reap |
| `LlmDiagnosis` | the command of `llm_diagnosis.py` (with `LlmPacket` for its checks) | journal, phase, packet, time left, draft, review, output | report, select, ask, draft, review, publish, write, project, kill |

### Decisions

| Module | Decides |
| --- | --- |
| `ClockQuality` | what the metrics of the nodes' clocks and a recorded mapping allow to say |
| `EvidencePairing` | which engine, device, host or tool span is set against which |
| `DiagnosisVerdict` | rules, caps, findings and verdict over paired levels |
| `BaselineSelection` | cohort of earlier steps, slow stage, robust shift, declared engines |
| `SamplingQuality` | doubts about a value's samples, counters, queries that are not sent once a budget of time is over |
| `StorageSeries` | the storage service's reports under a budget of points |
| `RolloutState` | the state a replica is proven to be in, and comparability of two windows |
| `ExecutionGraph` | graph of spans, critical path, references of a comparison |
| `BehaviorSignature` | summary of a step's events, comparison, candidates |
| `LlmPacket` | the packet a model gets and what its answer may cite |
| `Inventory` | layers of settings, the migrated file, settings of a check; topology, targets and sources compiled from an inventory; what is published of a topology file |
| `HealthStatus` | `xltel status`, `doctor`, `cluster validate` |
| `RunCatalogue` | summary of a run, comparison of two, catalogue, snapshot |
| `Collectors` | files of the GPU and sandbox samplers, device evidence of spans |
| `EventRecords` | identities, records, snapshots, publication, VERL translation |
| `MonitoringStack` | target files, readiness, alert rules, manifest, package and status of the App |

They are sets of operators with an argument for what the code reads; their
properties relate the answer to the truth behind the input, or to the answer for a
related input.

### Composition

`BoundedWriter` refines `LossyChannel` (`Channel == INSTANCE LossyChannel WITH …`):
the record in the callback's hands is still pending, and a failed writer is shut
like a closed one. `WorkerRecorder` and `StepExport` use the writer's and the
wrapper's behaviour in the reduced form their comments give. `LlmDiagnosis` extends
`LlmPacket`. `MCServices` and `MCSubsystems` put
components that do not interact side by side: the part that runs is chosen at the
start and the others stay as they are, so that state spaces are added, never
multiplied. `MCDecisions` and `MCOperations` choose one case of one kind of
decision; a case is an input that files, endpoints or processes can produce.
The theorems about a module `M` are in `MProofs`, those about the modules that
`MCServices` puts side by side in `MCServicesProofs`, and those about the modules of
`MCSubsystems` in `MCSubsystemsProofs`, and those about a diagnosis's report, a case
of `MCDecisions`, in `MCDecisionsProofs`.

Some modules hold an operator that no other definition uses and that is a wrong
version of the one after it, named for the mistake (its comment says so).
Substituted for the right one it must make a property fail, which shows that the
property depends on that line of the code.

### Abstractions, module by module

- **BoundedWriter.** Records are numbered by the call that offered them; payloads
  have a size. Both kinds of writer (events in order; metric snapshots of which the
  latest replaces the one queued) are behaviours of one specification: `latestOnly`
  is a variable chosen at the start. Time is left out: a wait with a deadline may
  end at any moment. The callback writes, raises, or does not return; it may raise
  although the record is in the file. `status()` between the count of a write and
  the end of its `finally` section counts that record twice, which `StatusAddsUp`
  spells out. A child forked between a failure and its report inherits `_failed`
  without `disabled`.
- **WorkerRecorder.** The environment changes between calls of `get()` and always
  names a Run; recorders are asynchronous; forks happen between tool calls or in
  another thread's `get()`.
- **HostLifecycle.** The identity check through `/proc` and the signal after it
  are one step: a pid that is reused between those two lines cannot be excluded by
  the code and is not explored. A command refused because the lock is held is no
  step. The lock's descriptor in short-lived foreground children and pid files of
  the old two-field format are not modelled.
- **Supervisor.** The checks of the settings are one step that fails or not, and the
  configurations that are rendered are left out. The look at the job table and the
  signal after it are one step. A child that ignores TERM and one that is stopped
  are the same; a signal reaches one in uninterruptible I/O when that ends. The
  validator's own deadline is trusted. KILL of the supervisor is in `HostLifecycle`.
- **ClusterLifecycle.** The launcher is reduced to its outcomes (`HostLifecycle`
  has its insides). A launcher that outlives its worker is a worker abandoned
  after the launch, and an error before or after it is one of its outcomes.
  Validation of requests and replies is not modelled: an invalid reply is an
  unknown answer. The status action only reads.
- **StepExport.** A line is two cells, so that it can be torn; a last line that
  lacks its end is left by a reader that follows, and read by the final export,
  which parses it or not. Open, fstat and pread of one look are one step. What a
  failed flush leaves in the buffer is written again by `close()` without the
  lock, as in the code; a second live writer at that very moment is not explored.
- **RunWrapper.** The check of ownership and the signal it authorizes are one
  step. Diagnostics are a parameter; the instance leaves them out because their
  session is stopped like the logger's. INT and TERM differ in the exit status
  alone. TERM ends a child that has not yet become what it runs; what a program
  makes of TERM is up to the program. Arguments, the refusal of an output directory
  in use, the issues listed in the health record, and a KILL of the wrapper itself
  are not modelled.
- **DiagnosisSchedule.** The journal is reduced to what a reader folds it to, the
  last report of each step; times count ticks up to the limits they are compared
  with. One process at a time, as `RunIsSettled` shows for the wrapper.
- **IsolatedWorker, HttpTransport.** A worker is named by the request it was
  started for; what it answers is left out. A worker in uninterruptible I/O stays
  until the I/O ends, whatever signal it gets.
- **ClockServer, ClockMapping.** Time passes in ticks; monotonic clocks do not
  drift (the terms in `drift_ppm` vanish), wall clocks are stepped by whole ticks,
  and no host reboots. `ClockQuality` has the drift where it is compared.
- **JsonlCache, TextfileCollector.** A row or a snapshot is a value with a size; a
  stamp is never that of another file, but an inode number is used again.
- **AppInstaller.** A directory is the version it holds, a part of one, or absent.
- **TriggeredProfiler.** A hook outlives its deadline or not; what it does is left
  out. Each caller asks for one step.
- **LlmDiagnosis.** The model answers anything from `Answers`, late or not at all.
  Prompts, the model's view of a packet and the check of its language are left out;
  the check of its citations is `LlmPacket`: entities are told apart by the fixed
  list of labels and by the endpoints of vLLM; a worker's run and role are left out.
- **Decisions.** Texts (PromQL, SQL, titles, explanations) are left out; a
  measurement is a level relative to its threshold or a small integer, an optional
  value a sequence of at most one. Each module's first comment gives the form of
  its inputs; a parameter it mentions (an inventory of clock nodes, a cluster's
  address) is enumerated by the cases. A query is the longest silence of its
  backend and the time it takes: a timeout bounds the one, not the other.

## 3. Runs

| Run | Question | Bounds, and why they are enough |
| --- | --- | --- |
| `writer` | Do limits (`LimitsKeepTheNewest`), accounting (`StatusAddsUp`), order (`InOrderNoReplay`), settlement (`DrainedMeansSettled`) and failure reports (`QuietFailureIsReported`) hold for both kinds of writer, does it implement the channel (`ImplementsChannel`), do calls return (`CallsReturn`), is nothing stranded (`NothingStranded`)? | 2 callers in flush/close, capacity 2, sizes 1, 2 and 4 against 3 bytes (fits, fills, too big), 3 records (one more than the queue), 2 timeouts; forks anywhere |
| `worker_open` | Does `get()` return an open recorder unless the handle was closed (`GetReturnsOpenRecorder`)? **No** | 1 thread, 2 Runs, 2 recorders, 2 changes of Run |
| `host_safety` | Are only own services signalled (`SignalsOnlyItsOwn`), none lost or doubled (`OneTrackedServiceEach`), is a failed up undone (`FailedUpCleansUpRecorded`)? | 2 launchers and 2 commands, 2 pids so that reuse is forced, 2 foreign processes, 2 boots |
| `host_interrupt` | Does a failed up clean up what it started, even if a signal arrives (`FailedUpCleansUp`)? **No** | as above |
| `cluster_rollback` | While services die and local commands replace them, is rollback confined to its own (`RollbackSparesOthers`), does a failure that leaves something running say so (`LeftoversAreUnconfirmed`), does an invocation end (`InvocationsEnd`)? | 1 controller, 3 roles on 2 hosts (two share a host's lock), 1 local command, 1 death |
| `cluster_late` | Is an up that a signal ends accounted for (`InterruptedUpIsAccountedFor`)? **No** | 1 controller, 1 local command |
| `export_restarts` | Is every step persisted once (`EachStepOnceUnlessLingering`) and readably, with no time that is not its own (`HistoryIsSound`), and is the final export complete (`FinalExportIsComplete`)? | 3 records, a bridge, its restart and the final export, one truncation or replacement, one failed write, kills anywhere |
| `wrapper_safety` | Does the wrapper signal only its own (`OnlyOwnIsSignalled`), leave nothing quietly (`NothingSurvivesQuietly`), do the final work alone and settle the record (`RunIsSettled`), and end (`WrapperEnds`)? | workload and 3 sidecars, 2 members that hang at a time (one holding a lock, one pending after KILL), one reused number, one signal |
| `services` | Is a step final once, never early, and repaired first (`DiagnosisIsRight`), and does every step become final (`StepsBecomeFinal`)? Does no answer, deadline or worker meet another request (`RequestsAreIsolated`), and does every request end (`RequestsEnd`)? Does a supervisor leave nothing and signal no stranger (`NothingIsLeft`), and does it end (`SupervisorEnds`)? | 2 steps in batches of 1, limits of 2 ticks, 1 kill, reboot or failed request; 3 requests (a late answer can meet the next and the one after); 2 connections, deadline of 2 ticks; 3 children (two services and a validator, or three collectors) and 2 polls in a grace period |
| `supervisor_exits` | Does a supervisor end when any of its services has ended (`ExitsWithAnyService`)? **No** | as above |
| `subsystems` | Worker handle (`RightRun`, `HandleStaysUsable`), subprocesses and hooks (`WorkIsBounded`), caches and the clock mapping (`CachesAreFresh`), the App's directories (`InstallationSurvives`), a model's diagnosis (`DiagnosisIsGrounded`) | 2 threads, 2 Runs, 3 recorders (one replacement more than a busy writer allows); 2 callers and a forked one, 3 subprocesses; files of 3 rows and 3 inode numbers; 2 snapshots within 3 bytes; 2 clock steps and 2 exchanges in 3 ticks, calibrations live 2; 2 attempts at 3 steps; 2 commands in 2 ticks of time with 2 reports |
| `decisions` | Below | about 737 000 cases |

`services` checks the types of all its parts as well (`TypesOK`); the other runs'
first property of a part holds its type invariant.
The cases of `decisions`, each checked against a definition of what is right that
does not use the code's way of computing it:

| Property | Cases and what is right of them |
| --- | --- |
| `TimesAreTrue` | *clocks*: evidence of a node, statuses of three nodes, records with one another's mappings: losing evidence never makes a clock aligned, a mapping certifies no other node, a window is where the record was. *traces*: trajectories with true times, measured with errors of up to one on one node or two, or of up to three outside of the window in which the clocks are known to agree: the critical path is the one the true times give, or is not claimed, as it is not when a record or link lacks its ids. |
| `EvidenceIsOwn` | *pairs*: two answers of up to two series each with twins, gaps and the nameless. *replicas*: lives of a replica over seven instants, observed in part, out of order or not at all: a state that is claimed is the true one throughout the window. *packets*: answers of two queries in two windows. *topologies*: inventories of two nodes with what may be wrong with them. *producers*: names, environments, calls whose body or write fails, two workers' snapshots: files do not collide, producers of one process agree on who they are, what is published comes from its worker. |
| `VerdictIsCautious` | *report*: every assignment of levels to the signals of each rule with at most one further doubt: what is strong is so with baseline, clocks and sampling in order; with a doubt added nothing is stronger; a verdict has its findings. |
| `BaselinesAreFair` | *peers*: histories of up to two steps that differ in anything, and of six: the cohort is of the same workload, earlier and disjoint, a replayed history adds nothing, only slower is slow. *behavior*: events with foreign, repeated, cyclic and invalid ones. |
| `SamplingIsKnown` | *samples*: two entities' samples around an interval, counters that are reset and seen in part, slow and failing backends under a budget of time (it is no deadline: an answer that keeps coming may outlast it, but nothing is asked once it is over or after the transport failed), storage reports. *samplers*: rows of the GPU query, histories of a cgroup, device counters of sandbox spans with resets: no stale or zero sample for what was not read, no history for a difference. |
| `OperationsAreTrue` | *settings*: layers of seven settings: the migrated file gives every other reader the same. *health*: pid files, targets, endpoints, sources, files around a healthy host: healthy is what was seen of this host. *runs*: files of up to three records: a summary is of its run, a difference of comparable runs. *stack*: target files, attempts, alert histories, manifests, packages and answers of the App: each status has its grounds. |

`CHECK_DEADLOCK FALSE` stands where the system stops: every model ends when its
bounded inputs are used up, with its decision, or with the wrapper's exit.
Symmetry is used for interchangeable threads, Runs, launchers and pids in runs
with no liveness property.

### What the runs show

All properties of the passing runs hold in the instances. Four runs show a
disagreement between the code and what a document, comment or test says of it:

1. **`worker_open`** (`worker_events.py:39`). `get()` closes the recorder of the
   old Run and, while its writer is busy, keeps naming it. If the environment
   returns to the old Run meanwhile, the comparison finds no change and the closed
   recorder is returned, then and ever after.
2. **`host_interrupt`** (`verl_local.sh:133`). A signal after the service is in the
   background and before its pid file is written leaves it running and unrecorded.
3. **`cluster_late`** (`cluster_lifecycle.py:248`). A signal outside the ssh calls
   of the first pass, the whole rollback included, ends the invocation with
   services running and no report.
4. **`supervisor_exits`** (`run_telemetry.sh:623`). "Exit and clean up siblings when
   one managed service exits" (622): a service that a signal ends before the shell
   is at `wait -n`, for a server any time in the validator's 90 seconds, is reported
   by bash between two commands and drops out of the job table. `wait -n` then says
   "no such job" (bash 5.2) and waits for the others; the supervisor stays without
   the service until another one ends.

Remarks that no run states:

- The wrapper may be held up by a sidecar: it waits for `timeout(1)`, which waits
  for a helper it has killed (`run_verl_with_telemetry.sh:426`), and its final
  export waits for the flock of a bridge that KILL could not end (446), which the
  comment at 302 wants to exclude. `WrapperEnds` therefore assumes that nothing
  hangs for ever.
- `get()` closes the old recorder with `close(0)`, which discards what is queued,
  while worker_events.py:4-5 speaks of waiting for it to drain.
- A step may be persisted twice if a bridge is killed while the kernel carries out
  its write and the next bridge reads the history before that write lands; hence
  the exception in `EachStepOnceUnlessLingering` (step_history.py:40 says once).
- A signal between the launch of a session and the assignment of its number leaves
  that session to itself, the workload included; hence the exception in
  `NothingSurvivesQuietly` (docs/verl-reference.md:145 says it is ended).
- A signal between the start of a managed child and its entry in the array leaves
  that child running when the supervisor is gone, and a second signal between the
  first two lines of `cleanup` ends it before it has stopped any; hence the
  exceptions in `NothingIsLeft`.
- An observer that is pending after KILL may replace the finished health record by
  a running one; hence the exception in `RunIsSettled`.
- A failed append ends the bridge; only the next bridge, at the latest the final
  export, reads the log again from its start and adds the step.

### Fairness

- **Writer.** The thread's only wait has a timeout, and so have flush and close, so
  both are weakly fair. Storage is not assumed to answer: `CallsReturn` holds
  without, and `NothingStranded` names that assumption itself.
- **Cluster.** A controller's steps are weakly fair: each ssh call has a deadline.
  Nothing is assumed of hosts, workers or answers.
- **Wrapper.** The shell runs its commands, and its own waits are bounded; the
  logger's helper and its `timeout(1)` end unless they hang. Nothing is assumed of
  workload, bridge or observer.
- **Diagnosis loop.** Its process is scheduled, its worker answers or misses its
  deadline (`RequestsEnd` of the isolated worker), and time passes. Preparing a
  batch is strongly fair, because a tick that makes a step due and the kill of a
  process may disable it for a moment.
- **Isolated worker.** The controller runs, its deadline comes, and a worker's guard
  polls its parent. A worker is not assumed to answer or to leave its I/O.
- **Clock server.** Both threads are scheduled and time passes. A client may never
  end its request.
- **Supervisor.** The shell runs its commands, and the validator ends at its own
  deadline. Nothing is assumed of the services.
- The other modules have safety properties only.

## 4. Theorems

Eight modules hold theorems, each about the module it is named after (`MCServicesProofs`
about the four that `MCServices` puts side by side, `MCSubsystemsProofs` about
`WorkerRecorder` and the seven beside it, `MCDecisionsProofs` about the reports of
`MCDecisions`) and for every value of its constants. The bounds of the instances are
parameters too, so nothing depends on their values, with two exceptions:
`GroundedDiagnosis` is about the packets and answers that `MCSubsystems` defines and
at most two reports (for any number of commands and any time they take), and the
file of `JsonlCache` has one of three numbers (for any rows and any length).
`CautiousReport` has no constants: it is about every report whose levels are
integers and whose durations and 3FS values are never stale (the former come from
the step's record, the latter from the storage's database over the window, not from
a sample with a time of its own), where the run of `decisions` enumerates the
signals of one rule with at most one more doubt.
What is assumed of the constants is in one named assumption for each module (three
for the wrapper), which TLC evaluates in every run:

- `WriterAssumption`: what the constructor of the writer validates.
- `ScheduleAssumption`: periods and limits are numbers, and `Never` is not.
- `ServicesAssumption`: numbers of requests and connections, a deadline; a supervisor
  has a child and polls at least once.
- `SubsystemsAssumption`: finitely many threads request, limits and versions are
  numbers, there is a key, and "free" is nobody that could hold a lock; times, steps,
  exchanges, commands and sizes are numbers, and the collector's cache has room for a
  file and a byte.
- `HandleAssumption`: there is a recorder, and no recorder is no other value.
- `HostAssumption`, `ExportAssumption`: there is a boot, there is a bridge, each
  bridge follows or not, and `None` is no other value.
- `ClusterAssumption`: there is a target, each has a host, and `None` and `Local`
  are no other value.
- `SidecarsAssumption` (bridge, health and logger, with or without diagnostics, as
  in the wrapper), `OutcomesAssumption` ("none" is no signal and no status),
  `BoundsAssumption`.

| Theorem | States | Inductive invariant |
| --- | --- | --- |
| `Typing` | `TypeOK` of the writer | itself |
| `StatusAccounting` | `StatusAddsUp`: what `status()` reports adds up to what was accepted | with `TypeOK` |
| `FailuresAreReported` | `QuietFailureIsReported` | with where the thread is between the error and the report |
| `InOrderDelivery` | `InOrderNoReplay` | `OrderInv`: queue, record in hand and file are ordered, all newer than the fork |
| `DrainedIsSettled` | `DrainedMeansSettled`: after a `True` every earlier record is written or discarded | `SettleInv`: a record leaves the queue only to be written, to fail or to be dropped |
| `LimitsAreKept` | `LimitsKeepTheNewest`: the limits, an exact count of bytes, the newest record stays | `LimitInv` |
| `WriterImplementsChannel` | `ImplementsChannel`: every step maps to a channel step or a stutter | `OrderInv`, since the channel delivers the oldest record first |
| `UsableForGood` | `HandleStaysUsable`: types, a lock that only `get()` holds, one busy writer | `HandleInv` |
| `LabelledRight` | `RightRun`: a record carries the Run its tool asked for | `HandleInv` |
| `BoundedWork` | `WorkIsBounded`: subprocesses that outlive their deadline are no more than the threads that request; profile hooks run one at a time, within budget and cooldown | `TransportInv`, `ProfilerInv` |
| `SurvivingInstallation` | `InstallationSurvives`: a complete version stays somewhere; a failed operation leaves everything as it found it | `InstallerInv` |
| `FreshCaches` | `CachesAreFresh`: the JSONL cache and the collector give what reading afresh would, within their limits; a mapping bounds its true error | `CacheInv`, `MappingInv`, `CollectorInv` |
| `GroundedDiagnosis` | `DiagnosisIsGrounded`: what a model's diagnosis cites was measured, of the newest report, reviewed, in time | `LlmInv` |
| `CautiousReport` | `ReportIsRight` of every report: what is strong is earned, what is taken away strengthens nothing, a verdict has grounds | none: `Reports`, the shape of a report |
| `CautiousVerdict` | `VerdictIsCautious`: so it is of every report that is decided on | the input is among `Reports` |
| `OnlyItsOwnIsSignalled` | `SignalsOnlyItsOwn`: only the service a pid file was written for is signalled, by a failed up only what it started | `HostInv` |
| `FailedUpIsUndone` | `FailedUpCleansUpRecorded`: a failed up has told what it started and recorded to stop | `HostInv` |
| `TrackedAndOnce` | `OneTrackedServiceEach`: types; no service is lost, none runs twice | `HostInv` |
| `RollbackIsConfined` | `RollbackSparesOthers`: a rollback stops only what its own invocation started on a role that was down | `OwnInv` |
| `LeftoversAreTold` | `LeftoversAreUnconfirmed`: what a failed up leaves running it has reported as unconfirmed | `AccountInv` |
| `OnceUnlessLingering` | `EachStepOnceUnlessLingering`: a step has one row in the history | `StepInv` |
| `SoundHistory` | `HistoryIsSound`: types; rows stay readable; a window of time was observed | `StepInv` |
| `CompleteExport` | `FinalExportIsComplete`: the final export leaves out no step | `StepInv` |
| `OnlyOwn` | `OnlyOwnIsSignalled`: the wrapper signals its own | `WrapperInv` |
| `NothingQuiet` | `NothingSurvivesQuietly`: what outlives the wrapper was told of | `WrapperInv` |
| `SettledRun` | `RunIsSettled`: the final export is alone, the record has the exit status | `WrapperInv` |
| `ScheduleTypes` | `ScheduleTypeOK` of the diagnosis | with `BatchInv` |
| `DiagnosedRight` | `DiagnosisIsRight`: one final report of a step, on settled evidence; what is owed is repaired first; a finalizer leaves nothing | `ScheduleInv` |
| `ServicesTypes` | `TypesOK` of the four services | `ServicesInv`, the four together |
| `RequestsIsolated` | `RequestsAreIsolated`: an answer is its request's, written by the only worker; the watched deadline is that of the connection in hand | `IsolatedInv`, `ServerInv` |
| `CutWhenDue` | `CutIsDue` (in `RequestsEnd`): a connection is cut at its deadline or at the close, at no other step | `ServerInv` |
| `NothingLeft` | `NothingIsLeft`: what a supervisor recorded is stopped or reported, no stale sample stays, no stranger is signalled | `HostInv` |

### Why the invariants are what they are

- **`OrderInv`.** `InOrderNoReplay` says nothing of the queue: writing the record in
  hand keeps the file ordered only if that record is newer than all in the file,
  which in turn depends on the order of the queue.
- **`LimitInv`.** The totals of the queue's sizes stay totals when records are dropped
  in front or one is added behind, so `queuedBytes` is never off by a record. That
  the newest record is kept needs two facts the limits do not mention: a caller takes
  the records it sweeps after the door was shut, and the thread takes them in order.
- **`HandleInv`.** A thread inside `get()` holds the lock, so the environment's Run,
  the recorder at hand and its door stay as the thread left them (`Inside`). A tool
  may keep a recorder that has been replaced, but that one's door is shut
  (`Equipped`): hence the new one is the only writer that can become busy. A recorder
  is given its Run once, before its first record, so what is queued or in flight
  stays right (`InHand`).
- **`HostInv`.** One command is at work at a time, under the lock (`AtWork`). Start
  times are given out in order within a boot (`ProcessInv`, `Budget`), so a pid
  file that names a process names the one it was written for (`FileInv`) although
  pids are used again. What an up has started is its child of the moment, or is
  named by the pid file of a role in `started` (`OwnOnly`), which is the list that
  its cleanup goes through.
- **`OwnInv`.** A worker holds its host's lock from its admission to its reply
  (`Locks`), so nothing replaces the service between the comparison of its identity
  and the launcher (`Unreplaced`), and what runs after the launcher on a role that
  was down is the worker's own (`OwnAfterLaunch`). Identities are not used twice
  (`IdsGivenOut`), so one in a receipt is for good that of a service the invocation
  started (`Vouched`), wherever it is: in the worker's reply, in the answer, in
  `receipts`, or in the `expected` of the request that undoes it.
- **`AccountInv`.** As long as an invocation has no reason to doubt, every service it
  has started is known to it, or will be: its identity is promised by the worker of
  the call in hand, is in the answer, or is in a receipt that is still to be rolled
  back (`Known`); and a role whose down succeeded is down (`Undone`). Whatever breaks
  this (a worker abandoned, an answer lost) makes the report unconfirmed (`Doubtful`).
- **`StepInv`, the history.** `GrownRows`, `GrownKeeps` and `GrownOn` are about the
  text alone: however much of a row is appended after the separator that the repair
  chooses, no row is lost and that one at most appears, and what a failed flush left
  in the buffer is the rest of that same row. On that rests `AppendInv`: a bridge
  knows every readable row but those that linger, writers are one at a time
  (`ProcessInv`), and a bridge whose flush failed is alone with its rest (`CloseInv`).
- **`StepInv`, the files.** Cells are in the order of their records (`FilesInv`), so
  a line occurs once in a file. First cells beyond the backlog, in the file and in
  what was read ahead of a file truncated since, are of records logged since the
  file was opened (`FreshInv`). The lines before a final export's position have been
  handled, and what was a complete line stays whole or is gone (`TargetInv`).
- **`WrapperInv`.** It speaks of the order of the commands that are left (a session
  that is named is stopped later, no session is started twice, the export follows the
  stop of its bridge), never of places in the script; that the two scripts, and the
  short one of the trap, are so ordered is proved once from the lists. A number is
  held until its session is stopped (`PidInv`); a sidecar that had its KILL is down
  or doomed (`PastInv`); a stranger carries a sidecar's number only when nothing of
  that session is alive (`StrayInv`), which the check of ownership then notices.
- **`ScheduleInv`.** A deadline is never before its evidence settles, and a step that
  was attempted once has settled for good (`SettleInv`); so replaced engines may
  forget deadlines. A batch has settled, unfinished steps and none twice (`BatchInv`),
  so a final report is written once. What is not projected is on the list of the
  repair or in hand (`FilesInv`). While a finalizer waits, every deadline is within
  what is left of its wait (`FinalizerInv`); so when it plans again all are ready.

- **`IsolatedInv`.** A worker that is kept after its request has nothing in its pipe
  (`Clean`); one whose pipe may hold a late answer is stopped before the controller
  takes another request, and one that outlives its KILL is `unreaped`, which no
  request starts beside. While a request waits, its worker's pipe holds that request
  or its answer, never both.
- **`ServerInv`.** A connection that is open or cut is the one in hand (`InHandOnly`),
  so the guard, which looks at the registered one only, can cut no other.
- **`HostInv` of the supervisor.** A number is used again only after its child ended,
  and a child that ended never lives again; so a child that lives is no stranger. The
  report goes through all children in order while none is started any more.
- **`TransportInv`.** A subprocess that lives belongs to the request in hand or is on
  its process's list (`ClaimInv`); a thread that has passed the check found everything
  listed gone. So the subprocesses without a request and the threads past the check are
  counted together, and that count never exceeds the number of threads (`CountInv`).
- **`ProfilerInv`.** Who is past the first look holds the lock, and a hook that has not
  gone is the holder's; an attempt is counted and its time kept before its hook starts.
- **`InstallerInv`.** The directories are a function of the steps noted as taken
  (`Installed`, `RolledBack`) and of how much of that was undone (`Restored`,
  `Reverted`). An interrupt leaves one step done that is not noted; then the
  directories need not come back, but what each held is still in it or in the one it
  was renamed to (`Unnoted`), since no rename is made onto what is there. TLC checked
  this invariant on the instance first.
- **`CacheInv`.** Between the `fstat` and the last row the file may be appended to,
  torn or replaced. While its rows are read, the file at the path either is still the
  one that was opened, or has another number, since a number is not given out while
  the reader keeps the file open (`Following`). So what is put into the cache under a
  number was a beginning of the file with that number. That a file which has the
  entry's number and looks like it begins with the same rows (`Recognised`) has to
  survive every write: it is the condition under which the reader may start at the
  offset it kept. A file that takes a number over is under `Contract`, the assumption
  on the producers that the comparison of two places in the code makes.
- **`MappingInv`.** Every mapping that is anywhere (a sample, the file, the cache) is
  `Truthful` of its session: the answer was given between the two readings of the
  monotonic clock, so half the round trip bounds the error at the anchor. A span takes
  a mapping only if the wall clock has kept its distance from the monotonic one since
  the anchor, so what is true at the anchor is true of the span's times; a step of the
  reference clock begins another session at the next answer and leaves what was said
  of the earlier ones true.
- **`CollectorInv`.** `bytes` is the sum over the entries, which are within the limits
  after each put (`CacheHolds`); a poll has each file that stayed unchanged since it
  began still to come or has shown it (`PollCovers`), even if its entry was evicted
  in between.
- **`LlmInv`.** A command that has got to its questions has the packet of the newest
  final report among those it read (`OfNewest`); past them, a reviewed answer that is
  valid for this packet and, if accepted, the draft unchanged (`IsReviewed`); what
  follows is done with time left.

- **`Less`, for the verdict.** A doubt is not compared with the report it was added
  to, but through what is left of that report (`Less`): each signal's value is as it
  was or gone, no doubt is lifted. `StateIs` puts the six caps that a candidate goes
  through into one condition, `Fallen` or `Limited`; either stays true when less is
  left (`OrdinaryIsLess`), since a rule that is still triggered has lost no trigger and
  a lost value is `Missing`. The rule of the shared file system is not of that kind:
  it looks at whichever of two signals holds, so what counts as observed may change from
  one to the other; but if what is left supports it, the slow step and one of the two
  did so in the whole, and it is never strong (`DfsIsLess`).
  That the rules are of these kinds is proved from the twenty of them (`EachIsMade`).

The collector's sums and selections and the choice of the newest report are recursive
functions over sequences. The lemmas `Induction`, `Least`, `Recursion` and `Unique`
of `MCSubsystemsProofs` give induction and the value of a recursive function with sets
in place of predicates (a set of numbers with 0 and, with a number, the next one, has
all numbers), which the provers can instantiate; `Appending` and the lemmas after it
say what one more entry changes.

One lemma for each action, or for each group of actions that disturb the same part,
keeps each invariant; TLC checked the invariants on the instances before they were
proved.

### Only model-checked

- The other decisions (`TimesAreTrue`, `EvidenceIsOwn`, `BaselinesAreFair`,
  `SamplingIsKnown`, `OperationsAreTrue` of `MCDecisions`): each is
  a statement about enumerated inputs, made of folds and recursive functions over
  graphs, histories and records. The induction in the form of sets that the collector
  needed would have to be repeated for each of some hundred of them; the prover has no
  induction with an operator as its parameter.
- All liveness (`CallsReturn`, `NothingStranded`, `InvocationsEnd`, `WrapperEnds`,
  `StepsBecomeFinal`, `RequestsEnd`, `SupervisorEnds`): the prover has no reasoning
  about fairness.

## 5. Not modelled

- The **straggler among participants** and the DFS **writes** in `DiagnosisVerdict`
  (the latter are judged as the reads), the differences of compared trajectories and
  the metrics of behaviour summaries: arithmetic of one value each.
- **Texts**: query catalogues, explanations, prompts, the storage overview, printed
  summaries, plans and the rendering of configurations and dashboards.
- The **process sampler** (its file is replaced like the GPU sampler's, which is
  modelled), the `hf_trainer` adapter (callbacks around the modelled recorder and
  emitter), and `step_backfill.py` (an offline rewrite of a finished history).
- The **Grafana app** (TypeScript on Grafana Scenes, whose event order belongs to
  that framework), its browser validation scripts, the demos, and installers and
  repository tooling.

## 6. Order of work, and what could follow

The project grew from what may lose or damage something to what may mislead: the
writer and its worker handle; host, cluster, history and wrapper; the services with
deadlines and the supervisor; the caches, installer and clocks; the decisions of the analysis; those of
the commands and of the producers; then the proofs, of the writer, the handle, the
cluster, the host, the wrapper, the export, the services, the transport, the profiler,
the installer, the caches, the clock mapping, a model's diagnosis and the verdict. In the same
spirit, next would be: `HostLifecycle` over `Supervisor`; and a composition of
`DiagnosisSchedule` with `IsolatedWorker` instead of the worker's reduced form.
