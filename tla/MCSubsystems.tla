---------------------------- MODULE MCSubsystems ----------------------------
(***************************************************************************)
(* The safety of components that do not interact, each a behaviour of its  *)
(* own: the part that runs is chosen at the start and the others stay as   *)
(* they are, so that their state spaces are added and never multiplied.    *)
(***************************************************************************)
EXTENDS WorkerRecorder, FiniteSets, TLC

CONSTANTS Callers, Forked, MaxWorkers, Values, MaxRows, Latest, TTL, MaxTime, MaxSteps,
          MaxSent, Jobs, MaxFiles, MaxBytes, Sizes, MaxObserved, Askers, Keys, Cooldown,
          Attempts, MaxClock, Commands

ASSUME SubsystemsAssumption ==
  /\ MaxWorkers \in Nat /\ IsFiniteSet(Callers) /\ "free" \notin Callers \cup {Forked}
  /\ Cooldown \in Nat /\ Attempts \in Nat /\ MaxClock \in Nat
  /\ Keys # {} /\ "free" \notin Askers /\ Latest \in Nat
  /\ {MaxTime, MaxSteps, MaxSent, MaxObserved, TTL, Commands} \subseteq Nat
  /\ {MaxFiles, MaxBytes} \subseteq Nat \ {0} /\ Sizes \subseteq Nat

VARIABLES
  part,
  up, lock, listed, own, at, mine, worker, parentOf,
  ino, complete, torn, entry, reading, opened, stat, read, most,
  disk, records, job, version, todo, taken, saved, trouble, installed,
  now, node, reference, axis, exchange, samples, calibration, cached, span, record, steps, sent,
  file, written, finished, entries, bytes, left, active, selected, before,
  clock, holder, seen, attempts, last, place, wants, looked, hook, hooks,
  journal, stage, attempt, mode, chosen, known, packet, remains, draft, review, output, exit, projected

Transport == INSTANCE HttpTransport WITH pc <- at
Cache     == INSTANCE JsonlCache WITH rows <- complete
Installer == INSTANCE AppInstaller WITH files <- records
Mapping   == INSTANCE ClockMapping WITH saved <- calibration
Collector == INSTANCE TextfileCollector WITH Runs <- Jobs, todo <- left
Profiler  == INSTANCE TriggeredProfiler WITH at <- place, read <- looked

(* Packets of three measurements, of two engines of the same name or two   *)
(* endpoints, and of a device, and what a model may say of them.           *)
Row(id, signal, host, labels, limits) ==
  [id |-> id, signal |-> signal, node |-> host, labels |-> labels, vllm |-> FALSE, endpoint |-> "",
   status |-> "observed", limits |-> limits]
Measured ==
  LET each == <<Row(1, "kv", "n1", [engine |-> 0, device |-> 0], {}),
                Row(2, "waiting", "n2", [engine |-> 0], {"discarded_samples"}),
                Row(3, "io", "n1", [device |-> 1], {})>>
  IN  [observations |-> each, window |-> "usable", clock |-> "aligned", baselineClock |-> "unchecked"]
Serves(row, endpoint) == [row EXCEPT !.node = "n1", !.labels = <<>>, !.vllm = TRUE, !.endpoint = endpoint]
Served == [Measured EXCEPT !.observations[1] = Serves(@, "a"), !.observations[2] = Serves(@, "b")]
Packets == {Measured, [Measured EXCEPT !.observations[3].status = "stale"], [Measured EXCEPT !.clock = "unsafe"],
            [Measured EXCEPT !.observations[3].id = 1], Served}
Citing(evidence, counter, named, missing) ==
  [evidence |-> evidence, counter |-> counter, named |-> named, missing |-> missing]
Supposed == {Citing(<<1>>, <<>>, {1}, {}), Citing(<<3, 1>>, <<2>>, {2}, {"discarded_samples"}), Citing(<<2>>, <<>>, {}, {}),
             Citing(<<1, 2>>, <<>>, {}, {"discarded_samples"}), Citing(<<1>>, <<>>, {3}, {}), Citing(<<1>>, <<1>>, {}, {}),
             Citing(<<1, 1>>, <<>>, {}, {}), Citing(<<>>, <<1>>, {}, {}), Citing(<<4>>, <<>>, {}, {})}
Answers ==
  [assessment : {"insufficient_evidence", "no_issue_observed"}, candidates : {<<>>}, causal : {FALSE}]
  \cup [assessment : {"bottleneck_suspected"}, candidates : {<<c>> : c \in Supposed} \cup {<<>>}, causal : {FALSE}]
  \cup [assessment : {"bottleneck_suspected"}, candidates : {<<Citing(<<1>>, <<>>, {1}, {})>>}, causal : {TRUE}]

Llm == INSTANCE LlmDiagnosis WITH Reported <- {Measured}, MaxRows <- 3, Timeout <- TTL, Cap <- 1, MaxReports <- 2,
                                  MaxAttempts <- Commands, pc <- stage, read <- known, left <- remains

transport == <<up, lock, listed, own, at, mine, worker, parentOf>>
cache     == <<ino, complete, torn, entry, reading, opened, stat, read, most>>
installer == <<disk, records, job, version, todo, taken, saved, trouble, installed>>
mapping   == <<now, node, reference, axis, exchange, samples, calibration, cached, span, record,
               steps, sent>>
collector == <<file, written, finished, entries, bytes, left, active, selected, before>>
profiler  == <<clock, holder, seen, attempts, last, place, wants, looked, hook, hooks>>
llm       == <<journal, stage, attempt, mode, chosen, known, packet, remains, draft, review, output, exit, projected>>

SubsystemsInit ==
  /\ part \in {"worker", "transport", "cache", "installer", "mapping", "collector", "profiler", "llm"}
  /\ Init /\ Transport!Init /\ Cache!Init /\ Installer!Init /\ Mapping!Init
  /\ Collector!Init /\ Profiler!Init /\ Llm!Init

SubsystemsNext ==
  /\ part' = part
  /\ \/ part = "worker" /\ Next
        /\ UNCHANGED <<transport, cache, installer, mapping, collector, profiler, llm>>
     \/ part = "transport" /\ Transport!Next
        /\ UNCHANGED <<vars, cache, installer, mapping, collector, profiler, llm>>
     \/ part = "cache" /\ Cache!Next
        /\ UNCHANGED <<vars, transport, installer, mapping, collector, profiler, llm>>
     \/ part = "installer" /\ Installer!Next
        /\ UNCHANGED <<vars, transport, cache, mapping, collector, profiler, llm>>
     \/ part = "mapping" /\ Mapping!Next
        /\ UNCHANGED <<vars, transport, cache, installer, collector, profiler, llm>>
     \/ part = "collector" /\ Collector!Next
        /\ UNCHANGED <<vars, transport, cache, installer, mapping, profiler, llm>>
     \/ part = "profiler" /\ Profiler!Next
        /\ UNCHANGED <<vars, transport, cache, installer, mapping, collector, llm>>
     \/ part = "llm" /\ Llm!Next
        /\ UNCHANGED <<vars, transport, cache, installer, mapping, collector, profiler>>

SubsystemsSpec ==
  /\ SubsystemsInit
  /\ [][SubsystemsNext]_<<part, vars, transport, cache, installer, mapping, collector, profiler, llm>>

-----------------------------------------------------------------------------
(* No request, profile hook or thread leaves more behind it than its       *)
(* component bounds.                                                       *)
WorkIsBounded ==
  /\ part = "transport" => Transport!TypeOK /\ Transport!TransportIsBounded
  /\ part = "profiler" => Profiler!TypeOK /\ Profiler!HooksAreBounded

(* What is served from a cache or a calibration is what the files and the  *)
(* clocks said.                                                            *)
CachesAreFresh ==
  /\ part = "cache" => Cache!TypeOK /\ Cache!ReadsAfresh
  /\ part = "collector" => Collector!TypeOK /\ Collector!CollectorIsFresh
  /\ part = "mapping" => Mapping!TypeOK /\ Mapping!MappingIsTrue

InstallationSurvives == part = "installer" => Installer!TypeOK /\ Installer!InstallationSurvives

(* The diagnosis of a language model is what the checks say it is, and the *)
(* file and the dashboard have that of the command that was run.           *)
DiagnosisIsGrounded ==
  part = "llm" => Llm!TypeOK /\ Llm!PublishedIsGrounded /\ Llm!OutputIsTheCommands

Symmetry == Permutations(Threads) \cup Permutations(Runs)
=============================================================================
