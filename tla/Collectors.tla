----------------------------- MODULE Collectors -----------------------------
(***************************************************************************)
(* The samplers of a node and the sandbox spans: what one sample of the    *)
(* GPUs puts into its file, what the samples of a sandbox cgroup put into  *)
(* theirs, the device counters that a sandbox span attaches to its trace,  *)
(* and what a window of such spans says of a configured device.            *)
(*                                                                         *)
(* A column of a row of nvidia-smi is [is, n] with is one of "absent",     *)
(* "n/a", "number" (then n is it) and "junk".  Optional values are         *)
(* sequences of at most one element.                                       *)
(***************************************************************************)
EXTENDS Integers, Sequences, FiniteSets, SequencesExt, FiniteSetsExt

Each(s, Op(_)) == FlattenSeq([i \in DOMAIN s |-> Op(s[i])])
If(condition, x) == IF condition THEN <<x>> ELSE <<>>

-----------------------------------------------------------------------------
(* The GPUs of a host.                                                     *)
Measures == {"power", "memory"}

optional_number(text) == If(text.is = "number", text.n)

field_quality(text) ==
  CASE text.is = "absent" -> "missing" [] text.is = "n/a" -> "unsupported"
    [] text.is = "number" -> "observed" [] text.is = "junk" -> "error"

(* Only a row with a whole, non-negative index is a device.                *)
Identified(row) == row.index.is = "number" /\ row.index.n >= 0

(* The meminfo fields that are given in kB and are not negative.           *)
host_memory(meminfo) ==
  LET kept == IF meminfo = <<>> THEN {}
              ELSE {f \in DOMAIN meminfo[1] : meminfo[1][f].is = "number" /\ meminfo[1][f].n >= 0}
  IN  [kept |-> kept, success |-> meminfo # <<>> /\ kept = DOMAIN meminfo[1]]

(* The rows of processes up to the cap, without those that name no process *)
(* or one that a row before named; a short row names its process too.      *)
ComputeProcesses(rows, most) ==
  FoldLeft(LAMBDA acc, row :
             IF row.pid.is # "number" \/ row.pid.n <= 0 \/ <<row.uuid, row.pid.n>> \in acc.seen
             THEN [acc EXCEPT !.error = TRUE]
             ELSE LET seen == [acc EXCEPT !.seen = @ \cup {<<row.uuid, row.pid.n>>}]
                  IN  IF row.short THEN [seen EXCEPT !.error = TRUE]
                      ELSE [seen EXCEPT !.kept = Append(@, [uuid |-> row.uuid, pid |-> row.pid.n, used |-> optional_number(row.used)])],
           [seen |-> {}, kept |-> <<>>, error |-> FALSE], SubSeq(rows, 1, IF Len(rows) < most THEN Len(rows) ELSE most))

(* One sample.  A failed device query fails it whole; a failed process     *)
(* query costs the processes only.                                         *)
snapshot(q) ==
  IF q.devices = <<>>
  THEN [success |-> FALSE, devices |-> <<>>, processes |-> <<>>, counted |-> FALSE, truncated |-> 0, memory |-> <<>>]
  ELSE LET devices == SelectSeq(q.devices[1], Identified)
           asked   == q.include /\ q.processes # <<>>
           found   == IF asked THEN ComputeProcesses(q.processes[1], q.most) ELSE [kept |-> <<>>, error |-> q.include]
       IN  [success   |-> \E i \in DOMAIN devices, m \in Measures : optional_number(devices[i].values[m]) # <<>>,
            devices   |-> devices, processes |-> found.kept, counted |-> ~found.error,
            truncated |-> IF asked /\ Len(q.processes[1]) > q.most THEN Len(q.processes[1]) - q.most ELSE 0,
            memory    |-> <<host_memory(q.meminfo).success>>]

Labels(gpu, uuid, pid, field) == [gpu |-> gpu, uuid |-> uuid, pid |-> pid, field |-> field]
Plain == Labels(<<>>, "", 0, "")
Sample(name, value, labels) == [name |-> name, value |-> value, labels |-> labels]
Flag(b) == IF b THEN 1 ELSE 0

(* The label of a GPU is that of the last device with the uuid.            *)
GpuOf(devices, uuid) ==
  LET own == {i \in DOMAIN devices : devices[i].uuid # "" /\ devices[i].uuid = uuid}
  IN  If(own # {}, devices[Max(own)].index.n)

(* The file that replaces the one of the sample before: the sample's time  *)
(* if it measured something, and of each device and process what was read. *)
gpu_prom(q) ==
  LET s == snapshot(q)
      observed == q.stamp # <<>>
      Status(d) == LET l == Labels(<<d.index.n>>, d.uuid, 0, "") IN
        Each(SetToSeq(Measures), LAMBDA m : <<Sample("status_" \o field_quality(d.values[m]), 1, [l EXCEPT !.field = m])>>)
      Measured(d) == LET l == Labels(<<d.index.n>>, d.uuid, 0, "") IN
        Each(SetToSeq(Measures), LAMBDA m : IF d.values[m].is = "number" THEN <<Sample(m, d.values[m].n, l)>> ELSE <<>>)
      Used(p) == IF p.used = <<>> THEN <<>>
                 ELSE <<Sample("process_memory", p.used[1], Labels(GpuOf(s.devices, p.uuid), p.uuid, p.pid, ""))>>
  IN  If(observed /\ s.success, Sample("sample_timestamp", 0, Plain))
      \o If(observed /\ s.devices # <<>>, Sample("field_timestamp", 0, Plain))
      \o If(q.include /\ observed /\ \E i \in DOMAIN s.processes : s.processes[i].used # <<>>, Sample("process_timestamp", 0, Plain))
      \o <<Sample("success", Flag(s.success), Plain)>>
      \o Each(s.memory, LAMBDA m : <<Sample("memory_success", Flag(m), Plain)>>)
      \o If(q.include /\ s.memory # <<>> /\ s.counted, Sample("truncated", s.truncated, Plain))
      \o Each(s.devices, Status) \o Each(s.devices, Measured) \o Each(s.processes, Used)

(* A sample whose time is given measured a device in that very file, a     *)
(* process is put on the GPU of its uuid only, no series appears twice     *)
(* (if no two devices claim one index), and when nothing is said to be     *)
(* left out nothing that the driver reported is missing.                   *)
GpuFileIsTrue(q) ==
  \A f \in {gpu_prom(q)} :
    LET Named(name) == {i \in DOMAIN f : f[i].name = name}
        series      == [i \in DOMAIN f |-> [name |-> f[i].name, labels |-> f[i].labels]]
        devices     == IF q.devices = <<>> THEN <<>> ELSE SelectSeq(q.devices[1], Identified)
    IN  /\ Named("sample_timestamp") # {} => \E m \in Measures : Named(m) # {}
        /\ Named("process_timestamp") # {} => Named("process_memory") # {}
        /\ \A i \in Named("process_memory") : f[i].labels.gpu # <<>> =>
             \E k \in DOMAIN devices : devices[k].uuid = f[i].labels.uuid /\ devices[k].index.n = f[i].labels.gpu[1]
        /\ IsInjective([i \in DOMAIN devices |-> devices[i].index.n]) => IsInjective(series)
        /\ \A i \in DOMAIN devices, m \in Measures :
             (\E j \in DOMAIN f : f[j].name = "status_observed" /\ f[j].labels.field = m /\ f[j].labels.gpu[1] = devices[i].index.n)
               => \E j \in Named(m) : f[j].labels.gpu[1] = devices[i].index.n
        /\ (q.processes # <<>> /\ \E i \in Named("truncated") : f[i].value = 0) =>
             \A k \in DOMAIN q.processes[1] : LET p == q.processes[1][k] IN
               p.used.is = "number" => \E i \in Named("process_memory") :
                  f[i].value = p.used.n /\ f[i].labels.pid = p.pid.n /\ f[i].labels.uuid = p.uuid
        /\ (\E i \in Named("memory_success") : f[i].value = 1) =>
             \A m \in DOMAIN q.meminfo[1] : q.meminfo[1][m].is = "number"

-----------------------------------------------------------------------------
(* The cgroup of a sandbox worker: io.stat by device and counter, and the  *)
(* total of one other source; <<>> is a file that cannot be read or parsed.*)
Counters == {"rbytes", "wios"}

parse_io_stat(devices) ==
  [key \in Counters |-> MapThenSumSet(LAMBDA d : IF key \in DOMAIN devices[d] THEN devices[d][key] ELSE 0, DOMAIN devices)]

(* What can be read; a source that cannot gives no value, never a zero.    *)
read_cgroup(r) ==
  [key \in Counters \cup {"stall"} |->
     CASE key = "stall" -> If(r.stall # <<>> /\ r.stall[1] >= 0, r.stall[1])
       [] key # "stall" /\ r.io = <<>> -> <<>>
       [] key # "stall" /\ r.io # <<>> -> <<parse_io_stat(r.io[1])[key]>>]

Unreadable(r) == \A key \in Counters \cup {"stall"} : read_cgroup(r)[key] = <<>>

(* The part of the elapsed time that was lost, at most all of it.          *)
pressure_ratio(current, previous, elapsed) ==
  IF previous = <<>> \/ elapsed <= 0 \/ current = <<>> THEN <<>>
  ELSE LET delta == current[1] - previous[1]
       IN  IF delta < 0 THEN <<>> ELSE IF delta >= elapsed THEN <<<<1, 1>>>> ELSE <<<<delta, elapsed>>>>

samples(values, previous, elapsed) ==
  [totals |-> [key \in Counters |-> values[key]],
   ratio  |-> IF previous = <<>> THEN <<>> ELSE pressure_ratio(values["stall"], previous[1]["stall"], elapsed)]

(* The loop of the sampler over what it finds at each interval: its file,  *)
(* which is removed when the cgroup cannot be read, and then it ends.      *)
SandboxFiles(reads) ==
  FoldLeft(LAMBDA acc, k :
             IF acc.ended THEN [acc EXCEPT !.files = Append(@, <<>>)]
             ELSE IF Unreadable(reads[k]) THEN [acc EXCEPT !.files = Append(@, <<>>), !.ended = TRUE]
             ELSE LET now == read_cgroup(reads[k])
                  IN  [files |-> Append(acc.files, <<samples(now, acc.previous, reads[k].elapsed)>>),
                       previous |-> <<now>>, ended |-> FALSE],
           [files |-> <<>>, previous |-> <<>>, ended |-> FALSE], [k \in DOMAIN reads |-> k]).files

(* The true history of a cgroup: at each interval its length, the time     *)
(* stalled in it, whether the cgroup is a new one, and what can be read.   *)
Reading(truth) ==
  FoldLeft(LAMBDA acc, t :
             LET total == (IF t.new THEN 0 ELSE acc.total) + t.stalled
             IN  [total |-> total,
                  reads |-> Append(acc.reads, [elapsed |-> t.elapsed, io |-> t.io, stall |-> If(t.pressure, total)])],
           [total |-> 0, reads |-> <<>>], truth).reads

(* A ratio is the true share of the time since the sample before, which    *)
(* also read it, unless the cgroup was replaced in between; what could not *)
(* be read is not there, and a cgroup that is gone leaves no file behind.  *)
PressureIsOfItsInterval(truth) ==
  \A files \in {SandboxFiles(Reading(truth))} : \A k \in DOMAIN truth : files[k] # <<>> =>
    /\ \A j \in 1..k : files[j] # <<>>
    /\ truth[k].io = <<>> <=> \A c \in Counters : files[k][1].totals[c] = <<>>
    /\ files[k][1].ratio # <<>> =>
         /\ k > 1 /\ truth[k].pressure /\ truth[k - 1].pressure
         /\ files[k][1].ratio[1][1] \in 0..files[k][1].ratio[1][2]
         /\ ~truth[k].new => files[k][1].ratio[1][1] * truth[k].elapsed = truth[k].stalled * files[k][1].ratio[1][2]

-----------------------------------------------------------------------------
(* A span of a sandbox: what its devices did between two reads of io.stat. *)
DeviceDelta(before, after, device) ==
  LET old  == IF device \in DOMAIN before THEN before[device] ELSE <<>>
      Base(key) == IF key \in DOMAIN old THEN old[key] ELSE 0
      told == {key \in DOMAIN after[device] : device \in DOMAIN before => key \in DOMAIN old}
  IN  [delta |-> [key \in {k \in told : after[device][k] >= Base(k)} |-> after[device][key] - Base(key)],
       reset |-> \E key \in told : after[device][key] < Base(key)]

resource_sample(before, after, configured) ==
  LET readable == before # <<>> /\ after # <<>>
      Of(d)    == DeviceDelta(before[1], after[1], d)
      devices  == IF readable THEN {d \in DOMAIN after[1] : DOMAIN Of(d).delta # {}} ELSE {}
      reset    == IF readable THEN {d \in DOMAIN after[1] : Of(d).reset} ELSE {}
  IN  [devices |-> devices, delta |-> [d \in devices |-> Of(d).delta], reset |-> reset,
       counter |-> IF ~readable THEN "unavailable" ELSE IF reset # {} THEN "reset" ELSE "observed",
       status  |-> IF configured = "" THEN "unconfigured"
                   ELSE IF ~readable \/ configured \in reset THEN "unknown"
                   ELSE IF configured \in devices THEN "observed" ELSE "unmatched"]

(* The events of a window, from files that are read, skipped (too large or *)
(* unreadable) or beyond the budget, which ends the reading.               *)
device_window(files, configured, most) ==
  LET read == FoldLeft(LAMBDA acc, f :
                IF acc.ended THEN acc
                ELSE CASE f.is = "skipped" -> [acc EXCEPT !.incomplete = TRUE]
                       [] f.is = "beyond" -> [acc EXCEPT !.incomplete = TRUE, !.ended = TRUE]
                       [] f.is = "read" ->
                            LET all == acc.items \o f.items
                            IN  IF Len(all) > most THEN [items |-> SubSeq(all, 1, most), incomplete |-> TRUE, ended |-> TRUE]
                                ELSE [acc EXCEPT !.items = all],
              [items |-> <<>>, incomplete |-> FALSE, ended |-> FALSE], files)
      own      == {i \in DOMAIN read.items : read.items[i].own /\ read.items[i].within}
      observed == UNION {read.items[i].sample.devices : i \in own}
      unknown  == \E i \in own : \/ ~read.items[i].mapped /\ read.items[i].sample.devices = {}
                                 \/ read.items[i].mapped /\ read.items[i].sample.counter = "unavailable"
      reset    == \E i \in own : read.items[i].mapped /\ configured \in read.items[i].sample.reset
  IN  [observed |-> observed, incomplete |-> read.incomplete,
       status |-> IF configured = "" THEN "unconfigured" ELSE IF reset THEN "unknown"
                  ELSE IF configured \in observed THEN "observed"
                  ELSE IF read.incomplete \/ unknown THEN "unknown"
                  ELSE IF observed # {} THEN "unmatched" ELSE "unknown"]

(* The reads around a span in which each device did the I/O did[d], from a *)
(* line of io.stat that was absent, bare (-1, which hides a count) or at a *)
(* count; a restarted device starts from nothing, and only a device that   *)
(* did I/O has a line.                                                     *)
BeforeOf(s) ==
  If(s.readable[1], [d \in {e \in DOMAIN s.had : s.had[e] # <<>>} |->
                       IF s.had[d] = <<-1>> THEN <<>> ELSE [key \in {"rbytes"} |-> s.had[d][1]]])
AfterOf(s) ==
  LET Base(d) == CASE d \in s.restarted \/ s.had[d] = <<>> -> 0 [] s.had[d] = <<-1>> -> 1 [] OTHER -> s.had[d][1]
      lines   == {d \in DOMAIN s.had : s.did[d] > 0 \/ (s.had[d] # <<>> /\ d \notin s.restarted)}
  IN  If(s.readable[2], [d \in lines |-> IF s.had[d] = <<-1>> /\ s.did[d] = 0 THEN <<>>
                                         ELSE [key \in {"rbytes"} |-> Base(d) + s.did[d]]])
SampleOf(s, configured) == resource_sample(BeforeOf(s), AfterOf(s), configured)

(* A delta is the I/O of the span, unless the device was restarted in it;  *)
(* and a device that is called unmatched did none, in one span as in a     *)
(* window of them, in which only spans of the run and the node count.      *)
DeviceEvidenceIsOwn(spans, configured, most) ==
  LET Bare(s)  == s.had[configured] = <<-1>>
      Item(s)  == [own |-> s.own, within |-> s.within, mapped |-> s.mapped, sample |-> SampleOf(s, configured)]
  IN  /\ \A i \in DOMAIN spans : \A e \in {SampleOf(spans[i], configured)} :
           /\ \A d \in e.devices \ spans[i].restarted : \A key \in DOMAIN e.delta[d] : e.delta[d][key] = spans[i].did[d]
           /\ (e.status = "unmatched" /\ ~Bare(spans[i])) => spans[i].did[configured] = 0
      /\ \A w \in {device_window([i \in DOMAIN spans |-> [is |-> spans[i].file, items |-> <<Item(spans[i])>>]], configured, most)} :
           /\ (w.status = "unmatched") =>
                \A i \in DOMAIN spans : (spans[i].own /\ spans[i].within /\ spans[i].mapped /\ ~Bare(spans[i])) => spans[i].did[configured] = 0
           /\ (w.status = "observed") =>
                \E i \in DOMAIN spans : /\ spans[i].own /\ spans[i].within /\ spans[i].file = "read"
                                        /\ spans[i].did[configured] > 0 \/ spans[i].had[configured] # <<>>
=============================================================================
