---------------------------- MODULE EventRecords ----------------------------
(***************************************************************************)
(* What the producers of a process write: who they are by its environment, *)
(* the file of each, the records of a recorder one of whose writes may     *)
(* fail, the snapshot of an emitter, what the textfile collector publishes *)
(* of the snapshots, and the metrics that a VERL record becomes.  The      *)
(* queue in between is BoundedWriter, the clocks of a span are             *)
(* ClockMapping.                                                           *)
(*                                                                         *)
(* Optional values are sequences of at most one element, and an identifier *)
(* is a name other than "" and "?".                                        *)
(***************************************************************************)
EXTENDS Integers, Sequences, FiniteSets, SequencesExt, TLC

Identifier(name) == name \notin {"", "?"}
NotANumber == -99   \* what int() refuses

-----------------------------------------------------------------------------
(* The name of a file, of characters: fields are joined by hyphens, so the *)
(* hyphens in them are escaped, and a name that is too long is cut and has *)
(* a hash of the identity instead, which stands here for the identity.     *)
Escaped(name) == FlattenSeq([i \in DOMAIN name |-> IF name[i] = "-" THEN <<"%", "2", "D">> ELSE <<name[i]>>])

producer_filename_stem(p, most) ==
  LET stem == Escaped(p.producer) \o <<"-">> \o Escaped(p.role) \o <<"-">> \o Escaped(p.worker)
      full == stem \o <<"@">> \o p.node \o <<"@">> \o p.run
      half == IF Len(stem) < most \div 2 THEN Len(stem) ELSE most \div 2
  IN  IF Len(full) > most THEN [name |-> SubSeq(stem, 1, half), hash |-> <<p>>] ELSE [name |-> full, hash |-> <<>>]

(* Two producers never share a file: neither appends to nor replaces what  *)
(* the other one wrote.                                                    *)
FilesAreOwn(p, q, most) == producer_filename_stem(p, most) = producer_filename_stem(q, most) => p = q

-----------------------------------------------------------------------------
(* The producers of a process.  The GPU is the visible one at the place of *)
(* the local rank, if there is one.                                        *)
Gpu(env) ==
  IF env.local = <<>> \/ env.local[1] < 0 \/ env.local[1] >= Len(env.visible) THEN <<>>
  ELSE IF env.visible[env.local[1] + 1] \in {"", "-1"} THEN <<>> ELSE <<env.visible[env.local[1] + 1]>>

ContextOf(env, who, node) ==
  [run |-> env.run, producer |-> who.producer, role |-> who.role, node |-> node, rank |-> env.rank, local |-> env.local,
   gpu |-> Gpu(env),
   worker |-> IF who.worker # <<>> THEN who.worker[1] ELSE IF env.rank = <<>> THEN "0" ELSE ToString(env.rank[1])]

Valid(c) ==
  /\ \A name \in {c.run, c.producer, c.role, c.worker, c.node} \cup ToSet(c.gpu) : Identifier(name)
  /\ \A n \in {c.rank, c.local} : n = <<>> \/ n[1] >= 0

(* An exporter is off without its directory and run, which are set both or *)
(* neither, and a setting that makes no sense costs the exporter alone.    *)
FromEnv(env, directory, context) ==
  IF directory = "" /\ env.run = "" THEN [is |-> "off"]
  ELSE IF directory = "" \/ env.run = "" \/ ~Valid(context) \/ env.async = "?" THEN [is |-> "warned"]
  ELSE [is |-> "on", context |-> context]

(* The events take an empty TELEMETRY_NODE for the name, the metrics for   *)
(* none, which is the name of the host.                                    *)
EventsFromEnv(env, who) == FromEnv(env, env.events, ContextOf(env, who, IF env.node = <<>> THEN "host" ELSE env.node[1]))
MetricsFromEnv(env, who) == FromEnv(env, env.metrics, ContextOf(env, who, IF env.node \in {<<>>, <<"">>} THEN "host" ELSE env.node[1]))

(* The events and the metrics of a process say that they are of the same   *)
(* run, worker, node and GPU, no two workers of a node claim one GPU, and  *)
(* an exporter with a run and a directory is on in a sound environment.    *)
ProducersAgree(env, who) ==
  LET e == EventsFromEnv(env, who)
      m == MetricsFromEnv(env, who)
      Other == [env EXCEPT !.local = IF @ = <<>> THEN @ ELSE <<1 - @[1]>>]
  IN  /\ (e.is = "on" /\ m.is = "on") => e.context = m.context
      /\ (e.is = "on" /\ m.is # "on") => env.metrics = ""
      /\ (env.local \in {<<0>>, <<1>>} /\ IsInjective(env.visible) /\ Gpu(env) # <<>>) => Gpu(Other) # Gpu(env)
      /\ (m.is = "on" /\ m.context.gpu # <<>>) => m.context.gpu[1] \in ToSet(env.visible)

-----------------------------------------------------------------------------
(* A recorder.  A call with wrong arguments raises before its body runs; a *)
(* write that fails disables the recorder and nothing else.                *)
Rejected(op, policy) ==
  \/ ~op.valid
  \/ op.kind = "applied" /\ op.version = <<>>
  \/ op.version # <<>> /\ op.version[1] < 0
  \/ op.version = <<>> /\ policy # <<>> /\ policy[1] < 0

PolicyFields(op, policy) == IF op.version # <<>> THEN op.version ELSE policy

Recorded(op, policy) ==
  [kind |-> op.kind, version |-> PolicyFields(op, policy), id |-> op.id,
   status |-> IF op.kind = "span" THEN op.body ELSE "none"]

Recording(ops, policy) ==
  FoldLeft(LAMBDA acc, op :
             IF Rejected(op, policy) THEN [acc EXCEPT !.outcomes = Append(@, "rejected")]
             ELSE LET after == [acc EXCEPT !.outcomes = Append(@, IF op.kind = "span" THEN op.body ELSE "ok")]
                  IN  IF after.disabled THEN after
                      ELSE IF op.write = "fails" THEN [after EXCEPT !.disabled = TRUE]
                      ELSE [after EXCEPT !.written = Append(@, Recorded(op, policy))],
           [outcomes |-> <<>>, written |-> <<>>, disabled |-> FALSE], ops)

(* The workload sees its own outcome whatever becomes of the writes, the   *)
(* file holds every accepted record until the first failure and none after *)
(* it, and a version is called applied only if the worker gave it.         *)
RecordingIsApart(ops, policy) ==
  LET Well == [i \in DOMAIN ops |-> [ops[i] EXCEPT !.write = "ok"]]
      done == Recording(ops, policy)
      whole == Recording(Well, policy)
      ids  == {done.written[i].id : i \in DOMAIN done.written}
  IN  /\ done.outcomes = whole.outcomes
      /\ IsPrefix(done.written, whole.written)
      /\ \A i \in DOMAIN ops : i \in ids <=> /\ done.outcomes[i] # "rejected"
                                             /\ \A j \in 1..i : ops[j].write = "ok" \/ done.outcomes[j] = "rejected"
      /\ \A i \in DOMAIN ops : ops[i].kind = "span" => done.outcomes[i] \in {"rejected", ops[i].body}
      /\ \A i \in DOMAIN done.written : LET r == done.written[i] IN
           /\ r.kind = "applied" => r.version = ops[r.id].version /\ r.version # <<>>
           /\ r.status = "error" => ops[r.id].body = "error"

-----------------------------------------------------------------------------
(* An emitter: each accepted call replaces the snapshot, any other one     *)
(* disables it.                                                            *)
ContextLabels == {"worker_id", "node", "local_rank", "gpu", "policy_version"}
Encodes(m) ==
  /\ Identifier(m.name) /\ m.kind \in {"gauge", "counter"} /\ m.value # <<>>
  /\ m.kind = "counter" => m.value[1] >= 0
  /\ \A l \in m.labels : Identifier(l) /\ l \notin ContextLabels

Accepted(e) == e.stepped /\ e.samples # <<>> /\ (\A i \in DOMAIN e.samples : Encodes(e.samples[i])) /\ e.write = "ok"

Snapshot(e) ==
  [samples |-> e.samples, ingested |-> e.at, observed |-> IF e.live THEN <<e.at>> ELSE <<>>,
   mapped |-> IF e.live /\ e.mapping # "none" THEN <<e.mapping>> ELSE <<>>,
   correlation |-> IF e.live /\ e.mapping = "aligned" THEN <<e.at>> ELSE <<>>]

Emitted(calls) ==
  FoldLeft(LAMBDA acc, e :
             IF acc.disabled THEN acc
             ELSE IF Accepted(e) THEN [acc EXCEPT !.file = <<Snapshot(e)>>]
             ELSE [acc EXCEPT !.disabled = TRUE],
           [file |-> <<>>, disabled |-> FALSE], calls)

(* The snapshot is all of one call and no newer one of an exporter that    *)
(* never failed is missing; a counter in it is not negative, no label      *)
(* replaces what the context says, and a replayed record never gets a time *)
(* at which it could pass for observed.                                    *)
SnapshotIsOneCall(calls) ==
  \A x \in {Emitted(calls)} :
    /\ ~x.disabled => (calls = <<>> \/ x.file = <<Snapshot(calls[Len(calls)])>>)
    /\ x.file # <<>> =>
         \E k \in DOMAIN calls : LET f == x.file[1] IN
           /\ f.samples = calls[k].samples /\ f.ingested = calls[k].at
           /\ \A j \in 1..k : calls[j].stepped /\ calls[j].write = "ok"
           /\ \A i \in DOMAIN f.samples :
                /\ f.samples[i].kind = "counter" => f.samples[i].value[1] >= 0
                /\ f.samples[i].labels \cap ContextLabels = {}
           /\ f.observed # <<>> \/ f.correlation # <<>> => calls[k].live
           /\ f.correlation # <<>> => calls[k].mapping = "aligned"

-----------------------------------------------------------------------------
(* What the textfile collector publishes of the snapshots that it selected.*)
(* Labels are a set of pairs, whose keys and values are strings.           *)
Reserved == {"training_step", "training_gpu_allocation"}

SnapshotGpu(s) == IF s.gpu # <<>> THEN s.gpu ELSE Gpu(s)
Context(s) ==
  {<<"worker_id", s.worker>>, <<"node", s.node>>} \cup {<<"gpu", g>> : g \in ToSet(SnapshotGpu(s))}
  \cup {<<"local_rank", ToString(r)>> : r \in ToSet(s.local)}

Series(name, kind, value, labels) == [name |-> name, kind |-> kind, value |-> value, labels |-> labels]
LabelKeys(labels) == {pair[1] : pair \in labels}
Admitted(m) == m.name \notin Reserved /\ m.value # <<>> /\ LabelKeys(m.labels) \cap ContextLabels = {}

(* The snapshot's own series and then its samples, or nothing of one that  *)
(* is replayed or has no list of samples.                                  *)
Reported(s) ==
  IF s.replay \/ ~s.listed THEN <<>>
  ELSE (IF SnapshotGpu(s) = <<>> THEN <<>> ELSE <<Series("training_gpu_allocation", "gauge", 1, Context(s))>>)
       \o (IF s.step = <<>> THEN <<>> ELSE <<Series("training_step", "gauge", s.step[1], Context(s))>>)
       \o [i \in DOMAIN SelectSeq(s.samples, Admitted) |->
             LET m == SelectSeq(s.samples, Admitted)[i] IN Series(m.name, m.kind, m.value[1], Context(s) \cup m.labels)]

validate_sample(m) ==
  /\ Identifier(m.name) /\ m.kind \in {"gauge", "counter"} /\ (m.kind = "counter" => m.value >= 0)
  /\ \A l \in LabelKeys(m.labels) : Identifier(l)

(* The first of a name says its kind, and the first of a series its value. *)
build_metrics(snapshots) ==
  FoldLeft(LAMBDA acc, m :
             IF validate_sample(m) /\ \A i \in DOMAIN acc : acc[i].name = m.name => acc[i].kind = m.kind /\ acc[i].labels # m.labels
             THEN Append(acc, m) ELSE acc,
           <<>>, FlattenSeq([k \in DOMAIN snapshots |-> Reported(snapshots[k])]))

(* The file can be read, every series in it is of the one live snapshot    *)
(* that it names, and whatever a worker reports costs no worker its step;  *)
(* a sound sample is missing only if its name has another kind or the same *)
(* series came before it.                                                  *)
PublicationIsSound(snapshots) ==
  \A f \in {build_metrics(snapshots)} :
    /\ IsInjective([i \in DOMAIN f |-> <<f[i].name, f[i].labels>>])
    /\ \A i, j \in DOMAIN f : f[i].name = f[j].name => f[i].kind = f[j].kind /\ (f[i].kind = "counter" => f[i].value >= 0)
    /\ \A i \in DOMAIN f : \E s \in ToSet(snapshots) :
         /\ {pair \in f[i].labels : pair[1] \in ContextLabels} = Context(s) /\ ~s.replay
         /\ \/ f[i].name \in Reserved
            \/ \E m \in ToSet(s.samples) : m.name = f[i].name /\ m.kind = f[i].kind /\ m.value = <<f[i].value>>
    /\ \A s \in ToSet(snapshots) : (~s.replay /\ s.listed) =>
         /\ s.step # <<>> => Series("training_step", "gauge", s.step[1], Context(s)) \in ToSet(f)
         /\ \A m \in ToSet(s.samples) : (Admitted(m) /\ validate_sample([m EXCEPT !.value = @[1]])) =>
              \E i \in DOMAIN f : f[i].name = m.name /\ (f[i].kind # m.kind \/ f[i].labels = Context(s) \cup m.labels)

-----------------------------------------------------------------------------
(* VERL.  A value is a number of halves, or <<>> if it is not finite.      *)
Metrics(name, phase, stage, key) == [name |-> name, phase |-> phase, stage |-> stage, key |-> key]

(* The metric of a logger key, and which values of it are accepted.        *)
Translation ==
  [step_time |-> [metric |-> Metrics("step_time", "rl_step", "", ""), rule |-> "time"],
   timing_step |-> [metric |-> Metrics("stage_duration", "rl_step", "step", ""), rule |-> "time"],
   timing_ref |-> [metric |-> Metrics("stage_duration", "reference", "ref", ""), rule |-> "time"],
   timing_old |-> [metric |-> Metrics("stage_duration", "reference", "old", ""), rule |-> "time"],
   token_ref |-> [metric |-> Metrics("time_per_token", "reference", "ref", ""), rule |-> "time"],
   timing_unknown |-> [metric |-> Metrics("", "", "", ""), rule |-> "never"],
   mfu_actor |-> [metric |-> Metrics("mfu", "actor", "update_actor", "mfu_actor"), rule |-> "ratio"],
   version |-> [metric |-> Metrics("policy_version", "", "", "version"), rule |-> "count"],
   version_async |-> [metric |-> Metrics("policy_version", "", "", "version_async"), rule |-> "count"],
   remaining |-> [metric |-> Metrics("remaining", "", "", ""), rule |-> "count"],
   switch |-> [metric |-> Metrics("switch", "", "", ""), rule |-> "flag"],
   reward |-> [metric |-> Metrics("reward", "", "", ""), rule |-> "any"]]

Accepts(rule, v) ==
  /\ v # <<>>
  /\ CASE rule = "time" -> v[1] >= 0 [] rule = "ratio" -> v[1] \in 0..2
       [] rule = "count" -> v[1] >= 0 /\ v[1] % 2 = 0 [] rule = "flag" -> v[1] \in {0, 2}
       [] rule = "any" -> TRUE [] rule = "never" -> FALSE

(* The time of the step is the reported one, or else that of its stage.    *)
translate(data) ==
  LET told == {k \in DOMAIN data : Accepts(Translation[k].rule, data[k])}
      step == IF "timing_step" \in told /\ "step_time" \notin told THEN {"timing_step"} ELSE {}
  IN  {[from |-> k, metric |-> Translation[k].metric, value |-> data[k][1]] : k \in told}
      \cup {[from |-> "fallback", metric |-> Translation["step_time"].metric, value |-> data[k][1]] : k \in step}

(* No two of the metrics are one series, so that none hides another; no    *)
(* time is negative, and a step that reports its time in either way has    *)
(* one, the reported one if both are there and it is sound.                *)
TranslationIsOwn(data) ==
  \A t \in {translate(data)} :
    /\ \A a, b \in t : a.metric = b.metric => a = b
    /\ \A a \in t : a.metric.phase # "" => a.value >= 0
    /\ \A k \in {"step_time", "timing_step"} \cap DOMAIN data : (data[k] # <<>> /\ data[k][1] >= 0) =>
         \E a \in t : a.metric.name = "step_time" /\ (a.value = data[k][1] \/ k = "timing_step")
    /\ \A a \in t : a.metric.name = "policy_version" => a.value % 2 = 0 /\ a.metric.key = a.from
=============================================================================
