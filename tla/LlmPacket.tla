------------------------------ MODULE LlmPacket ------------------------------
(***************************************************************************)
(* analysis/llm_diagnosis.py: the packet of measurements that a language   *)
(* model gets and what its answer may say of it.                           *)
(*                                                                         *)
(* An observation is [id, signal, node, labels, vllm, endpoint, status,    *)
(* limits]: labels gives each label it carries its value, vllm whether it  *)
(* is a metric of vLLM, endpoint its instance, component and model, or "". *)
(* A packet is [observations, window, clock, baselineClock]; an answer is  *)
(* [assessment, candidates, causal] and a candidate [evidence, counter,    *)
(* named, missing]: the observations it cites for and against it and those *)
(* its text names.                                                         *)
(***************************************************************************)
EXTENDS Integers, Sequences, SequencesExt, FiniteSets

CONSTANT MaxRows    \* the observations of a packet, at most

-----------------------------------------------------------------------------
(* collect_packet: the windows that are compared.  A configuration names   *)
(* both, or none for the last span and the one before it; its baseline is  *)
(* <<>> when it wants none.                                                *)
Windows(c, clock) ==
  IF c.current # <<>> THEN [current |-> c.current[1], baseline |-> IF c.named THEN c.baseline ELSE <<>>]
  ELSE [current |-> <<clock - c.span, clock>>,
        baseline |-> IF c.named THEN c.baseline ELSE <<<<clock - 2 * c.span, clock - c.span>>>>]

(* The series of each query in each window, joined by all their labels.    *)
(* An answer is [failed, series], its series a function of identities; a   *)
(* baseline that is not wanted is asked nothing and answers nothing.       *)
Answered(answers, q) == q \in DOMAIN answers /\ ~answers[q].failed
Series(answers, q) == IF Answered(answers, q) THEN answers[q].series ELSE <<>>
At(series, identity) == IF identity \in DOMAIN series THEN <<series[identity]>> ELSE <<>>
Joined(q, now, before) ==
  {[id |-> <<q, identity>>, signal |-> q, entity |-> identity, current |-> At(now, identity), baseline |-> At(before, identity)] :
     identity \in DOMAIN now \cup DOMAIN before}
Lacking(role, answers) ==
  {<<role, q, IF answers[q].failed THEN "failed" ELSE "no_data">> : q \in {p \in DOMAIN answers : DOMAIN Series(answers, p) = {}}}

Complete(observations, missing) ==
  IF Cardinality(observations) > MaxRows THEN <<>> ELSE <<[observations |-> observations, missing |-> missing]>>
Collected(now, before) ==
  Complete(UNION {Joined(q, Series(now, q), Series(before, q)) : q \in DOMAIN now},
           Lacking("current", now) \cup Lacking("baseline", before))

-----------------------------------------------------------------------------
(* validate_packet and the bundle that is decoded from it.                 *)
Rows(p) == Range(p.observations)
Ids(p) == {o.id : o \in Rows(p)}
WellFormed(p) ==
  /\ Len(p.observations) <= MaxRows /\ Cardinality(Ids(p)) = Len(p.observations)
  /\ p.window \in {"usable", "unknown", "absent"}
TimingUsable(p) == {p.clock, p.baselineClock} \subseteq {"aligned", "unchecked"}
Usable(p) == {o \in Rows(p) : o.status = "observed"}
Of(p, ids) == {o \in Rows(p) : o.id \in ids}

(* Evidence of different entities and of different signals: of one label   *)
(* that names an entity, or of the endpoints of vLLM.  An entity is named  *)
(* within its node, an engine within its endpoint; what other labels mean  *)
(* differs from source to source.  (A worker's run and role are left out.) *)
Engines == {"engine", "engine_id"}
Entities == Engines \cup {"worker", "worker_id", "rank", "gpu"}
Namespace(o, label) == <<o.node, IF label \in Engines THEN o.endpoint ELSE "", o.labels[label]>>
Mixed(named) ==
  /\ Cardinality({n[1] : n \in named}) > 1
  /\ Cardinality({n[2] : n \in named}) > 1
Combines(cited, label) ==
  Mixed({<<Namespace(o, label), o.signal>> : o \in {r \in cited : label \in DOMAIN r.labels}})
CombinesEndpoints(cited) ==
  Mixed({<<<<o.node, o.endpoint>>, o.signal>> : o \in {r \in cited : r.vllm /\ r.endpoint # ""}})

Cited(c) == Range(c.evidence) \cup Range(c.counter)
Acceptable(c, p) ==
  /\ c.evidence # <<>> /\ Cited(c) \subseteq Ids(p)
  /\ Len(c.evidence) = Cardinality(Range(c.evidence)) /\ Len(c.counter) = Cardinality(Range(c.counter))
  /\ Range(c.evidence) \cap Range(c.counter) = {}
  /\ Of(p, Cited(c)) \subseteq Usable(p)
  /\ UNION {o.limits : o \in Of(p, Cited(c))} \subseteq c.missing
  /\ c.named \subseteq Cited(c)
  /\ ~CombinesEndpoints(Of(p, Range(c.evidence)))
  /\ \A label \in Entities : ~Combines(Of(p, Range(c.evidence)), label)

(* validate_diagnosis *)
Valid(answer, p) ==
  /\ answer.assessment # "insufficient_evidence" => TimingUsable(p) /\ Usable(p) # {}
  /\ (answer.assessment = "bottleneck_suspected") = (answer.candidates # <<>>)
  /\ answer.candidates # <<>> => p.window = "usable"
  /\ \A c \in Range(answer.candidates) : Acceptable(c, p)

-----------------------------------------------------------------------------
(* Every series that was returned is one observation of its own, set       *)
(* against the same entity's or none, whatever the other query and window  *)
(* returned; and a query that returned nothing in a window is named.       *)
PacketIsMeasured(now, before) ==
  \A p \in {Collected(now, before)} : p # <<>> =>
    /\ \A o \in p[1].observations :
         /\ o.current # <<>> \/ o.baseline # <<>>
         /\ o.current # <<>> => Answered(now, o.signal) /\ o.current[1] = now[o.signal].series[o.entity]
         /\ o.baseline # <<>> => Answered(before, o.signal) /\ o.baseline[1] = before[o.signal].series[o.entity]
    /\ \A q \in DOMAIN now : now[q].failed \/
         \A e \in DOMAIN now[q].series : Cardinality({o \in p[1].observations : o.signal = q /\ o.entity = e}) = 1
    /\ \A q \in DOMAIN now : (\A o \in p[1].observations : o.signal = q => o.current = <<>>) =>
         \E m \in p[1].missing : m[1] = "current" /\ m[2] = q

(* The window of the last span does not overlap the one before it.         *)
WindowsAreApart(c, clock) ==
  \A w \in {Windows(c, clock)} :
    c.current = <<>> /\ ~c.named => w.baseline[1][2] <= w.current[1] /\ w.current[2] = clock
=============================================================================
