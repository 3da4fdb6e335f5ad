---------------------------- MODULE ClockQuality ----------------------------
(***************************************************************************)
(* analysis/clock_quality.py and the readers of time_alignment.py: what    *)
(* the metrics of the nodes' clocks and the recorded mapping of a window   *)
(* allow the analysis to say of the clocks.                                *)
(*                                                                         *)
(* An optional number is <<>> or <<number>>, an extent <<>> or             *)
(* <<low, high>>.  Drift is counted in the unit of the uncertainty for a   *)
(* unit of time, with no clock drifting more than MaxDrift of them.        *)
(***************************************************************************)
EXTENDS Integers, Sequences, FiniteSets, FiniteSetsExt

Magnitude(x) == IF x < 0 THEN -x ELSE x
Farthest(extent) == Max({Magnitude(extent[1]), Magnitude(extent[2])})
Least(a, b) == IF a < b THEN a ELSE b

Worst(statuses) ==
  IF "unsafe" \in statuses THEN "unsafe" ELSE IF "unknown" \in statuses THEN "unknown" ELSE "aligned"

-----------------------------------------------------------------------------
(* The evidence e of one node's clock: offset and ntp are extents, age,    *)
(* sync and error numbers, samples the fewest evaluations of a query,      *)
(* partial says that an answer carried a warning or lost samples, and      *)
(* source what the answers say of the series they come from.  The limits c *)
(* are skew, age, sync (whether it is required), uncertainty and window.   *)

Missing(e, c) ==
  \/ <<>> \in {e.offset, e.age, e.ntp, e.error}
  \/ e.error # <<>> /\ e.error[1] < 0
  \/ c.sync /\ e.sync = <<>>

Doubtful(e) == e.samples < 2 \/ e.partial \/ e.source \notin {"not reported", "own"}

Unsafe(e, c) ==
  \/ e.offset # <<>> /\ (Farthest(e.offset) > c.skew \/ e.offset[2] - e.offset[1] > c.uncertainty)
  \/ e.age # <<>> /\ (e.age[1] > c.age \/ e.age[1] < 0 \/ e.age[1] > c.window)
  \/ c.sync /\ e.sync # <<>> /\ e.sync[1] < 1
  \/ e.error # <<>> /\ e.error[1] > c.uncertainty
  \/ e.ntp # <<>> /\ Farthest(e.ntp) > c.uncertainty

NodeStatus(e, c) ==
  IF Unsafe(e, c) THEN "unsafe" ELSE IF Missing(e, c) \/ Doubtful(e) THEN "unknown" ELSE "aligned"

(* The evidence of a node whose query of one metric failed.                *)
Without(e, metric) == [e EXCEPT ![metric] = <<>>]

(* assess_clocks: each node and their worst.                               *)
Assess(status, nodes) == [status |-> Worst({status[n] : n \in nodes}),
                          nodes  |-> [n \in nodes |-> status[n]], mapped |-> FALSE]

(* assess_interval of a case x: the status of every node's clock, the      *)
(* producer, monitoring and the nodes of clocked producers (sets), the     *)
(* node named in the window's alignment and the verdict of Validated on it *)
(* ("absent" where there is no mapping), and whether a reference is asked. *)
IntervalNodes(x) == x.clocked \cup {x.producer} \cup x.monitoring

Unmonitored(x) == Cardinality(IntervalNodes(x)) > 1 /\ x.monitoring = {}

(* What a bug would do: the doubt is forgotten.                            *)
CapForgotten(status, doubt) == status

Cap(status, doubt) == IF doubt /\ status # "unsafe" THEN "unknown" ELSE status

AssessInterval(x) ==
  LET screening == Assess(x.status, IntervalNodes(x))
      mapping   == IF x.mapping = "absent" \/ x.mappedNode # x.producer THEN "unknown" ELSE x.mapping
      clocked   == Worst({x.status[n] : n \in x.clocked})
      own       == IF clocked = "aligned" THEN mapping ELSE clocked
      several   == Cardinality(IntervalNodes(x)) > 1
      overall   == IF several /\ screening.status # "aligned" THEN screening.status ELSE own
  IN  IF x.mapping = "absent" /\ ~x.reference
        THEN [screening EXCEPT !.status = Cap(@, Unmonitored(x))]
        ELSE [status |-> Cap(overall, Unmonitored(x)), nodes |-> screening.nodes, mapped |-> TRUE]

(* producer_hosts_verified: the raw timestamps of hosts may be compared.   *)
HostsVerified(clock, hosts) ==
  /\ hosts # {} /\ clock.status = "aligned"
  /\ \A h \in hosts : h \in DOMAIN clock.nodes /\ clock.nodes[h] = "aligned"

-----------------------------------------------------------------------------
(* A mapping a of a record's window: its status, node, reference, session, *)
(* offset, uncertainty, exchange, the interval from..until in which it     *)
(* holds, its anchor, drift and the raw window <<start, end>> it was made  *)
(* for.                                                                    *)

MaxDrift == 1
MaxLifetime == 30

Expected(a) ==
  a.exchange + a.drift * Max({Magnitude(a.raw[1] - a.anchor), Magnitude(a.raw[2] - a.anchor)})

(* validate_alignment: judged at the event's time, not at today's.         *)
Validated(window, a, reference, most) ==
  IF /\ a.status = "aligned" /\ reference # "none" /\ a.reference = reference
     /\ a.drift \in 0..MaxDrift /\ a.exchange >= 0
     /\ 0 <= a.from /\ a.from <= a.raw[1] /\ a.raw[1] <= a.raw[2] /\ a.raw[2] <= a.until
     /\ a.from <= a.anchor /\ a.anchor < a.until /\ a.until - a.anchor <= MaxLifetime
     /\ a.uncertainty >= Expected(a)
     /\ window = <<a.raw[1] + a.offset, a.raw[2] + a.offset>>
  THEN IF a.uncertainty <= most THEN "aligned" ELSE "unsafe"
  ELSE "unknown"

(* event_window: a record r is a node, a raw window, broken (the clock was *)
(* stepped within it) and an optional mapping.  The uncertainty may be a   *)
(* tenth of a span and one second of a point.                              *)
SpanLimit(raw, second) == IF raw[2] > raw[1] THEN Least(second, (raw[2] - raw[1]) \div 10) ELSE second

EventWindow(r, reference, session, second) ==
  IF r.broken THEN <<>>
  ELSE IF r.mapping = <<>>
    THEN IF reference # "none" \/ session # "none" THEN <<>> ELSE r.raw
  ELSE LET a      == r.mapping[1]
           window == <<r.raw[1] + a.offset, r.raw[2] + a.offset>>
           asked  == IF reference = "none" THEN a.reference ELSE reference
       IN  IF /\ a.node = r.node /\ a.raw = r.raw
              /\ session \in {"none", a.session}
              /\ Validated(window, a, asked, SpanLimit(r.raw, second)) = "aligned"
           THEN window ELSE <<>>

-----------------------------------------------------------------------------
(* Evidence that is lost never makes a clock good, and a clock that is     *)
(* good is good under every looser limit.                                  *)
LostEvidenceNeverAligns(e, c) ==
  NodeStatus(e, c) # "aligned" =>
    \A metric \in {"offset", "age", "ntp", "error", "sync"} : NodeStatus(Without(e, metric), c) # "aligned"

LooserLimitsKeep(e, c) ==
  NodeStatus(e, c) = "aligned" =>
    \A limit \in {"skew", "age", "uncertainty", "window"} :
      NodeStatus(e, [c EXCEPT ![limit] = @ + 1]) = "aligned"

(* A mapping of the producer's clock certifies no other clock: hosts are   *)
(* verified only if each was screened and is aligned, and one of several   *)
(* nodes only if the monitoring host is known.                             *)
MappingCertifiesNoOther(x) ==
  LET clock == AssessInterval(x)
  IN  /\ \A hosts \in SUBSET DOMAIN x.status :
           HostsVerified(clock, hosts) =>
             \A h \in hosts : h \in IntervalNodes(x) /\ x.status[h] = "aligned"
      /\ clock.status = "aligned" =>
           /\ ~Unmonitored(x)
           /\ \A n \in IntervalNodes(x) \ {x.producer} : x.status[n] = "aligned"
           /\ clock.mapped \/ x.status[x.producer] = "aligned"

(* The window of a record is, in the session that is asked for, the time   *)
(* at which it happened on the node that recorded it, even where records   *)
(* carry one another's mappings: Offset[node][session] is the true one.    *)
WindowIsTheRecords(r, reference, session, second, Offset) ==
  LET window == EventWindow(r, reference, session, second)
  IN  window # <<>> /\ session # "none" =>
        window = <<r.raw[1] + Offset[r.node][session], r.raw[2] + Offset[r.node][session]>>
=============================================================================
