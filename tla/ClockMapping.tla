---------------------------- MODULE ClockMapping ----------------------------
(***************************************************************************)
(* operations/clock.py, time_alignment.py and the spans of events.py: a    *)
(* node measures its wall clock against the monitoring host's, keeps the   *)
(* measurements in a file, and every span it records is mapped with one of *)
(* them, while either wall clock may be stepped at any moment.             *)
(*                                                                         *)
(* Time passes in ticks of one second on both monotonic clocks, without    *)
(* drift, so that the terms in drift_ppm vanish; a step of a wall clock is *)
(* whole ticks and so never within the tolerance of 50 ms.  Offsets and    *)
(* uncertainties are halves of integers and are kept doubled.  No host     *)
(* reboots.                                                                *)
(***************************************************************************)
EXTENDS Integers, Sequences, FiniteSets, SequencesExt

CONSTANTS
  TTL,       (* the lifetime of a calibration                               *)
  MaxTime,   (* bound of the model: ticks                                   *)
  MaxSteps,  (* bound of the model: steps of the two wall clocks            *)
  MaxSent    (* bound of the model: exchanges begun                         *)

VARIABLES
  now,       (* the monotonic clocks                                        *)
  node,      (* the node's wall clock is now + node                         *)
  reference, (* the monitoring host's is now + reference                    *)
  axis,      (* the server's sessions: axis[s] is the reference it last saw *)
             (* in session s                                                *)
  exchange,  (* the exchange under way: its nonce's t1, m1 and then t2      *)
  samples,   (* observations of the calibration under way                   *)
  saved,     (* the calibration file: the measurement and its history       *)
  cached,    (* CalibrationCache._values as <<values>>, <<>> if it will read *)
  span,      (* the wall and monotonic time at which the span began         *)
  record,    (* the span just recorded                                      *)
  steps, sent

clocks == <<now, node, reference, steps>>
measuring == <<exchange, samples, sent>>
vars == <<clocks, axis, measuring, saved, cached, span, record>>

None == [none |-> TRUE]
Wall == now + node
Within(a, b) == a = b         (* no further apart than 50 ms                *)
Distance(a, b) == IF a < b THEN b - a ELSE a - b
Unrecorded == record' = None

Init ==
  /\ now = 0 /\ node = 0 /\ reference = 0 /\ steps = 0 /\ sent = 0 /\ axis = <<0>>
  /\ exchange = None /\ samples = <<>> /\ saved = {} /\ cached = <<>>
  /\ span = None /\ record = None

(* The file is read at most once a second.                                 *)
Tick ==
  /\ now < MaxTime /\ now' = now + 1 /\ cached' = <<>>
  /\ Unrecorded /\ UNCHANGED <<node, reference, steps, axis, measuring, saved, span>>

(* An administrator or a time daemon steps a wall clock.                   *)
StepClock ==
  /\ steps < MaxSteps /\ steps' = steps + 1
  /\ \E by \in {-1, 1} :
       \/ node' = node + by /\ UNCHANGED reference
       \/ reference' = reference + by /\ UNCHANGED node
  /\ Unrecorded /\ UNCHANGED <<now, axis, measuring, saved, cached, span>>
-----------------------------------------------------------------------------
Measuring == Unrecorded /\ UNCHANGED <<clocks, cached, span>>
Unanswered == exchange # None /\ "t2" \notin DOMAIN exchange

Send ==
  /\ sent < MaxSent /\ sent' = sent + 1
  /\ exchange = None /\ exchange' = [t1 |-> Wall, m1 |-> now]
  /\ Measuring /\ UNCHANGED <<axis, samples, saved>>

(* A reference clock that was stepped since the last answer gets a new     *)
(* session, and the answer that finds it out is marked unstable.           *)
Answer ==
  /\ Unanswered
  /\ LET stable == Within(reference, Last(axis))
     IN /\ axis' = IF stable THEN axis ELSE Append(axis, reference)
        /\ exchange' = [t1 |-> exchange.t1, m1 |-> exchange.m1, t2 |-> now + reference,
                        session |-> Len(axis'), stable |-> stable]
  /\ Measuring /\ UNCHANGED <<samples, sent, saved>>

(* The request fails or the answer is lost.                                *)
Lose == exchange # None /\ exchange' = None
        /\ Measuring /\ UNCHANGED <<axis, samples, sent, saved>>

(* estimate: half the round trip bounds what the asymmetry of the two ways *)
(* adds to the offset.                                                     *)
Measured ==
  [offset |-> (exchange.t2 - exchange.t1) + (exchange.t2 - Wall),
   uncertainty |-> now - exchange.m1,
   anchor |-> Wall, mono |-> now, from |-> exchange.t1, until |-> Wall + TTL,
   session |-> exchange.session]

(* A reply is measured if both clocks were steady; one of another session  *)
(* than the sample before ends the calibration without a result.           *)
Receive ==
  /\ exchange # None /\ ~Unanswered /\ Len(samples) < 2
  /\ exchange.stable /\ Within(Wall - exchange.t1, now - exchange.m1)
  /\ exchange' = None
  /\ samples' = IF samples # <<>> /\ samples[1].session # exchange.session THEN <<>>
                ELSE Append(samples, Measured)
  /\ Measuring /\ UNCHANGED <<axis, sent, saved>>

Steady(v) == now >= v.mono /\ Within(Wall - v.anchor, now - v.mono)
Usable(v) == now - v.mono <= TTL /\ v.anchor <= Wall /\ Wall <= v.until /\ Steady(v)

(* Of its predecessors a measurement keeps those of its session that agree *)
(* with it.                                                                *)
Agrees(old, new) ==
  /\ old.session = new.session /\ old.until >= new.anchor
  /\ Distance(old.offset, new.offset) <= old.uncertainty + new.uncertainty

SharpestIn(values) ==
  CHOOSE v \in values : \A w \in values : v.uncertainty <= w.uncertainty

(* The end of calibrate, and save_calibration.                             *)
Save ==
  /\ exchange = None /\ samples # <<>> /\ samples' = <<>>
  /\ LET usable == {v \in ToSet(samples) : Usable(v)}
         best == SharpestIn(usable)
     IN saved' = IF usable = {} THEN saved ELSE {best} \cup {old \in saved : Agrees(old, best)}
  /\ Measuring /\ UNCHANGED <<axis, exchange, sent>>
-----------------------------------------------------------------------------
Begin == span = None /\ span' = [wall |-> Wall, mono |-> now]
         /\ Unrecorded /\ UNCHANGED <<clocks, axis, measuring, saved, cached>>

Mappings == IF cached = <<>> THEN saved ELSE cached[1]

Covering(start) ==
  {v \in Mappings : v.from <= start /\ start <= Wall /\ Wall <= v.until /\ v.anchor <= Wall}

Project(start) ==
  LET value == SharpestIn(Covering(start))
  IN  IF Covering(start) = {} \/ ~Steady(value) THEN None ELSE value

(* A span whose wall and monotonic durations differ is flagged and keeps   *)
(* no mapping.                                                             *)
End ==
  /\ span # None /\ span' = None
  /\ cached' = <<Mappings>>
  /\ LET flagged == ~Within(Wall - span.wall, now - span.mono)
     IN record' = IF flagged \/ Project(span.wall) = None THEN None
                  ELSE [start |-> span.wall, end |-> Wall, began |-> span.mono, ended |-> now,
                        mapping |-> Project(span.wall)]
  /\ UNCHANGED <<clocks, axis, measuring, saved>>

Next ==
  Tick \/ StepClock \/ Send \/ Answer \/ Lose \/ Receive \/ Save \/ Begin \/ End

Spec == Init /\ [][Next]_vars
-----------------------------------------------------------------------------
TypeOK ==
  /\ now \in 0..MaxTime /\ node \in Int /\ reference \in Int /\ steps \in 0..MaxSteps
  /\ axis \in Seq(Int) /\ Len(samples) <= 2 /\ sent \in 0..MaxSent

(* A span that carries a mapping lies, on the axis of the mapping's        *)
(* session, no further from where it really was than its uncertainty says, *)
(* whichever clock was stepped while it was measured, saved, cached and    *)
(* used.                                                                   *)
MappingIsTrue ==
  record # None =>
    \A at \in {<<record.start, record.began>>, <<record.end, record.ended>>} :
      Distance(2 * at[1] + record.mapping.offset, 2 * (at[2] + axis[record.mapping.session]))
        <= record.mapping.uncertainty
=============================================================================
