-------------------------- MODULE BehaviorSignature --------------------------
(***************************************************************************)
(* analysis/behavior_signature.py: the summary of the events of one step   *)
(* under its budgets, the comparison of summaries, and which resources     *)
(* they make candidates.                                                   *)
(*                                                                         *)
(* A record is [context, step, scope, name, span, trace, id, parent,       *)
(* entity, seconds, precise, valid]; trace and id identify a span, parent  *)
(* and seconds are optional.  An observation is [entity, level, status,    *)
(* unit]: "hot" or "cool" where it is observed.                            *)
(***************************************************************************)
EXTENDS Integers, Sequences, SequencesExt, FiniteSets

(* _belongs: of the boundary's context and step, and of its own scope.     *)
Belongs(r, b) == r.step = b.step /\ r.context = b.context /\ r.scope = b.scope
Key(r) == <<r.name, r.entity>>

-----------------------------------------------------------------------------
(* summarize, one record: those of another step, invalid ones, those of a  *)
(* group too many and a span seen before are counted and left out.         *)
Empty == [scanned |-> 0, excluded |-> 0, invalid |-> 0, dropped |-> 0, twice |-> 0,
          accepted |-> <<>>, groups |-> {}]

Summarized(acc, r, b, maxGroups) ==
  LET s    == [acc EXCEPT !.scanned = @ + 1]
      seen == \E i \in DOMAIN s.accepted : s.accepted[i].span /\ <<s.accepted[i].trace, s.accepted[i].id>> = <<r.trace, r.id>>
  IN  IF ~Belongs(r, b) THEN [s EXCEPT !.excluded = @ + 1]
      ELSE IF ~r.valid THEN [s EXCEPT !.invalid = @ + 1]
      ELSE IF Key(r) \notin s.groups /\ Cardinality(s.groups) >= maxGroups THEN [s EXCEPT !.dropped = @ + 1]
      ELSE IF r.span /\ seen THEN [s EXCEPT !.twice = @ + 1]
      ELSE [s EXCEPT !.accepted = Append(@, r), !.groups = @ \cup {Key(r)}]

(* A span's chain of parents ends outside of the summary; otherwise it is  *)
(* a cycle and its relation is not counted.                                *)
Parent(spans, r) ==
  IF r.parent = <<>> THEN {} ELSE {s \in spans : s.trace = r.trace /\ s.id = r.parent[1]}

Chained(spans, r) ==
  LET Up(S, n) == UNION {Parent(spans, s) : s \in S}
  IN  FoldLeft(Up, {r}, [i \in 1..Cardinality(spans) |-> i]) = {}

Related(b, s, spans, relations, truncated, maxGroups) ==
  [boundary |-> b, quality |-> s, truncated |-> truncated,
   unresolved |-> Cardinality({r \in spans : r.parent # <<>> /\ Parent(spans, r) = {}}),
   relations |-> relations,
   tooMany |-> Cardinality({<<Key(e[1]), Key(e[2])>> : e \in relations}) > maxGroups]

Spans(s) == {r \in Range(s.accepted) : r.span}
Relations(spans) == {e \in spans \X spans : e[1] \in Parent(spans, e[2]) /\ Chained(spans, e[2])}
Bounded(b, s, truncated, maxGroups) == Related(b, s, Spans(s), Relations(Spans(s)), truncated, maxGroups)

UpToLimit(rows, n) == SubSeq(rows, 1, IF Len(rows) < n THEN Len(rows) ELSE n)
Signature(b, records, maxRecords, maxGroups) ==
  Bounded(b, FoldLeft(LAMBDA acc, r : Summarized(acc, r, b, maxGroups), Empty, UpToLimit(records, maxRecords)),
          Len(records) > maxRecords, maxGroups)

Incomplete(s) == s.truncated \/ s.quality.dropped > 0 \/ s.tooMany

(* The durations of a group: their number, sum and whether all are precise *)
Duration(s, key) ==
  LET timed == SelectSeq(s.quality.accepted, LAMBDA r : Key(r) = key /\ r.span /\ r.seconds # <<>>)
  IN  [count |-> Len(timed), sum |-> FoldLeft(LAMBDA n, r : n + r.seconds[1], 0, timed),
       precise |-> timed # <<>> /\ \A i \in DOMAIN timed : timed[i].precise]

-----------------------------------------------------------------------------
(* _compatible: earlier summaries of the same context, or those of the     *)
(* step's peers, of the same and some workload.                            *)
Compatible(a, b, peer) ==
  /\ IF peer THEN a.context.run = b.context.run /\ a.step = b.step /\ a.context # b.context
     ELSE a.context = b.context /\ b.sequence < a.sequence
  /\ a.scope = b.scope /\ a.workload = b.workload /\ a.workload # ""

(* compare: the complete references up to the budget, each boundary once.  *)
Eligible(current, references, peer, limit) ==
  LET Take(acc, r) ==
        IF Compatible(current.boundary, r.boundary, peer) /\ ~Incomplete(r)
           /\ \A i \in DOMAIN acc : acc[i].boundary # r.boundary
        THEN Append(acc, r) ELSE acc
  IN  FoldLeft(Take, <<>>, UpToLimit(references, limit))

(* The durations of a group in the summaries that timed it, and twice the  *)
(* median of their means.                                                  *)
Timed(references, key) ==
  SelectSeq([i \in DOMAIN references |-> Duration(references[i], key)], LAMBDA d : d.count > 0)
Middle(v) == v[(Len(v) + 1) \div 2] + v[Len(v) \div 2 + 1]
TwiceMedian(values) == Middle(SortSeq(values, <))

(* How the durations d of a group compare with the earlier ones.           *)
Grade(d, timed, median) ==
  [compared |-> median > 0, slow |-> median > 0 /\ 4 * (d.sum \div d.count) >= 3 * median,
   precise |-> d.precise /\ \A e \in Range(timed) : e.precise]
Graded(d, timed) ==
  IF d.count = 0 \/ timed = <<>> THEN [compared |-> FALSE, slow |-> FALSE, precise |-> FALSE]
  ELSE Grade(d, timed, TwiceMedian([i \in DOMAIN timed |-> timed[i].sum \div timed[i].count]))
Grades(current, references) ==
  [key \in {Key(r) : r \in Range(current.quality.accepted)} |->
     Graded(Duration(current, key), Timed(references, key))]

(* candidates, of one resource: a metric of the right unit that is hot, a  *)
(* slow group of its phase, both of one entity, and nothing missing.       *)
Measured(o) == o.status = "observed" /\ o.unit = "ratio"

State(hot, slow, missing) ==
  IF hot # {} /\ slow # {} /\ ~missing THEN "supported_candidate"
  ELSE IF hot # {} \/ slow # {} THEN "supporting_signal"
  ELSE IF missing THEN "missing_evidence" ELSE "against"
Weighed(current, grades, observations, hot, slow) ==
  State(hot, slow,
        \/ \E o \in observations : ~Measured(o)
        \/ observations = {} \/ Incomplete(current) \/ ~current.boundary.precise
        \/ \A k \in DOMAIN grades : ~grades[k].compared
        \/ \E k \in slow : ~grades[k].precise
        \/ hot # {} /\ slow # {} /\ ~\E o \in hot, k \in slow : o.entity = k[2])
CandidateOf(current, grades, observations) ==
  Weighed(current, grades, observations, {o \in observations : Measured(o) /\ o.level = "hot"},
          {k \in DOMAIN grades : grades[k].slow})
Candidate(current, references, observations) == CandidateOf(current, Grades(current, references), observations)

-----------------------------------------------------------------------------
(* Every record that was read is counted once, no summary has a span       *)
(* twice, and no relation closes a cycle.                                  *)
RecordsAreCounted(b, records, maxRecords, maxGroups) ==
  \A s \in {Signature(b, records, maxRecords, maxGroups)} : \A q \in {s.quality} :
    /\ q.scanned = Len(q.accepted) + q.excluded + q.invalid + q.dropped + q.twice
    /\ \A i, j \in DOMAIN q.accepted :
         i # j /\ q.accepted[i].span /\ q.accepted[j].span =>
           <<q.accepted[i].trace, q.accepted[i].id>> # <<q.accepted[j].trace, q.accepted[j].id>>
    /\ Cardinality(q.groups) <= maxGroups
    /\ \A e \in s.relations : e[1].trace = e[2].trace /\ <<e[2], e[1]>> \notin s.relations
    /\ ~s.truncated /\ q.dropped = 0 => Len(records) = q.scanned

(* A resource is a supported candidate only on complete summaries of the   *)
(* same workload and on precise times: a slow group and a hot metric of    *)
(* one entity, and then not with the references that are incomplete, of    *)
(* another workload or repeated.                                           *)
CandidateIsGrounded(current, all, observations, peer, limit) ==
  \A references \in {Eligible(current, all, peer, limit)} :
    /\ Candidate(current, references, observations) = "supported_candidate" =>
         /\ ~Incomplete(current) /\ references # <<>>
         /\ \E o \in observations, r \in Range(current.quality.accepted) :
              /\ o.level = "hot" /\ Measured(o) /\ o.entity = r.entity /\ r.span /\ r.precise
              /\ Belongs(r, current.boundary)
    /\ Candidate(current,
         Eligible(current, SelectSeq(all, LAMBDA r : ~Compatible(current.boundary, r.boundary, peer) \/ Incomplete(r)),
                  peer, limit),
         observations) # "supported_candidate"
    /\ Len(all) < limit => Eligible(current, all \o all, peer, 2 * limit) = references
=============================================================================
