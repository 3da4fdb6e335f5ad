--------------------------- MODULE ExecutionGraph ---------------------------
(***************************************************************************)
(* analysis/execution_graph.py and trajectory_path.py: the graph of the    *)
(* spans of a run and of the relations they carry, and the chain of        *)
(* operations that a trajectory waited for.                                *)
(*                                                                         *)
(* A span is [id, run, node, accuracy, start, end, raw, duration,          *)
(* sampling, u, session, links, parent, contract, completion, named]:      *)
(* start and end on the reference axis when it is calibrated, to within u, *)
(* raw its times on the node's own clock, sampling the optional times of   *)
(* the monotonic clock with their uncertainties, links the ids it depends  *)
(* on, parent its optional parent; named says whether the record carries   *)
(* its ids, and a link that carries none is "".  The clocks are [nodes,    *)
(* window]: the nodes whose clocks are known to be aligned, none when the  *)
(* cluster's are not, and the window in which they were.  Whole numbers    *)
(* stand for nanoseconds.                                                  *)
(***************************************************************************)
EXTENDS Integers, Sequences, SequencesExt, FiniteSets

Abs(x) == IF x < 0 THEN -x ELSE x

-----------------------------------------------------------------------------
(* _interval: whether the clocks that a span was measured with agree.      *)
Sampled(s) ==
  LET m == s.sampling[1]
  IN  /\ m.start <= m.end /\ m.end - m.start = s.duration
      /\ Abs((s.raw[2] - s.raw[1]) - (m.end - m.start)) <= m.us + m.ue + 1

Precise(s) ==
  /\ s.accuracy \in {"exact", "calibrated"} /\ s.start <= s.end
  /\ IF s.sampling # <<>> THEN Sampled(s) ELSE s.end - s.start = s.duration

(* aligned: times of two spans may be compared on one node, and otherwise  *)
(* only when both are calibrated and the clocks of both nodes are known    *)
(* to be aligned from before the first of them until after the last.       *)
Aligned(a, b, clocks) ==
  /\ Precise(a) /\ Precise(b) /\ a.session = b.session
  /\ a.node # b.node => a.accuracy = "calibrated" /\ b.accuracy = "calibrated" /\ {a.node, b.node} \subseteq clocks.nodes
                       /\ \A s \in {a, b} : clocks.window[1] <= s.start /\ s.end <= clocks.window[2]

(* build_graph: of the records up to the budget, the run's own; an id that *)
(* occurs twice is ambiguous, and so is every relation to it.  A record or *)
(* a link without its ids is left out, and the graph says so.              *)
Graph(records, run, maxSpans, maxEdges) ==
  LET read  == SubSeq(records, 1, IF Len(records) < maxSpans THEN Len(records) ELSE maxSpans)
      own   == SelectSeq(read, LAMBDA s : s.run = run /\ s.named)
      ids   == {own[i].id : i \in DOMAIN own}
      first == [id \in ids |-> own[CHOOSE i \in DOMAIN own : own[i].id = id /\ \A j \in DOMAIN own : own[j].id = id => i <= j]]
      twice == {id \in ids : \E i, j \in DOMAIN own : i # j /\ own[i].id = id /\ own[j].id = id}
      known(id) == id \in ids \ twice
      edge(source, target, relation) ==
        [source |-> source, target |-> target, relation |-> relation,
         kind |-> IF known(source) /\ known(target) THEN "observed" ELSE "unknown"]
      edges == UNION {{edge(first[id].parent[1], id, "parent") : p \in IF first[id].parent = <<>> THEN {} ELSE {1}}
                      \cup {edge(l, id, "depends_on") : l \in first[id].links \ {""}} : id \in ids}
  IN  [spans |-> first, ambiguous |-> twice, edges |-> edges,
       truncated |-> Len(records) > maxSpans \/ Cardinality(edges) > maxEdges,
       invalid |-> (\E s \in ToSet(read) : s.run = run /\ ~s.named) \/ (\E id \in ids : "" \in first[id].links)]

(* topological: whether the relations have an order.                       *)
Acyclic(ids, pairs) ==
  \A S \in (SUBSET ids) \ {{}} : \E n \in S : \A p \in pairs : p[2] = n => p[1] \notin S

-----------------------------------------------------------------------------
(* _local_sample_order: "none" without a sample of either, and otherwise   *)
(* whether the first lies before the second by more than what is known.    *)
Before(x, xu, y, yu) == IF xu + yu = 0 THEN y >= x ELSE y - x > xu + yu
LocalOrder(a, aEdge, b, bEdge) ==
  IF a.sampling = <<>> /\ b.sampling = <<>> THEN "none"
  ELSE IF a.sampling = <<>> \/ b.sampling = <<>> THEN "unknown"
  ELSE LET x == a.sampling[1]
           y == b.sampling[1]
           u(m, e) == IF e = "start" THEN m.us ELSE m.ue
       IN  IF Before(x[aEdge], u(x, aEdge), y[bEdge], u(y, bEdge)) THEN "before" ELSE "not"

Calibrated(a, b) == a.accuracy = "calibrated" /\ b.accuracy = "calibrated"

(* An operation lies within its trajectory, also on the node's own clock   *)
(* or by more than the uncertainty of the two clocks.                      *)
Contained(op, root) ==
  /\ root.start <= op.start /\ op.end <= root.end
  /\ IF op.node = root.node
     THEN /\ LET s == LocalOrder(root, "start", op, "start")
                 e == LocalOrder(op, "end", root, "end")
             IN  <<s, e>> \in {<<"none", "none">>, <<"before", "before">>}
          /\ Calibrated(op, root) => root.raw[1] <= op.raw[1] /\ op.raw[2] <= root.raw[2]
     ELSE root.start <= op.start - op.u - root.u /\ op.end + op.u + root.u <= root.end

(* A dependency ends before what depends on it starts.                     *)
Follows(a, b, clocks) ==
  /\ Aligned(a, b, clocks)
  /\ IF a.node # b.node THEN a.end + a.u + b.u <= b.start
     ELSE /\ LET order == LocalOrder(a, "end", b, "start")
             IN  order = "before" \/ (order = "none" /\ a.end <= b.start)
          /\ Calibrated(a, b) => a.raw[2] <= b.raw[1]

Compare(x, y) == IF x > y THEN 1 ELSE IF x < y THEN -1 ELSE 0

(* The predecessor that ends last is certain.                              *)
LastOf(chosen, other) ==
  IF chosen.node # other.node THEN chosen.end - other.end > chosen.u + other.u
  ELSE LET order == LocalOrder(other, "end", chosen, "end")
       IN  /\ order \in {"before", "none"}
           /\ order = "none" /\ Calibrated(chosen, other) =>
                Compare(chosen.end, other.end) = Compare(chosen.raw[2], other.raw[2])

(* critical_path: <<>> when anything is missing or uncertain, else the     *)
(* chain that ends in the completion.                                      *)
CriticalPath(g, root, clocks) ==
  LET owner     == g.spans[root]
      members   == {e.target : e \in {f \in g.edges : f.relation = "parent" /\ f.source = root /\ f.kind = "observed"}}
      touching  == {e \in g.edges : {e.source, e.target} \cap (members \cup {root}) # {}}
      depends   == {e \in g.edges : e.kind = "observed" /\ e.relation = "depends_on" /\ e.target \in members}
      pairs     == {<<e.source, e.target>> : e \in depends}
      incoming(id) == {p[1] : p \in {q \in pairs : q[2] = id}}
      marked    == {id \in members : g.spans[id].completion}
      completion == CHOOSE id \in marked : TRUE
      \* the end by the monotonic clock when all predecessors have one of one node
      local(ids) == Cardinality({g.spans[i].node : i \in ids}) = 1 /\ \A i \in ids : g.spans[i].sampling # <<>>
      endOf(i, ids) == IF local(ids) THEN g.spans[i].sampling[1].end ELSE g.spans[i].end
      last(ids) == CHOOSE i \in ids : \A j \in ids : endOf(i, ids) >= endOf(j, ids)
      Waits(covered, n) == covered \cup UNION {incoming(id) : id \in covered}
      covered   == FoldLeft(Waits, {completion}, [i \in 1..Cardinality(members) |-> i])
      Back(path, n) == IF incoming(path[1]) = {} THEN path ELSE <<last(incoming(path[1]))>> \o path
      path      == FoldLeft(Back, <<completion>>, [i \in 1..Cardinality(members) |-> i])
      seconds   == FoldLeft(LAMBDA n, id : n + g.spans[id].duration, 0, path)
      declared  == /\ root \in DOMAIN g.spans /\ owner.contract /\ ~g.truncated /\ ~g.invalid /\ members # {}
                   /\ ~\E e \in g.edges : e.relation = "parent" /\ e.source \in members
                   /\ \A e \in touching : e.kind # "unknown"
                   /\ \A p \in pairs : p[1] \in members
      timed     == /\ (members \cup {root}) \cap g.ambiguous = {} /\ \A id \in members \cup {root} : Precise(g.spans[id])
                   /\ \A id \in members : Aligned(g.spans[id], owner, clocks) /\ Contained(g.spans[id], owner)
                   /\ \A p \in pairs : Follows(g.spans[p[1]], g.spans[p[2]], clocks)
      complete  == Acyclic(members, pairs) /\ Cardinality(marked) = 1 /\ covered = members
      certain   == \A id \in members : incoming(id) # {} =>
                     \A other \in incoming(id) \ {last(incoming(id))} : LastOf(g.spans[last(incoming(id))], g.spans[other])
  IN  IF declared /\ timed /\ complete /\ certain /\ seconds <= owner.duration
      THEN <<[path |-> path, seconds |-> seconds, members |-> members]>> ELSE <<>>

-----------------------------------------------------------------------------
(* compare_paths: of at most so many references the earlier trajectories   *)
(* of the same worker and workload, each once; too many and no comparison  *)
(* is made.                                                                *)
References(current, references, limit) ==
  LET read   == SubSeq(references, 1, IF Len(references) < limit THEN Len(references) ELSE limit)
      fits(r) == /\ r.path /\ current.context.worker # "" /\ r.context = current.context /\ r.run = current.run
                 /\ current.workload # "" /\ r.workload = current.workload /\ r.sequence < current.sequence
      Take(acc, r) == IF fits(r) /\ \A i \in DOMAIN acc : acc[i].sequence # r.sequence THEN Append(acc, r) ELSE acc
  IN  FoldLeft(Take, <<>>, read)

Comparison(current, references, limit) ==
  [count |-> Len(References(current, references, limit)),
   comparable |-> /\ current.path /\ Len(references) <= limit
                  /\ Len(References(current, references, limit)) >= 5]

-----------------------------------------------------------------------------
(* The true times of the spans are given, and the recorded ones differ     *)
(* from them by no more than they say.  A reported path is a chain of      *)
(* operations of which each truly ended before the next started, no        *)
(* operation that the next one waited for truly ended later, and every     *)
(* operation of the trajectory was waited for.                             *)
PathIsTrue(g, root, clocks, truth) ==
  \A result \in {CriticalPath(g, root, clocks)} : result # <<>> =>
    LET path == result[1].path
    IN  /\ g.spans[path[Len(path)]].completion
        /\ \A i \in 1..(Len(path) - 1) :
             /\ truth[path[i]][2] <= truth[path[i+1]][1]
             /\ \A id \in g.spans[path[i+1]].links : truth[id][2] <= truth[path[i]][2]
        /\ \A id \in result[1].members : truth[root][1] <= truth[id][1] /\ truth[id][2] <= truth[root][2]
        /\ g.spans[path[1]].links = {}

(* No span of another run, and no span that was written twice, is ever on  *)
(* a path, nor is there one when a span of the run or what one waited for  *)
(* cannot be told; the order in which spans were written changes nothing.  *)
PathIsOwn(records, run, root, clocks) ==
  \A g \in {Graph(records, run, 4096, 8192)}, turned \in {Graph(Reverse(records), run, 4096, 8192)} :
    \A path \in {IF root \in DOMAIN g.spans THEN CriticalPath(g, root, clocks) ELSE <<>>} : path # <<>> =>
      /\ \A i \in DOMAIN path[1].path :
           Cardinality({j \in DOMAIN records : records[j].id = path[1].path[i] /\ records[j].run = run}) = 1
      /\ \A j \in DOMAIN records : records[j].run = run => records[j].named
      /\ \A i \in DOMAIN path[1].path : "" \notin g.spans[path[1].path[i]].links
      /\ CriticalPath(turned, root, clocks) = path

ReferencesAreEarlier(current, references, limit) ==
  LET r == References(current, references, limit)
  IN  /\ Cardinality({r[i].sequence : i \in DOMAIN r}) = Len(r)
      /\ \A i \in DOMAIN r : r[i].sequence < current.sequence /\ r[i].run = current.run
=============================================================================
