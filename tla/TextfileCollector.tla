-------------------------- MODULE TextfileCollector -------------------------
(***************************************************************************)
(* metrics/textfile.py: every poll reads the snapshots that the producers  *)
(* replace meanwhile, through a cache of bounded size, leaves out the runs *)
(* that have ended, and publishes the latest snapshot of each producer.    *)
(*                                                                         *)
(* A snapshot is reduced to its producer, size and observed_at; the stamp  *)
(* of a file (_signature) is never that of another file.  A file is named  *)
(* by its run and its place in the run's directory.                        *)
(***************************************************************************)
EXTENDS Naturals, Sequences, FiniteSetsExt

CONSTANTS
  Runs,        (* runs found under the run roots                            *)
  MaxFiles,    (* SnapshotCache.max_files                                   *)
  MaxBytes,    (* SnapshotCache.max_bytes                                   *)
  Sizes,       (* the sizes a snapshot may have                             *)
  MaxObserved  (* bound of the model: snapshots written                     *)

Paths == Runs \X {1, 2}
Absent == [stamp |-> 0, size |-> 0]

VARIABLES
  file,      (* file[p]: the snapshot at p, or Absent                       *)
  written,   (* snapshots written; the last one's observed_at and stamp     *)
  finished,  (* runs whose telemetry-health.json says so                    *)
  entries,   (* SnapshotCache._entries, the least recently used first       *)
  bytes,     (* SnapshotCache._bytes                                        *)
  todo,      (* the runs still to come in this poll, and the paths of the   *)
             (* run in hand                                                 *)
  active,    (* active_paths                                                *)
  selected,  (* the latest snapshot per producer so far, by its observed_at, *)
             (* and after the poll what application.prom has                *)
  before     (* history: the files and the finished runs as the poll began  *)

producers == <<file, written, finished>>
cache == <<entries, bytes>>
poll == <<todo, active, selected, before>>
vars == <<producers, cache, poll>>

Idle == [runs |-> {}, paths |-> {}]

Init ==
  /\ file = [p \in Paths |-> Absent] /\ written = 0 /\ finished = {}
  /\ entries = <<>> /\ bytes = 0
  /\ todo = Idle /\ active = {} /\ selected = <<>>
  /\ before = [file |-> file, finished |-> {}, on |-> FALSE]

(* A producer replaces its snapshot, possibly under a second name.         *)
Replace(p) ==
  /\ written < MaxObserved /\ p[1] \notin finished
  /\ written' = written + 1
  /\ \E size \in Sizes :
       file' = [file EXCEPT ![p] = [stamp |-> written', size |-> size]]
  /\ UNCHANGED <<finished, cache, poll>>

Vanish(p) == file[p] # Absent /\ file' = [file EXCEPT ![p] = Absent]
             /\ UNCHANGED <<written, finished, cache, poll>>

FinishRun(r) == r \notin finished /\ finished' = finished \cup {r}
                /\ UNCHANGED <<file, written, cache, poll>>
-----------------------------------------------------------------------------
Begin ==
  /\ todo = Idle /\ ~before.on
  /\ before' = [file |-> file, finished |-> finished, on |-> TRUE]
  /\ todo' = [runs |-> Runs, paths |-> {}]
  /\ active' = {} /\ selected' = <<>>
  /\ UNCHANGED <<producers, cache>>

(* Directories and the files of each are visited in order.  A directory is *)
(* left out when its run has ended, and listed otherwise.                  *)
List ==
  /\ todo.paths = {}
  /\ \E r \in todo.runs :
       /\ \A q \in todo.runs : r <= q
       /\ LET paths == {p \in {r} \X {1, 2} : r \notin finished /\ file[p] # Absent}
          IN /\ todo' = [runs |-> todo.runs \ {r}, paths |-> paths]
             /\ active' = active \cup paths
  /\ UNCHANGED <<producers, cache, selected, before>>

(* The entries of these paths, and the bytes of the entries.               *)
Of(seq, paths) ==
  LET of[k \in 0..Len(seq)] ==
        IF k = 0 THEN <<>>
        ELSE IF seq[k].path \in paths THEN Append(of[k - 1], seq[k]) ELSE of[k - 1]
  IN  of[Len(seq)]
Bytes(seq) ==
  LET sum[k \in 0..Len(seq)] == IF k = 0 THEN 0 ELSE sum[k - 1] + seq[k].size IN sum[Len(seq)]
Without(p) == Of(entries, Paths \ {p})
Cached(p) == Of(entries, {p})

(* How many of the oldest entries go until one more of this size fits.    *)
Evicted(seq, held, size) ==
  Min({k \in 0..Len(seq) :
         \/ k = Len(seq)
         \/ Len(seq) - k < MaxFiles /\ held - Bytes(SubSeq(seq, 1, k)) + size <= MaxBytes})

(* _select_latest, with the producer of a run as its identity.             *)
Newer(run, stamp) ==
  IF run \in DOMAIN selected /\ selected[run] > stamp THEN selected
  ELSE [q \in DOMAIN selected \cup {run} |-> IF q = run THEN stamp ELSE selected[q]]

HitBySize(p) == Cached(p) # <<>> /\ Cached(p)[1].size = file[p].size
Hit(p) == Cached(p) # <<>> /\ Cached(p)[1].stamp = file[p].stamp

(* SnapshotCache.read of a file that is there: its entry is taken out, and *)
(* put back last if it is still good or the new one is not too large.      *)
ReadFile(p) ==
  LET held == bytes - Bytes(Cached(p))
      gone == Evicted(Without(p), held, file[p].size)
      entry == IF Hit(p) THEN Cached(p)[1]
               ELSE [path |-> p, stamp |-> file[p].stamp, size |-> file[p].size]
  IN  /\ selected' = Newer(p[1], entry.stamp)
      /\ \/ Hit(p) /\ entries' = Append(Without(p), entry) /\ bytes' = held + entry.size
         \/ ~Hit(p) /\ file[p].size > MaxBytes /\ entries' = Without(p) /\ bytes' = held
         \/ /\ ~Hit(p) /\ file[p].size <= MaxBytes
            /\ entries' = Append(SubSeq(Without(p), gone + 1, Len(Without(p))), entry)
            /\ bytes' = held - Bytes(SubSeq(Without(p), 1, gone)) + entry.size

(* A file that is gone by now costs its entry and is left out.             *)
Read ==
  /\ \E p \in todo.paths :
       /\ \A q \in todo.paths : p[2] <= q[2]
       /\ todo' = [todo EXCEPT !.paths = @ \ {p}]
       /\ IF file[p] # Absent THEN ReadFile(p)
          ELSE entries' = Without(p) /\ bytes' = bytes - Bytes(Cached(p)) /\ UNCHANGED selected
  /\ UNCHANGED <<producers, active, before>>

(* retain, and the textfile is replaced.                                   *)
Publish ==
  /\ todo = Idle /\ before.on
  /\ entries' = Of(entries, active) /\ bytes' = bytes - Bytes(Of(entries, Paths \ active))
  /\ before' = [before EXCEPT !.on = FALSE]
  /\ UNCHANGED <<producers, todo, active, selected>>

Next ==
  \/ \E p \in Paths : Replace(p) \/ Vanish(p)
  \/ \E r \in Runs : FinishRun(r)
  \/ Begin \/ List \/ Read \/ Publish

Spec == Init /\ [][Next]_vars
-----------------------------------------------------------------------------
TypeOK ==
  /\ \A p \in Paths : file[p].stamp \in 0..MaxObserved /\ file[p].size \in Sizes \cup {0}
  /\ finished \subseteq Runs /\ written \in 0..MaxObserved
  /\ bytes \in 0..MaxBytes /\ Len(entries) <= MaxFiles
  /\ active \subseteq Paths

(* A poll publishes nothing of a run that had ended when it began, and of  *)
(* a producer nothing older than any of its files that stayed as it was,   *)
(* whatever is replaced or removed meanwhile.                              *)
PublishesLatest ==
  ~before.on =>
    /\ \A r \in DOMAIN selected : r \notin before.finished
    /\ \A p \in Paths :
         file[p] = before.file[p] /\ file[p] # Absent /\ p[1] \notin finished =>
           p[1] \in DOMAIN selected /\ selected[p[1]] >= file[p].stamp

CacheIsBounded == bytes = Bytes(entries) /\ bytes <= MaxBytes /\ Len(entries) <= MaxFiles

CollectorIsFresh == PublishesLatest /\ CacheIsBounded
=============================================================================
