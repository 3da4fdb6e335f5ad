----------------------------- MODULE StepExport -----------------------------
(***************************************************************************)
(* The export of training steps: VERL's file logger, the bridge that       *)
(* follows it (adapters/verl.py), and the step history the bridge appends  *)
(* to (step_history.py, fileio.append_jsonl).  Bridges run one after       *)
(* another, the last one the final export of the run wrapper; each may be  *)
(* killed anywhere, in the middle of a write included.  The logger's lines *)
(* become visible in parts, and its file is truncated and replaced.        *)
(*                                                                         *)
(* Records are numbered as they are logged; a line of a file is cut into   *)
(* cells.  The open, fstat and pread of one look at the logger are one     *)
(* step.  The metric snapshots the bridge emits are BoundedWriter's.       *)
(***************************************************************************)
EXTENDS Naturals, Sequences, FiniteSets, SequencesExt, FiniteSetsExt

CONSTANTS
  Bridges,      (* number of bridge processes, started one after another   *)
  Following,    (* Following[b]: whether bridge b runs with --follow       *)
  None,         (* no file, no holder, not set                             *)
  MaxRecords,   (* bound of the model: records logged                      *)
  MaxChanges,   (* bound of the model: truncations and replacements        *)
  MaxFailures   (* bound of the model: failed writes to the history        *)

ASSUME ExportAssumption ==
  /\ Bridges \in Nat \ {0} /\ Following \in [1..Bridges -> BOOLEAN]
  /\ MaxRecords \in Nat /\ MaxChanges \in Nat /\ MaxFailures \in Nat
  /\ None \notin Nat

Processes == 1..Bridges
Inodes == 1..(MaxChanges + 1)

VARIABLES
  files,      (* files[i]: cells of the logger file with inode i           *)
  path,       (* the inode the logger's path names, or None                *)
  inodes,     (* inodes used so far                                        *)
  logged,     (* records the logger has begun                              *)
  changes,    (* counter of a bound                                        *)
  history,    (* cells of the step history                                 *)
  holder,     (* bridge that holds flock on the history                    *)
  failures,   (* counter of a bound                                        *)
  pc,         (* pc[b]                                                     *)
  seen,       (* seen[b]: _seen                                            *)
  reader,     (* reader[b]: variables of iter_file_records                 *)
  item,       (* item[b]: the record yielded, [rec, live], or None         *)
  separator,  (* separator[b]: put before the line that is being appended  *)
  residue,    (* residue[b]: cells a failed flush has left in the buffer   *)
  old,        (* history variable: records that were in the file when      *)
              (* backlog_end was set                                       *)
  target,     (* history variable: complete lines when b opened the file   *)
  appended,   (* history variable: records whose append returned           *)
  lingered    (* history variable: records in the write of a bridge that   *)
              (* outlived its KILL                                         *)

logger == <<files, path, inodes, logged, changes>>
bridge == <<seen, reader, item, separator, residue>>
ghosts == <<old, target, appended, lingered>>
vars == <<logger, history, holder, failures, pc, bridge, ghosts>>

(* Cells.  A line of the logger is <<r, 1>>, <<r, 2>>, its newline in the  *)
(* second cell; in the history the newline is a cell of its own.           *)
Newline == <<0, 0>>

Fresh == [existed |-> FALSE, fd |-> None, position |-> 0, identity |-> None,
          backlog |-> None, tail |-> <<>>, partial |-> 0, reset |-> FALSE, cache |-> <<>>]

Init ==
  /\ files = [i \in Inodes |-> <<>>] /\ path = None /\ inodes = 0
  /\ logged = 0 /\ changes = 0
  /\ history = <<>> /\ holder = None /\ failures = 0
  /\ pc = [b \in Processes |-> "new"]
  /\ seen = [b \in Processes |-> {}]
  /\ reader = [b \in Processes |-> Fresh]
  /\ item = [b \in Processes |-> None]
  /\ separator = [b \in Processes |-> <<>>]
  /\ residue = [b \in Processes |-> <<>>]
  /\ old = [b \in Processes |-> {}]
  /\ target = [b \in Processes |-> {}]
  /\ appended = {} /\ lingered = {}

Goto(b, label) == pc' = [pc EXCEPT ![b] = label]

(* The process is no more.                                                 *)
Die(b) ==
  /\ Goto(b, "dead")
  /\ seen' = [seen EXCEPT ![b] = {}]
  /\ reader' = [reader EXCEPT ![b] = Fresh]
  /\ item' = [item EXCEPT ![b] = None]
  /\ separator' = [separator EXCEPT ![b] = <<>>]
  /\ residue' = [residue EXCEPT ![b] = <<>>]
  /\ holder' = IF holder = b THEN None ELSE holder
  /\ old' = [old EXCEPT ![b] = {}] /\ target' = [target EXCEPT ![b] = {}]
Set(b, new) == reader' = [reader EXCEPT ![b] = new]

(* Where the lines of record r are in the cells of the logger.             *)
Complete(cells) ==
  {cells[i][1] : i \in {j \in 1..(Len(cells) - 1) :
     /\ cells[j][2] = 1 /\ cells[j + 1] = <<cells[j][1], 2>>
     /\ j = 1 \/ cells[j - 1][2] = 2}}

(* json_objects: rows that parse.  A row without a newline at the end of   *)
(* the file is one of them, a row cut short or joined with another is not. *)
Rows(r) ==
  {i \in 1..(Len(history) - 1) :
     /\ history[i] = <<r, 1>> /\ history[i + 1] = <<r, 2>>
     /\ i = 1 \/ history[i - 1] = Newline
     /\ i + 1 = Len(history) \/ history[i + 2] = Newline}
Readable == {r \in 1..MaxRecords : Rows(r) # {}}
-----------------------------------------------------------------------------
(* The logger and what happens to its file.                                *)

Create ==
  /\ path = None /\ inodes < MaxChanges + 1
  /\ inodes' = inodes + 1 /\ path' = inodes + 1
  /\ UNCHANGED <<files, logged, changes, history, holder, failures, pc, bridge, ghosts>>

Put(cells) == files' = [files EXCEPT ![path] = @ \o cells]

(* A line becomes visible at once or, later, in its second half.           *)
Log ==
  /\ path # None /\ logged < MaxRecords
  /\ logged' = logged + 1
  /\ Put(<<<<logged + 1, 1>>, <<logged + 1, 2>>>>) \/ Put(<<<<logged + 1, 1>>>>)
  /\ UNCHANGED <<path, inodes, changes, history, holder, failures, pc, bridge, ghosts>>

LogRest ==
  /\ path # None /\ files[path] # <<>> /\ Last(files[path])[2] = 1
  /\ Put(<<<<Last(files[path])[1], 2>>>>)
  /\ UNCHANGED <<path, inodes, logged, changes, history, holder, failures, pc, bridge, ghosts>>

Truncate ==
  /\ path # None /\ changes < MaxChanges
  /\ changes' = changes + 1
  /\ files' = [files EXCEPT ![path] = <<>>]
  /\ UNCHANGED <<path, inodes, logged, history, holder, failures, pc, bridge, ghosts>>

(* The file is removed, or a copy of it takes its place.                   *)
Replace ==
  /\ path # None /\ changes < MaxChanges
  /\ changes' = changes + 1
  /\ \/ path' = None /\ UNCHANGED <<files, inodes>>
     \/ /\ inodes' = inodes + 1 /\ path' = inodes + 1
        /\ files' = [files EXCEPT ![inodes + 1] = files[path]]
  /\ UNCHANGED <<logged, history, holder, failures, pc, bridge, ghosts>>
-----------------------------------------------------------------------------
(* Start of a bridge: the history is read, then the generator begins.      *)

(* Mutants: rows need a newline to count; rows that were cut short count.  *)
KnownTerminated ==
  {r \in 1..MaxRecords : \E i \in Rows(r) : i + 1 < Len(history)}
KnownTorn == {cell[1] : cell \in ToSet(history)}

(* _load_seen                                                              *)
Known == Readable

Load(b) ==
  /\ pc[b] = "new"
  /\ \A other \in 1..(b - 1) : pc[other] \in {"done", "dead", "lingering"}
  /\ Following[b] \/ path # None
  /\ seen' = [seen EXCEPT ![b] = Known]
  /\ Goto(b, "begin")
  /\ UNCHANGED <<logger, history, holder, failures, reader, item, separator, residue, ghosts>>

BeginIteration(b) ==
  /\ pc[b] = "begin"
  /\ Set(b, [reader[b] EXCEPT !.existed = path # None])
  /\ Goto(b, "open")
  /\ UNCHANGED <<logger, history, holder, failures, seen, item, separator, residue, ghosts>>

(* os.pread finds the bytes of the last line where that line was.          *)
TailFound(b, cells) ==
  LET last == reader[b].position
      size == Len(reader[b].tail)
  IN last <= Len(cells) /\ SubSeq(cells, last - size + 1, last) = reader[b].tail

Replaced(b) ==
  \/ reader[b].reset
  \/ reader[b].identity \notin {None, path}
  \/ Len(files[path]) < reader[b].position + reader[b].partial
  \/ ~TailFound(b, files[path])

OpenMissing(b) ==
  /\ pc[b] = "open" /\ path = None
  /\ IF Following[b]
       THEN /\ Set(b, [reader[b] EXCEPT !.reset = reader[b].identity # None])
            /\ UNCHANGED <<holder, pc, seen, item, separator, residue, old, target>>
       ELSE Die(b)
  /\ UNCHANGED <<logger, history, failures, appended, lingered>>

(* The rows of the file as the bridge found it: theirs is an unknown time. *)
FirstBacklog(b) ==
  IF reader[b].existed \/ ~Following[b] THEN Len(files[path]) ELSE 0

Backlog(b) ==
  IF Replaced(b) THEN Len(files[path])
  ELSE IF reader[b].backlog = None THEN FirstBacklog(b) ELSE reader[b].backlog

Open(b) ==
  LET r == reader[b] IN
  /\ pc[b] = "open" /\ path # None
  /\ Set(b, [r EXCEPT !.fd = path, !.identity = path, !.backlog = Backlog(b),
                      !.position = IF Replaced(b) THEN 0 ELSE @,
                      !.tail = IF Replaced(b) THEN <<>> ELSE @,
                      !.reset = FALSE, !.partial = 0, !.cache = <<>>])
  /\ old' = [old EXCEPT ![b] =
       IF Replaced(b) \/ (r.backlog = None /\ r.existed)
         THEN {cell[1] : cell \in ToSet(files[path])} ELSE @]
  /\ target' = [target EXCEPT ![b] = Complete(files[path])]
  /\ Goto(b, "check")
  /\ UNCHANGED <<logger, history, holder, failures, seen, item, separator, residue, appended,
                 lingered>>

Check(b) ==
  /\ pc[b] = "check"
  /\ IF Following[b] /\ ~TailFound(b, files[reader[b].fd])
       THEN Set(b, [reader[b] EXCEPT !.reset = TRUE]) /\ Goto(b, "open")
       ELSE UNCHANGED reader /\ Goto(b, "read")
  /\ UNCHANGED <<logger, history, holder, failures, seen, item, separator, residue, ghosts>>

(* readline(): from the read-ahead while that has a line, else the file;   *)
(* a last line without its newline is one only when nothing is followed.   *)
Ends(cells) == {i \in DOMAIN cells : cells[i][2] = 2}
Ahead(b) ==
  LET r == reader[b] IN
  IF Ends(r.cache) # {} THEN r.cache
  ELSE r.cache \o SubSeq(files[r.fd], r.position + Len(r.cache) + 1, Len(files[r.fd]))

Line(b) ==
  LET ahead == Ahead(b) IN
  IF Ends(ahead) # {} THEN SubSeq(ahead, 1, Min(Ends(ahead)))
  ELSE IF Following[b] THEN <<>> ELSE ahead

(* The newline is all that such a line may lack, or it is cut short.       *)
Unended(line) == Len(line) = 1 /\ line[1][2] = 1

(* A line that does not parse is left out.                                 *)
ReadLine(b) ==
  LET line == Line(b) IN
  /\ pc[b] = "read" /\ line # <<>>
  /\ Set(b, [reader[b] EXCEPT !.position = @ + Len(line), !.tail = line,
                              !.cache = SubSeq(Ahead(b), Len(line) + 1, Len(Ahead(b)))])
  /\ \/ /\ Complete(line) # {} \/ Unended(line)
        /\ item' = [item EXCEPT ![b] =
             [rec |-> line[1][1],
              live |-> Following[b] /\ reader[b].position >= reader[b].backlog]]
        /\ Goto(b, "append")
     \/ /\ Complete(line) = {}
        /\ UNCHANGED item /\ Goto(b, "check")
  /\ UNCHANGED <<logger, history, holder, failures, seen, separator, residue, ghosts>>

(* No line: follow on from its beginning later, or end.                    *)
ReadRest(b) ==
  /\ pc[b] = "read" /\ Line(b) = <<>>
  /\ IF Following[b]
       THEN /\ Set(b, [reader[b] EXCEPT !.partial = Len(Ahead(b))])
            /\ Goto(b, "open")
       ELSE UNCHANGED reader /\ Goto(b, "done")
  /\ UNCHANGED <<logger, history, holder, failures, seen, item, separator, residue, ghosts>>
-----------------------------------------------------------------------------
(* StepHistoryWriter.append and append_jsonl.                              *)

Skip(b) ==
  /\ pc[b] = "append" /\ item[b].rec \in seen[b]
  /\ Goto(b, "check")
  /\ item' = [item EXCEPT ![b] = None]
  /\ UNCHANGED <<logger, history, holder, failures, seen, reader, separator, residue, ghosts>>

(* Mutant: a row that was cut short is not closed.                         *)
NoRepair == <<>>

Repair == IF history = <<>> \/ Last(history) = Newline THEN <<>> ELSE <<Newline>>

Lock(b) ==
  /\ pc[b] = "append" /\ item[b].rec \notin seen[b]
  /\ holder = None
  /\ holder' = b
  /\ separator' = [separator EXCEPT ![b] = Repair]
  /\ Goto(b, "write")
  /\ UNCHANGED <<logger, history, failures, seen, reader, item, residue, ghosts>>

Text(b) == separator[b] \o <<<<item[b].rec, 1>>, <<item[b].rec, 2>>, Newline>>

Write(b) ==
  /\ pc[b] = "write"
  /\ history' = history \o Text(b)
  /\ holder' = None
  /\ seen' = [seen EXCEPT ![b] = @ \cup {item[b].rec}]
  /\ appended' = appended \cup {item[b].rec}
  /\ item' = [item EXCEPT ![b] = None]
  /\ separator' = [separator EXCEPT ![b] = <<>>]
  /\ Goto(b, "check")
  /\ UNCHANGED <<logger, failures, reader, residue, old, target, lingered>>

(* The flush fails, storage full, after some of the bytes; the lock goes   *)
(* first, then closing the file tries the rest again.                      *)
WriteFails(b) ==
  /\ pc[b] = "write" /\ failures < MaxFailures
  /\ failures' = failures + 1
  /\ \E n \in 0..(Len(Text(b)) - 1) :
       /\ history' = history \o SubSeq(Text(b), 1, n)
       /\ residue' = [residue EXCEPT ![b] = SubSeq(Text(b), n + 1, Len(Text(b)))]
  /\ holder' = None
  /\ Goto(b, "close")
  /\ UNCHANGED <<logger, seen, reader, item, separator, ghosts>>

Close(b) ==
  /\ pc[b] = "close"
  /\ \E n \in 0..Len(residue[b]) : history' = history \o SubSeq(residue[b], 1, n)
  /\ Die(b)
  /\ UNCHANGED <<logger, failures, appended, lingered>>

(* The process is killed, in the middle of its write perhaps.              *)
Kill(b) ==
  /\ pc[b] \notin {"new", "done", "dead", "lingering"}
  /\ IF pc[b] = "write"
       THEN \E n \in 0..Len(Text(b)) : history' = history \o SubSeq(Text(b), 1, n)
       ELSE UNCHANGED history
  /\ Die(b)
  /\ UNCHANGED <<logger, failures, appended, lingered>>

(* KILL is pending while the kernel carries out the write; the run wrapper *)
(* goes on.                                                                *)
Linger(b) ==
  /\ pc[b] = "write"
  /\ Goto(b, "lingering")
  /\ lingered' = lingered \cup {item[b].rec}
  /\ UNCHANGED <<logger, history, holder, failures, bridge, old, target, appended>>

LateWrite(b) ==
  /\ pc[b] = "lingering"
  /\ \E n \in 0..Len(Text(b)) : history' = history \o SubSeq(Text(b), 1, n)
  /\ Die(b)
  /\ UNCHANGED <<logger, failures, appended, lingered>>

Bridge(b) ==
  \/ Load(b) \/ BeginIteration(b) \/ OpenMissing(b) \/ Open(b) \/ Check(b)
  \/ ReadLine(b) \/ ReadRest(b) \/ Skip(b) \/ Lock(b) \/ Write(b)
  \/ WriteFails(b) \/ Close(b)

Next ==
  \/ Create \/ Log \/ LogRest \/ Truncate \/ Replace
  \/ \E b \in Processes : Bridge(b) \/ Kill(b) \/ Linger(b) \/ LateWrite(b)

Spec == Init /\ [][Next]_vars
-----------------------------------------------------------------------------
Positions == 0..(2 * MaxRecords)

(* The values of the bridges' variables.  A bridge that appends holds the  *)
(* lock, and what it has read and not yielded follows its position.        *)
TypeOK ==
  /\ path \in Inodes \cup {None} /\ logged \in 0..MaxRecords
  /\ holder \in Processes \cup {None}
  /\ \A b \in Processes :
       /\ pc[b] \in {"write", "lingering"} <=> holder = b
       /\ seen[b] \subseteq 1..MaxRecords
       /\ reader[b].position \in Positions /\ reader[b].partial \in Positions
       /\ reader[b].backlog \in Positions \cup {None}
       /\ Len(reader[b].tail) <= reader[b].position
       /\ pc[b] \in {"check", "read", "append", "write"} => reader[b].fd \in Inodes

(* Each record is persisted once, however often bridges are killed and     *)
(* started again, files replaced and rows cut short, but for a record      *)
(* whose write was under way when its bridge was killed and was not over   *)
(* when the next one read the history.                                     *)
EachStepOnceUnlessLingering ==
  \A r \in (1..MaxRecords) \ lingered : Cardinality(Rows(r)) <= 1

(* What has been appended can be read ever after: no later append, cut     *)
(* short or not, joins it with another row.                                *)
AppendedStaysReadable == appended \subseteq Readable

(* A step gets a time window only if it was logged while the bridge        *)
(* watched: never one that was in the file, or in the copy that has taken  *)
(* its place, when the bridge came to it.                                  *)
LiveIsFresh ==
  \A b \in Processes : item[b] # None => (item[b].live => item[b].rec \notin old[b])

(* What a reader of the history relies on: rows stay readable, and a time  *)
(* window in one was observed.                                             *)
HistoryIsSound == TypeOK /\ AppendedStaysReadable /\ LiveIsFresh

(* The final export leaves out no step: what was a complete line when it   *)
(* opened the file, and still is, is in the history when it ends.          *)
FinalExportIsComplete ==
  \A b \in Processes :
    (pc[b] = "done") => target[b] \cap Complete(files[reader[b].fd]) \subseteq Readable

(* An instance for TLC: a bridge beside the workload, started again once,  *)
(* then the final export.                                                  *)
TwoBridgesThenFinal == <<TRUE, TRUE, FALSE>>
=============================================================================
