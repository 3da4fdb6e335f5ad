----------------------------- MODULE JsonlCache -----------------------------
(***************************************************************************)
(* The cache of decoded JSONL records (xlayer_telemetry/analysis           *)
(* /jsonl_cache.py).  A reader stats a file, decides whether what it read  *)
(* of it before still begins it, parses the rest row by row while the      *)
(* producer goes on, and keeps the result.                                 *)
(*                                                                         *)
(* A row is a value, Bad one that does not parse; two rows' bytes tell     *)
(* them apart, and the 256 bytes that are compared hold a row.  A complete *)
(* row counts two units of size, an incomplete one one.                    *)
(***************************************************************************)
EXTENDS Naturals, Sequences, SequencesExt

CONSTANTS
  Values,      (* rows that parse                                           *)
  MaxRecords,  (* max_records                                               *)
  MaxRows      (* bound of the model: rows of a file                        *)

Bad == "bad"
Rows == Values \cup {Bad}
Files == {1, 2, 3}   (* inode numbers, used again when nobody has them open *)
Nothing == [ino |-> 0, size |-> 0, same |-> FALSE, rows |-> <<>>]

VARIABLES
  ino,      (* the file at the path                                         *)
  rows,     (* its complete rows                                            *)
  torn,     (* an incomplete row follows them                               *)
  entry,    (* the cache's entry: identity, size, whether the stamp is      *)
            (* still the file's, and the rows read                          *)
  reading,  (* a read is under way                                          *)
  opened,   (* the file it opened is still the one at the path              *)
  stat,     (* the reader's fstat: identity, size, whether the stamp is     *)
            (* still right                                                  *)
  read,     (* the rows it has                                              *)
  most      (* the complete rows of its file, now                           *)

file == <<ino, rows, torn>>
reader == <<reading, opened, stat, read, most>>
vars == <<file, entry, reader>>

Size(complete, incomplete) == 2 * Len(complete) + (IF incomplete THEN 1 ELSE 0)

Init ==
  /\ ino = 1 /\ rows = <<>> /\ torn = FALSE
  /\ entry = Nothing
  /\ reading = FALSE /\ opened = FALSE /\ stat = [ino |-> 1, size |-> 0, same |-> FALSE]
  /\ read = <<>> /\ most = <<>>

-----------------------------------------------------------------------------
(* The producer.                                                           *)

(* A change of the file changes its stamp.                                 *)
Touch ==
  /\ entry' = [entry EXCEPT !.same = FALSE]
  /\ stat' = [stat EXCEPT !.same = FALSE]

(* What a file must be that has the identity of one that was read: if it   *)
(* has the same bytes at both compared places, then all between as well.   *)
Alike(new) ==
  LET n == Len(entry.rows) IN
  n > 0 /\ Len(new) >= n /\ new[1] = entry.rows[1] /\ new[n] = entry.rows[n]

Contract == entry.ino = ino' /\ Alike(rows') => IsPrefix(entry.rows, rows')

(* A row, in one write or the end of one; after a writer that was killed,  *)
(* a row that may not parse.                                               *)
Write(row) ==
  /\ Len(rows) < MaxRows
  /\ rows' = rows \o <<row>> /\ torn' = FALSE
  /\ most' = IF opened THEN rows' ELSE most
  /\ UNCHANGED ino /\ Contract /\ Touch
  /\ UNCHANGED <<reading, opened, read>>

Tear ==
  /\ ~torn /\ Len(rows) < MaxRows /\ torn' = TRUE
  /\ Touch /\ UNCHANGED <<ino, rows, reading, opened, read, most>>

Replace(number, new) ==
  /\ number # ino /\ (reading => number # stat.ino)
  /\ ino' = number /\ rows' = new /\ torn' = FALSE
  /\ opened' = FALSE
  /\ Contract /\ Touch /\ UNCHANGED <<reading, read, most>>

-----------------------------------------------------------------------------
(* JSONLCache.read                                                         *)

(* Mutant: a file that did not shrink is the one that was read.            *)
ValidBySize(size) == entry.rows # <<>> /\ entry.ino = ino /\ size >= entry.size

Valid(size) ==
  /\ entry # Nothing /\ entry.ino = ino /\ size >= entry.size
  /\ size = entry.size => entry.same
  /\ Len(entry.rows) > 0 => Alike(rows)

Open ==
  LET size == Size(rows, torn) IN
  /\ ~reading /\ reading' = TRUE /\ opened' = TRUE
  /\ stat' = [ino |-> ino, size |-> size, same |-> TRUE]
  /\ read' = IF Valid(size) THEN entry.rows ELSE <<>>
  /\ entry' = Nothing
  /\ most' = rows
  /\ UNCHANGED file

ReadRow ==
  /\ reading /\ Len(read) < Len(most)
  /\ read' = read \o <<most[Len(read) + 1]>>
  /\ UNCHANGED <<file, entry, reading, opened, stat, most>>

Records(seq) == SelectSeq(seq, LAMBDA row : row # Bad)

Close == reading' = FALSE /\ opened' = FALSE /\ read' = <<>> /\ most' = <<>>
(* An incomplete row at the end is read again later; a file with too many  *)
(* records is returned whole, and not kept.                                *)
Finish ==
  /\ reading /\ Len(read) >= Len(most)
  /\ Close
  /\ entry' = IF Len(Records(read)) > MaxRecords THEN Nothing
              ELSE [ino |-> stat.ino, rows |-> read, same |-> stat.same,
                    size |-> IF stat.size > 2 * Len(read) THEN stat.size ELSE 2 * Len(read)]
  /\ UNCHANGED <<file, stat>>

(* A caller that takes no more records drops what the cache had.           *)
Abandon ==
  /\ reading /\ Close
  /\ UNCHANGED <<file, entry, stat>>

(* Other files push this one out.                                          *)
Evict == entry # Nothing /\ entry' = Nothing /\ UNCHANGED <<file, reader>>

Next ==
  \/ \E row \in Rows : Write(row)
  \/ Tear
  \/ \E number \in Files, new \in BoundedSeq(Rows, MaxRows) : Replace(number, new)
  \/ Open \/ ReadRow \/ Finish \/ Abandon \/ Evict

Spec == Init /\ [][Next]_vars

-----------------------------------------------------------------------------
TypeOK ==
  /\ ino \in Files /\ rows \in Seq(Rows) /\ torn \in BOOLEAN
  /\ entry.ino \in Files \cup {0} /\ entry.size \in Nat /\ entry.rows \in Seq(Rows)
  /\ reading \in BOOLEAN /\ opened \in BOOLEAN /\ stat.size \in Nat
  /\ read \in Seq(Rows) /\ most \in Seq(Rows)

(* What a read has, and returns at the end of the file, is what the file   *)
(* it opened begins with: no row of an earlier file or that was written    *)
(* over, none missing, none twice.                                         *)
ReadsAfresh == reading => IsPrefix(read, most)
=============================================================================
