---------------------------- MODULE AppInstaller ----------------------------
(***************************************************************************)
(* Installing, updating and rolling back the Grafana App (xlayer_telemetry *)
(* /operations/app.py).  One process at a time, under a lock, moves whole  *)
(* directories and replaces small files.  Each step may fail and is then   *)
(* undone; an interrupt may come between a step and the note that it was   *)
(* taken; a crash may come anywhere, the removal of a directory included.  *)
(*                                                                         *)
(* A directory is what it holds: a version of the plugin, a part of one,   *)
(* or Absent.  A receipt is the version it lists the files of.             *)
(***************************************************************************)
EXTENDS Naturals, Sequences

CONSTANT Latest    (* the versions are 1..Latest                            *)

Versions == 1..Latest
Absent == 0
Part == Latest + 1
Contents == 0..(Latest + 1)

VARIABLES
  disk,    (* the directories target, previous, retained, stage, abandoned  *)
  files,   (* the provisioning ("none", "ours", "edited"), the receipt      *)
           (* installed.json and previous.json: a receipt and provisioning  *)
  job,     (* the operation: "idle", "install" or "rollback"                *)
  version, (* what is installed by it                                       *)
  todo,    (* its steps to come                                             *)
  taken,   (* the renames noted as done                                     *)
  saved,   (* disk and files when it began                                  *)
  trouble, (* of the job: "no", "failed", "interrupted"                     *)
  installed(* history: an operation has succeeded                           *)

vars == <<disk, files, job, version, todo, taken, saved, trouble, installed>>

NoReceipt == [receipt |-> Absent, provision |-> "none"]

Init ==
  /\ disk = [target |-> Absent, previous |-> Absent, retained |-> Absent,
             stage |-> Absent, abandoned |-> Absent]
  /\ files = [provision |-> "none", installed |-> Absent, previous |-> NoReceipt]
  /\ job = "idle" /\ version = Absent /\ todo = <<>> /\ taken = {}
  /\ saved = [disk |-> disk, files |-> files]
  /\ trouble = "no" /\ installed = FALSE

-----------------------------------------------------------------------------
(* The steps, and what undoes them.                                        *)

(* Mutant: the directories of a failed update are not put back.            *)
UndoFiles == <<"unprovision", "unrecord", "unreceipt", "unstage">>

Install == <<"unstage", "copy", "keep", "move", "place", "provision", "record", "receipt">>
UndoInstall ==
  <<"unplace", "unmove", "unkeep", "unprovision", "unrecord", "unreceipt", "unstage">>

Rollback == <<"clear", "aside", "restore", "reprovision", "rereceipt">>
UndoRollback == <<"unrestore", "unaside", "unreceipt", "unprovision">>

Renames ==
  [keep    |-> <<"previous", "retained">>, unkeep    |-> <<"retained", "previous">>,
   move    |-> <<"target", "previous">>,   unmove    |-> <<"previous", "target">>,
   place   |-> <<"stage", "target">>,
   aside   |-> <<"target", "abandoned">>,  unaside   |-> <<"abandoned", "target">>,
   restore |-> <<"previous", "target">>,   unrestore |-> <<"target", "previous">>]

Removals == [unstage |-> "stage", unplace |-> "target", clear |-> "abandoned"]

(* A step is undone only when it was noted as taken.                       *)
Undoes == [unplace |-> "place", unmove |-> "move", unkeep |-> "keep",
           unrestore |-> "restore", unaside |-> "aside"]
Noted == {Undoes[undo] : undo \in DOMAIN Undoes}
Applies(step) == step \in DOMAIN Undoes => Undoes[step] \in taken

(* A directory is not renamed onto one that is there.                      *)
Blocked(step) ==
  /\ step \in DOMAIN Renames /\ Applies(step)
  /\ disk[Renames[step][1]] # Absent /\ disk[Renames[step][2]] # Absent

Rename(step) ==
  LET from == Renames[step][1]  to == Renames[step][2] IN
  IF disk[from] = Absent THEN disk ELSE [disk EXCEPT ![to] = disk[from], ![from] = Absent]

Replaced(old) == [receipt |-> old.installed, provision |-> old.provision]

NewDisk(step) ==
  IF ~Applies(step) THEN disk
  ELSE IF step \in DOMAIN Renames THEN Rename(step)
  ELSE IF step \in DOMAIN Removals THEN [disk EXCEPT ![Removals[step]] = Absent]
  ELSE IF step = "copy" THEN [disk EXCEPT !.stage = version] ELSE disk

NewFiles(step) ==
  CASE step = "provision" -> [files EXCEPT !.provision = "ours"]
    [] step = "record" /\ saved.disk.target # Absent ->
         [files EXCEPT !.previous = Replaced(saved.files)]
    [] step = "receipt" -> [files EXCEPT !.installed = version]
    [] step = "reprovision" -> [files EXCEPT !.provision = files.previous.provision]
    [] step = "rereceipt" -> [files EXCEPT !.installed = files.previous.receipt]
    [] step = "unprovision" -> [files EXCEPT !.provision = saved.files.provision]
    [] step = "unrecord" -> [files EXCEPT !.previous = saved.files.previous]
    [] step = "unreceipt" -> [files EXCEPT !.installed = saved.files.installed]
    [] OTHER -> files

Effect(step) == disk' = NewDisk(step) /\ files' = NewFiles(step)

-----------------------------------------------------------------------------
(* install_package and rollback.                                           *)

MayInstall(v, update) ==
  /\ files.provision # "edited"
  /\ disk.target \in Versions => v >= disk.target
  /\ ~(files.installed = v /\ disk.target = v)
  /\ disk.target # Absent => update /\ files.installed # Absent /\ disk.target = files.installed
  /\ disk.retained = Absent

Begin(what, steps) ==
  /\ job = "idle" /\ job' = what
  /\ todo' = steps /\ taken' = {} /\ saved' = [disk |-> disk, files |-> files]
  /\ trouble' = "no" /\ UNCHANGED <<disk, files, installed>>

BeginInstall ==
  \E v \in Versions, update \in BOOLEAN :
    /\ MayInstall(v, update)
    /\ version' = v
    /\ Begin("install", Install)

MayRollback ==
  /\ disk.previous \in Versions /\ disk.previous = files.previous.receipt
  /\ files.provision # "edited"

BeginRollback ==
  /\ MayRollback
  /\ version' = disk.previous
  /\ Begin("rollback", Rollback)

Take ==
  /\ job # "idle" /\ todo # <<>> /\ ~Blocked(Head(todo))
  /\ Effect(Head(todo))
  /\ taken' = taken \cup ({Head(todo)} \cap Noted) /\ todo' = Tail(todo)
  /\ UNCHANGED <<job, version, saved, trouble, installed>>

(* A step is not taken, or is and an interrupt comes before the note.      *)
Fail ==
  /\ job # "idle" /\ trouble = "no" /\ todo # <<>> /\ Head(todo) \notin {"unstage", "clear"}
  /\ \/ UNCHANGED <<disk, files>> /\ trouble' = "failed"
     \/ Effect(Head(todo)) /\ trouble' = "interrupted"
  /\ todo' = IF job = "install" THEN UndoInstall ELSE UndoRollback
  /\ UNCHANGED <<job, version, taken, saved, installed>>

Nothing == [disk |-> [dir \in DOMAIN disk |-> Absent],
            files |-> [provision |-> "none", installed |-> Absent, previous |-> NoReceipt]]

Leave ==
  /\ job' = "idle" /\ todo' = <<>> /\ taken' = {} /\ version' = Absent /\ saved' = Nothing

(* The operation is over; a success disposes of what it replaced, as far   *)
(* as that can be removed.                                                 *)
End ==
  LET dir == IF job = "install" THEN "retained" ELSE "abandoned" IN
  /\ job # "idle" /\ todo = <<>>
  /\ Leave
  /\ \/ trouble # "no" /\ UNCHANGED disk
     \/ trouble = "no" /\ disk' = [disk EXCEPT ![dir] = Absent]
     \/ trouble = "no" /\ disk[dir] # Absent /\ disk' = [disk EXCEPT ![dir] = Part]
  /\ installed' = (installed \/ trouble = "no")
  /\ UNCHANGED <<files, trouble>>

(* The host goes down, or a rename in the way ends the undoing early.  A   *)
(* copy or a removal may have got half way.                                *)
Crash ==
  LET step == Head(todo)
      half == IF step = "copy" THEN {"stage"}
              ELSE IF step \in DOMAIN Removals /\ Applies(step) THEN {Removals[step]} ELSE {}
  IN /\ job # "idle" /\ todo # <<>>
     /\ Leave
     /\ \/ UNCHANGED disk
        \/ \E dir \in half : disk' = [disk EXCEPT ![dir] = Part]
     /\ trouble' = "interrupted" /\ UNCHANGED <<files, installed>>

(* Somebody edits the provisioning.                                        *)
Edit ==
  /\ job = "idle" /\ files.provision # "edited"
  /\ files' = [files EXCEPT !.provision = "edited"]
  /\ UNCHANGED <<disk, job, version, todo, taken, saved, trouble, installed>>

Next == BeginInstall \/ BeginRollback \/ Take \/ Fail \/ End \/ Crash \/ Edit

Spec == Init /\ [][Next]_vars

-----------------------------------------------------------------------------
TypeOK ==
  /\ disk \in [{"target", "previous", "retained", "stage", "abandoned"} -> Contents]
  /\ files.provision \in {"none", "ours", "edited"} /\ files.installed \in 0..Latest
  /\ job \in {"idle", "install", "rollback"} /\ version \in 0..Latest
  /\ trouble \in {"no", "failed", "interrupted"} /\ installed \in BOOLEAN

(* Wherever operations fail, are interrupted or crash, in whatever order   *)
(* they are tried again: once the App has been installed, some directory   *)
(* holds a complete version.                                              *)
Recoverable ==
  installed =>
    \E dir \in {"target", "previous", "retained", "abandoned"} : disk[dir] \in Versions

(* An operation that fails leaves the App, its backup and its receipts as  *)
(* they were when it began.                                                *)
FailureRestores ==
  (job # "idle" /\ todo = <<>> /\ trouble = "failed") =>
    /\ files = saved.files
    /\ \A dir \in {"target", "previous", "retained"} : disk[dir] = saved.disk[dir]

InstallationSurvives == Recoverable /\ FailureRestores
=============================================================================
