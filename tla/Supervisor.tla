----------------------------- MODULE Supervisor -----------------------------
(***************************************************************************)
(* scripts/run_telemetry.sh: the shell that starts the collectors of a     *)
(* node, or the services of a monitoring server and their validator, waits *)
(* until one of them ends, and then stops the others by its job table.     *)
(*                                                                         *)
(* Bash runs a trap between two commands and out of wait, so a signal may  *)
(* come between any two steps.  The look at the job table and the kill     *)
(* after it are one step.  A child that ignores TERM or is stopped is      *)
(* "deaf", one in uninterruptible I/O "stuck", with a signal that will end *)
(* it "doomed".  One that a signal ended "fell"; bash says so between two  *)
(* commands and has then "dropped" it from its job table, where wait -n    *)
(* does not see it (bash 5.2).  The shell itself is not killed.            *)
(***************************************************************************)
EXTENDS Naturals

CONSTANTS
  Children,  (* the last of them is the validator where there is one         *)
  Attempts   (* polls of a grace period: 20 of .1 seconds in the code        *)

Child == 1..Children

VARIABLES
  role,     (* "node" (or storage) or "server"                              *)
  at,       (* the command the shell is at                                  *)
  next,     (* the child it is about, or the poll of a grace period         *)
  pids,     (* the children in the array                                    *)
  child,    (* child[c]: "unborn", "runs", "deaf", "stuck", "doomed",       *)
            (* "ended", "fell" or "dropped"                                 *)
  reused,   (* the children whose number belongs to a stranger now          *)
  files,    (* the node's textfiles are there to be scraped                 *)
  hit,      (* history: a stranger was signalled                            *)
  pending,  (* history: the children reported as pending after KILL         *)
  cut       (* history: a second signal came before the first line of       *)
            (* cleanup that ignores it                                      *)

shell   == <<role, at, next, pids>>
host    == <<child, reused, files>>
history == <<hit, pending, cut>>
vars    == <<shell, host, history>>

Lives(c) == child[c] \in {"runs", "deaf", "stuck", "doomed"}
Validates(c) == role = "server" /\ c = Children

(* The first settings are checked, and a node's collector.prom is written. *)
Init ==
  /\ role \in {"node", "server"}
  /\ at = "launch" /\ next = 1 /\ pids = {}
  /\ child = [c \in Child |-> "unborn"]
  /\ reused = {} /\ files = (role = "node")
  /\ hit = FALSE /\ pending = {} /\ cut = FALSE

GoTo(command)   == at' = command /\ next' = 1
GoesTo(command) == GoTo(command) /\ UNCHANGED <<role, pids, host, history>>

-----------------------------------------------------------------------------
(* Starting.                                                               *)
Launch ==
  /\ at = "launch" /\ next \in Child
  /\ child' = [child EXCEPT ![next] = "runs"]
  /\ at' = "record"
  /\ UNCHANGED <<role, next, pids, reused, files, history>>

Record ==
  /\ at = "record"
  /\ pids' = pids \cup {next}
  /\ at' = (IF Validates(next) THEN "validate" ELSE "launch") /\ next' = next + 1
  /\ UNCHANGED <<role, host, history>>

(* A node runs the collectors that are switched on.                        *)
Started == at = "launch" /\ role = "node" /\ next > 1 /\ GoesTo("wait")

(* A setting that is checked between two starts, or a command, fails.      *)
Refuse == at = "launch" /\ GoesTo("cleanup")

Validated ==
  /\ at = "validate" /\ ~Lives(Children)
  /\ \/ GoTo("wait") /\ pids' = pids \ {Children}
     \/ GoTo("cleanup") /\ UNCHANGED pids
  /\ UNCHANGED <<role, host, history>>

(* Bash reports the jobs that a signal ended, before the next command.     *)
Drop(c) ==
  /\ at \in {"launch", "record", "validate"} /\ child[c] = "fell"
  /\ child' = [child EXCEPT ![c] = "dropped"]
  /\ UNCHANGED <<shell, reused, files, history>>

(* wait -n: one that is in the table has ended, or none is in it.          *)
OneEnded ==
  /\ at = "wait"
  /\ (\E c \in pids : child[c] \in {"ended", "fell"}) \/ \A c \in pids : child[c] = "dropped"
  /\ GoesTo("cleanup")

(* The traps of INT and TERM: exit, and with it cleanup.  Once cleanup has *)
(* begun and before it ignores signals, exit is the end.                   *)
Signal ==
  /\ at \in {"launch", "record", "validate", "wait", "cleanup"}
  /\ GoTo(IF at = "cleanup" THEN "gone" ELSE "cleanup")
  /\ cut' = (at = "cleanup")
  /\ UNCHANGED <<role, pids, host, hit, pending>>

-----------------------------------------------------------------------------
(* cleanup.                                                                *)

(* Mutant: jobs -p, which also lists those that have ended.                *)
OwnedByNumber(c) == Lives(c) \/ c \in reused

(* child_is_owned                                                          *)
Owned(c) == Lives(c)

Ignore == at = "cleanup" /\ GoesTo("term")

Follows ==
  [term |-> "grace", grace |-> "kill", kill |-> "last", last |-> "report", report |-> "files"]
ForEach(command) ==
  IF next < Children THEN at' = command /\ next' = next + 1 ELSE GoTo(Follows[command])

(* A signal sent to c, by the number c had.                                *)
Struck(c, signal) ==
  CASE child[c] = "runs" -> "ended"
    [] child[c] = "deaf" -> IF signal = "kill" THEN "ended" ELSE "deaf"
    [] child[c] \in {"stuck", "doomed"} -> "doomed"
    [] OTHER -> child[c]

Send ==
  /\ at \in {"term", "kill"} /\ ForEach(at)
  /\ IF next \in pids /\ Owned(next)
       THEN /\ child' = [child EXCEPT ![next] = Struck(next, at)]
            /\ hit' = (hit \/ next \in reused)
       ELSE UNCHANGED <<child, hit>>
  /\ UNCHANGED <<role, pids, reused, files, pending, cut>>

(* One grace period for all of them.                                       *)
Poll ==
  /\ at \in {"grace", "last"}
  /\ IF next < Attempts /\ \E c \in pids : Owned(c)
       THEN next' = next + 1 /\ UNCHANGED <<role, at, pids, host, history>>
       ELSE GoesTo(Follows[at])

(* Mutant: wait for each of them, whatever the job table says.             *)
ReportWaits ==
  /\ at = "report" /\ (next \in pids => ~Lives(next)) /\ ForEach(at)
  /\ UNCHANGED <<role, pids, host, history>>

(* Only what has ended is waited for.                                      *)
Report ==
  /\ at = "report" /\ ForEach(at)
  /\ pending' = pending \cup ({next} \cap {c \in pids : Owned(c)})
  /\ UNCHANGED <<role, pids, host, hit, cut>>

Remove ==
  /\ at = "files" /\ GoTo("gone")
  /\ files' = (files /\ role = "server")
  /\ UNCHANGED <<role, pids, child, reused, history>>

Shell ==
  \/ Launch \/ Record \/ Started \/ Refuse \/ Validated \/ OneEnded
  \/ \E c \in Child : Drop(c)
  \/ Ignore \/ Send \/ Poll \/ Report \/ Remove

-----------------------------------------------------------------------------
(* The children and the host.                                              *)
Becomes(c, from, to) ==
  /\ child[c] \in from /\ child' = [child EXCEPT ![c] = to]
  /\ UNCHANGED <<shell, reused, history>>

End(c)    == Becomes(c, {"runs", "deaf"}, "ended") /\ UNCHANGED files
Fall(c)   == Becomes(c, {"runs", "deaf"}, "fell") /\ UNCHANGED files
Deafen(c) == Becomes(c, {"runs"}, "deaf") /\ UNCHANGED files

(* The validator writes its summary and nothing else.                      *)
Stick(c) == ~Validates(c) /\ Becomes(c, {"runs"}, "stuck") /\ UNCHANGED files

(* What it was doing is done, and may have been a rename of its textfile.  *)
Wake(c) ==
  /\ \/ Becomes(c, {"stuck"}, "runs")
     \/ Becomes(c, {"doomed"}, "ended")
  /\ files' \in {files, role = "node"}

Publish(c) ==
  /\ child[c] \in {"runs", "deaf"} /\ role = "node" /\ files' = TRUE
  /\ UNCHANGED <<shell, child, reused, history>>

(* Bash has reaped it; its number is given to another process.             *)
Reuse(c) ==
  /\ child[c] \in {"ended", "fell", "dropped"} /\ reused' = reused \cup {c}
  /\ UNCHANGED <<shell, child, files, history>>

Outside == \E c \in Child : End(c) \/ Fall(c) \/ Deafen(c) \/ Stick(c) \/ Wake(c) \/ Publish(c) \/ Reuse(c)

SupervisorNext == Shell \/ Signal \/ Outside

(* The shell runs, and the validator has a deadline of its own.            *)
ValidatorEnds == at = "validate" /\ End(Children)
Fairness == WF_vars(Shell) /\ WF_vars(ValidatorEnds)

Spec == Init /\ [][SupervisorNext]_vars /\ Fairness

-----------------------------------------------------------------------------
TypeOK ==
  /\ role \in {"node", "server"}
  /\ at \in {"launch", "record", "validate", "wait", "cleanup", "files", "gone"} \cup DOMAIN Follows
  /\ next \in 1..(Children + 1) \cup 1..Attempts /\ pids \subseteq Child
  /\ child \in [Child -> {"unborn", "runs", "deaf", "stuck", "doomed", "ended", "fell", "dropped"}]
  /\ reused \subseteq Child /\ files \in BOOLEAN
  /\ hit \in BOOLEAN /\ pending \subseteq Child /\ cut \in BOOLEAN

(* When the shell is gone, no child it had recorded lives but those it     *)
(* reported, no sample is scraped of a node that has nothing left to write *)
(* it, and at no time was a stranger signalled who has the number of a     *)
(* child that ended.  A child that a signal kept out of the array is not   *)
(* stopped, and a second signal may cut cleanup off.                       *)
NothingIsLeft ==
  /\ ~hit
  /\ at = "gone" /\ ~cut =>
       /\ \A c \in pids : Lives(c) => c \in pending
       /\ files => pending # {} \/ \E c \in Child \ pids : child[c] # "unborn"

(* Once cleanup has begun or a recorded service has ended before bash has  *)
(* dropped it, the shell ends, though children ignore TERM, are stopped,   *)
(* or hang beyond KILL.                                                    *)
Seen(c) == child[c] = "ended" \/ (child[c] = "fell" /\ at = "wait")
SupervisorEnds == (at = "cleanup" \/ \E c \in pids : Seen(c) /\ ~Validates(c)) ~> at = "gone"

(* run_telemetry.sh:622: "Exit and clean up siblings when one managed      *)
(* service exits."                                                         *)
ExitsWithAnyService == (\E c \in pids : ~Lives(c) /\ ~Validates(c)) ~> at = "gone"
=============================================================================
