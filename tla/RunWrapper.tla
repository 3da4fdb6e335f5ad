----------------------------- MODULE RunWrapper -----------------------------
(***************************************************************************)
(* The run wrapper, scripts/run_verl_with_telemetry.sh: one shell that      *)
(* starts the workload and its sidecars, each in a session of its own,      *)
(* waits for the workload, settles the logger, stops the sidecars, exports  *)
(* what is left and records the outcome in telemetry-health.json, or does   *)
(* the short version of that when INT or TERM arrives.                      *)
(*                                                                          *)
(* The shell is a list of commands still to run (script); a trap replaces   *)
(* the list.  A signal is handled between two commands or in a wait, never  *)
(* while a foreground command runs.  A session is its leader, the child of  *)
(* this shell, and the rest of its members; any member may hang in          *)
(* uninterruptible I/O, where a KILL stays pending, and the number of a     *)
(* session that has ended may be taken by a stranger.  A check of ownership *)
(* and the signal it authorizes are one step.                               *)
(***************************************************************************)
EXTENDS Naturals, Sequences, FiniteSets

CONSTANTS Sidecars,   \* the sidecars it starts: diagnostics are optional
          Signals,    \* INT and TERM, treated alike but for the exit status
          Statuses,   \* the exit statuses of the workload
          MaxHangs,   \* bound: members that hang at a time
          MaxStrays   \* bound: sessions whose number an unverifiable process carries

ASSUME SidecarsAssumption ==
  {"bridge", "health", "logger"} \subseteq Sidecars /\ Sidecars \subseteq {"bridge", "diagnostics", "health", "logger"}
ASSUME BoundsAssumption == MaxHangs \in Nat /\ MaxStrays \in Nat
ASSUME OutcomesAssumption == "none" \notin Signals \union Statuses

Sessions == Sidecars \union {"workload"}
Forking  == {"diagnostics", "logger", "workload"}   \* sessions of several processes
Writers  == Sidecars \ {"health", "logger"}         \* they append under a flock

VARIABLES
  script,   \* the commands the shell still has to run
  stage,    \* how far the command at its head is
  pid,      \* the shell's variable for a session: unset, held, or cleared
  leader,   \* the state of a session's leader
  rest,     \* the state of its other members, taken together
  stray,    \* whether a process the wrapper cannot verify carries the number
  locks,    \* the writers that hang while they hold their file's flock
  signal,   \* the signal that arrived
  caught,   \* the signal the trap handles
  status,   \* the exit status of the workload
  record,   \* telemetry-health.json
  told,     \* what it printed of a session it could not stop, or of the record
  code      \* the exit status of the wrapper

shell == <<script, stage, pid, told, code, caught>>
vars  == <<shell, leader, rest, stray, locks, signal, status, record>>

Alive == {"new", "up", "hung", "doomed"}   \* doomed: hung with a KILL pending

Launch(s) == << <<"spawn", s>>, <<"name", s>> >>
Stop(s)   == << <<"stop", s>> >>
Run(c)    == << <<c, "shell">> >>

Option(commands) == IF "diagnostics" \in Sidecars THEN commands ELSE << >>

\* Mutant: the final export comes before the sidecars are stopped.
ExportsFirst ==
  Launch("bridge") \o Option(Launch("diagnostics")) \o Run("announce")
  \o Launch("workload") \o Launch("health") \o << <<"await", "workload">> >>
  \o Stop("workload") \o Launch("logger") \o << <<"await", "logger">> >>
  \o << <<"export", "bridge">> >> \o Option(<< <<"export", "diagnostics">> >>)
  \o Stop("logger") \o Stop("health") \o Stop("bridge") \o Option(Stop("diagnostics"))
  \o Run("finish") \o Run("exit")

Normal ==
  Launch("bridge") \o Option(Launch("diagnostics")) \o Run("announce")
  \o Launch("workload") \o Launch("health") \o << <<"await", "workload">> >>
  \o Stop("workload") \o Launch("logger") \o << <<"await", "logger">> >>
  \o Stop("logger") \o Stop("health") \o Stop("bridge") \o Option(Stop("diagnostics"))
  \o << <<"export", "bridge">> >> \o Option(<< <<"export", "diagnostics">> >>)
  \o Run("finish") \o Run("exit")

Sidestops == Stop("bridge") \o Option(Stop("diagnostics"))

\* Mutant: no EXIT trap.
InterruptedWithoutTrap == Stop("workload") \o Stop("health") \o Run("finish") \o Run("exit")
\* interrupt_workload, and after its exit the EXIT trap.
Interrupted ==
  Stop("workload") \o Stop("health") \o Run("finish")
  \o Stop("logger") \o Sidestops \o Run("exit")

Init ==
  /\ script = Normal /\ stage = "idle"
  /\ pid = [s \in Sessions |-> "unset"]
  /\ leader = [s \in Sessions |-> "none"]
  /\ rest = [s \in Sessions |-> "none"]
  /\ stray = [s \in Sessions |-> "no"]
  /\ locks = {}
  /\ signal = "none" /\ caught = "none" /\ status = "none"
  /\ record = [status |-> "none", code |-> "none"]
  /\ told = [s \in Sessions \union {"record"} |-> "nothing"]
  /\ code = "none"

-----------------------------------------------------------------------------
\* Commands

At(c, s) == script # <<>> /\ Head(script) = <<c, s>>
Advance  == script' = Tail(script) /\ stage' = "idle"

Spawn(s) ==
  /\ At("spawn", s)
  /\ Advance
  /\ leader' = [leader EXCEPT ![s] = "new"]
  /\ UNCHANGED <<pid, rest, stray, locks, signal, caught, status, record, told, code>>

\* Without a logger file there is nothing to settle.
SkipSettle ==
  /\ At("spawn", "logger")
  /\ script' = SubSeq(script, 4, Len(script))
  /\ UNCHANGED <<stage, pid, leader, rest, stray, locks, signal, caught, status, record, told, code>>

Name(s) ==
  /\ At("name", s)
  /\ Advance
  /\ pid' = [pid EXCEPT ![s] = "held"]
  /\ UNCHANGED <<leader, rest, stray, locks, signal, caught, status, record, told, code>>

\* The health record of a workload that is about to start.
Announce ==
  /\ At("announce", "shell")
  /\ Advance
  /\ record' = [status |-> "starting", code |-> "none"]
  /\ UNCHANGED <<pid, leader, rest, stray, locks, signal, caught, status, told, code>>

\* Mutant: it waits for whoever holds the workload's output open.
AwaitSession(s) ==
  /\ At("await", s)
  /\ leader[s] = "gone" /\ rest[s] \notin Alive
  /\ Advance
  /\ UNCHANGED <<pid, leader, rest, stray, locks, signal, caught, status, record, told, code>>

Await(s) ==
  /\ At("await", s)
  /\ leader[s] = "gone"
  /\ Advance
  /\ UNCHANGED <<pid, leader, rest, stray, locks, signal, caught, status, record, told, code>>

\* A foreground command: the shell handles no signal until it has ended, and it
\* waits for the flock of the file it appends to.
ExportBegins(s) ==
  /\ At("export", s) /\ stage = "idle"
  /\ stage' = "running"
  /\ UNCHANGED <<script, pid, leader, rest, stray, locks, signal, caught, status, record, told, code>>

ExportEnds(s) ==
  /\ At("export", s) /\ stage = "running"
  /\ s \notin locks
  /\ Advance
  /\ UNCHANGED <<pid, leader, rest, stray, locks, signal, caught, status, record, told, code>>

Outcome == IF caught = "none" THEN status ELSE caught

\* The record may fail, which the wrapper says and goes on.
Finish ==
  /\ At("finish", "shell")
  /\ Advance
  /\ \/ /\ record' = [status |-> "finished", code |-> Outcome]
        /\ UNCHANGED told
     \/ /\ told' = [told EXCEPT !["record"] = "unrecorded"]
        /\ UNCHANGED record
  /\ UNCHANGED <<pid, leader, rest, stray, locks, signal, caught, status, code>>

Exit ==
  /\ At("exit", "shell")
  /\ Advance
  /\ code' = Outcome
  /\ UNCHANGED <<pid, leader, rest, stray, locks, signal, caught, status, record, told>>

-----------------------------------------------------------------------------
\* Stopping a session

Owned(s)      == leader[s] \in Alive
OwnGroup(s)   == leader[s] \in Alive \ {"new"} \/ rest[s] \in Alive
GroupLives(s) == OwnGroup(s) \/ stray[s] # "no"

\* Mutant: the marker is not looked at.
GroupExists(s) == GroupLives(s)

\* Every member that carries the number must bear the wrapper's marker.
GroupOwned(s) == OwnGroup(s) /\ stray[s] = "no"

Killed(m) == IF m = "hung" THEN "doomed" ELSE IF m \in {"new", "up"} THEN "gone" ELSE m

\* The session's number, or its leader's, is signalled: a stranger that carries
\* it is hit.
Hit(s, sent) ==
  stray' = [stray EXCEPT ![s] = IF sent /\ @ = "yes" THEN "hit" ELSE @]

\* TERM goes to the leader; the workload's whole session gets it when it is owned.
\* It ends a child of the shell that has not yet become what it runs; what a
\* program makes of it is up to the program.
TermGroup(s)  == s = "workload" /\ GroupOwned(s)
TermLeader(s) == Owned(s)

NothingToStop(s) ==
  /\ At("stop", s) /\ stage = "idle"
  /\ pid[s] # "held"
  /\ Advance
  /\ UNCHANGED <<pid, leader, rest, stray, locks, signal, caught, status, record, told, code>>

Terminate(s) ==
  /\ At("stop", s) /\ stage = "idle"
  /\ pid[s] = "held"
  /\ stage' = "term"
  /\ leader' = [leader EXCEPT ![s] = IF @ = "new" /\ TermLeader(s) THEN "gone" ELSE @]
  /\ Hit(s, TermGroup(s) \/ (TermLeader(s) /\ leader[s] = "gone"))
  /\ UNCHANGED <<script, pid, rest, locks, signal, caught, status, record, told, code>>

KillGroup(s) == GroupOwned(s)
KillLeader(s) == s # "workload" /\ Owned(s)

\* After the grace period.
Escalate(s) ==
  /\ At("stop", s) /\ stage = "term"
  /\ stage' = "kill"
  /\ leader' = [leader EXCEPT ![s] =
       IF (KillGroup(s) /\ @ # "new") \/ KillLeader(s) THEN Killed(@) ELSE @]
  /\ rest' = [rest EXCEPT ![s] = IF KillGroup(s) THEN Killed(@) ELSE @]
  /\ Hit(s, KillGroup(s))
  /\ told' = [told EXCEPT ![s] =
       IF ~GroupLives(s) THEN @ ELSE IF GroupOwned(s) THEN "killed" ELSE "refused"]
  /\ UNCHANGED <<script, pid, locks, signal, caught, status, record, code>>

\* After the second grace period: what is left is left, and said to be.
Conclude(s) ==
  /\ At("stop", s) /\ stage = "kill"
  /\ Advance
  /\ pid' = [pid EXCEPT ![s] = "cleared"]
  /\ told' = [told EXCEPT ![s] = IF Owned(s) THEN "pending" ELSE @]
  /\ UNCHANGED <<leader, rest, stray, locks, signal, caught, status, record, code>>

\* The trap: the rest of the script is forgotten, and later signals are ignored.
Handle ==
  /\ signal # "none" /\ caught = "none"
  /\ script # <<>> /\ stage # "running"
  /\ caught' = signal
  /\ script' = Interrupted /\ stage' = "idle"
  /\ UNCHANGED <<pid, leader, rest, stray, locks, signal, status, record, told, code>>

Shell ==
  \/ SkipSettle \/ Announce \/ Finish \/ Exit \/ Handle
  \/ \E s \in Sessions :
       \/ Spawn(s) \/ Name(s) \/ Await(s) \/ ExportBegins(s) \/ ExportEnds(s)
       \/ NothingToStop(s) \/ Terminate(s) \/ Escalate(s) \/ Conclude(s)

-----------------------------------------------------------------------------
\* The processes

Arrive(sig) ==
  /\ signal = "none" /\ script # <<>>
  /\ signal' = sig
  /\ UNCHANGED <<shell, leader, rest, stray, locks, status, record>>

Setsid(s) ==
  /\ leader[s] = "new"
  /\ leader' = [leader EXCEPT ![s] = "up"]
  /\ UNCHANGED <<shell, rest, stray, locks, signal, status, record>>

Fork(s) ==
  /\ s \in Forking
  /\ leader[s] = "up" /\ rest[s] = "none"
  /\ rest' = [rest EXCEPT ![s] = "up"]
  /\ UNCHANGED <<shell, leader, stray, locks, signal, status, record>>

\* timeout(1) waits for the helper it has killed; a workload may leave
\* descendants behind.
Leaves(s) ==
  /\ leader[s] \in {"new", "up"}
  /\ s = "logger" => rest[s] \notin Alive
  /\ leader' = [leader EXCEPT ![s] = "gone"]
  /\ IF s = "workload" THEN status' \in Statuses ELSE UNCHANGED status
  /\ UNCHANGED <<shell, rest, stray, locks, signal, record>>

LeavesRest(s) ==
  /\ rest[s] = "up"
  /\ rest' = [rest EXCEPT ![s] = "gone"]
  /\ UNCHANGED <<shell, leader, stray, locks, signal, status, record>>

\* The observer reports a running workload while it runs.
Observe ==
  /\ leader["health"] \in {"new", "up"}
  /\ record' = [status |-> "running", code |-> "none"]
  /\ UNCHANGED <<shell, leader, rest, stray, locks, signal, status>>

Stuck(f) == {s \in Sessions : f[s] \in {"hung", "doomed"}}
Hangs == Cardinality(Stuck(leader)) + Cardinality(Stuck(rest))

\* Whoever reads or writes files may hang; timeout(1) does neither.
Hang(s) ==
  /\ Hangs < MaxHangs
  /\ \/ /\ leader[s] = "up" /\ s # "logger"
        /\ leader' = [leader EXCEPT ![s] = "hung"]
        /\ locks' \in {locks} \union (IF s \in Writers THEN {locks \union {s}} ELSE {})
        /\ UNCHANGED rest
     \/ /\ rest[s] = "up"
        /\ rest' = [rest EXCEPT ![s] = "hung"]
        /\ UNCHANGED <<leader, locks>>
  /\ UNCHANGED <<shell, stray, signal, status, record>>

\* The I/O ends: a member goes on, or dies of the pending KILL; the rename it
\* hung in has then taken place.
Released(m) == IF m = "hung" THEN "up" ELSE "gone"

Unhang(s) ==
  /\ \/ /\ s \in Stuck(leader)
        /\ leader' = [leader EXCEPT ![s] = Released(@)]
        /\ locks' = locks \ {s}
        /\ record' \in {record} \union
             (IF s = "health" THEN {[status |-> "running", code |-> "none"]} ELSE {})
        /\ UNCHANGED rest
     \/ /\ s \in Stuck(rest)
        /\ rest' = [rest EXCEPT ![s] = Released(@)]
        /\ UNCHANGED <<leader, locks, record>>
  /\ UNCHANGED <<shell, stray, signal, status>>

\* The number of a session that has ended is used again, or a descendant of the
\* workload drops the marker from its environment.
Stray(s) ==
  /\ Cardinality({t \in Sessions : stray[t] # "no"}) < MaxStrays
  /\ stray[s] = "no"
  /\ IF s = "workload" THEN leader[s] \in {"up", "gone"} ELSE leader[s] = "gone" /\ ~OwnGroup(s)
  /\ stray' = [stray EXCEPT ![s] = "yes"]
  /\ UNCHANGED <<shell, leader, rest, locks, signal, status, record>>

World ==
  \/ Observe
  \/ \E sig \in Signals : Arrive(sig)
  \/ \E s \in Sessions :
       \/ Setsid(s) \/ Fork(s) \/ Leaves(s) \/ LeavesRest(s)
       \/ Hang(s) \/ Unhang(s) \/ Stray(s)

Next == Shell \/ World

Spec == Init /\ [][Next]_vars

-----------------------------------------------------------------------------
\* Fairness: the shell runs its commands, whose own waits are bounded, and the
\* logger's helper and its timeout(1) end unless they hang.  Nothing is assumed
\* of the other processes, nor that anything that hangs is ever released.

LiveSpec ==
  Spec /\ WF_vars(Shell) /\ WF_vars(Setsid("logger"))
       /\ WF_vars(Leaves("logger")) /\ WF_vars(LeavesRest("logger"))

-----------------------------------------------------------------------------
\* Properties

Ended == script = <<>>
Lives(s) == Owned(s) \/ rest[s] \in Alive

TypeOK ==
  /\ \A i \in DOMAIN script : script[i][2] \in Sessions \union {"shell"}
  /\ stage \in {"idle", "running", "term", "kill"}
  /\ pid \in [Sessions -> {"unset", "held", "cleared"}]
  /\ leader \in [Sessions -> Alive \union {"none", "gone"}]
  /\ rest \in [Sessions -> (Alive \ {"new"}) \union {"none", "gone"}]
  /\ stray \in [Sessions -> {"no", "yes", "hit"}]
  /\ locks \subseteq {s \in Writers : leader[s] \in {"hung", "doomed"}}
  /\ signal \in {"none"} \union Signals /\ caught \in {"none", signal}
  /\ status \in {"none"} \union Statuses
  /\ record.status \in {"none", "starting", "running", "finished"}
  /\ told \in [Sessions \union {"record"} -> {"nothing", "killed", "refused", "pending", "unrecorded"}]

\* No process that the wrapper cannot verify as its own is ever signalled,
\* whatever number it carries and in whatever order sessions end
\* (sidecar_group_is_owned, sidecar_is_owned, owned_shutdown.group_is_owned).
OnlyOwnIsSignalled == \A s \in Sessions : stray[s] # "hit"

\* Whatever the wrapper leaves running when it ends, it said so on stderr,
\* but for a session it never got to name.
NothingSurvivesQuietly ==
  Ended => \A s \in Sessions : Lives(s) /\ pid[s] # "unset" => told[s] # "nothing"

\* The final export and the final diagnosis never run beside the sidecar that
\* writes the same files, unless that one has a KILL pending.
FinalWorkIsAlone ==
  \A s \in Writers : At("export", s) => leader[s] \notin {"new", "up", "hung"} /\ rest[s] \notin {"up", "hung"}

\* The record is settled when the wrapper ends: it says "finished" with the exit
\* status of the wrapper, which is the workload's unless a signal was handled; or
\* the wrapper said that it could not be written. An observer that was left
\* pending, or never named, may have replaced it.
ObserverLeft == told["health"] = "pending" \/ pid["health"] = "unset"

ExitIsRecorded ==
  Ended => /\ code = (IF caught = "none" THEN status ELSE caught)
           /\ \/ record = [status |-> "finished", code |-> code]
              \/ told["record"] = "unrecorded" \/ ObserverLeft

\* The wrapper ends once the workload has ended or a signal has arrived, unless
\* something hangs for ever.
WrapperEnds ==
  <>[](Hangs = 0) => ((leader["workload"] = "gone" \/ signal # "none") ~> Ended)

\* What is left behind for a reader of the run: the final work was done alone
\* and the record is settled.
RunIsSettled == TypeOK /\ FinalWorkIsAlone /\ ExitIsRecorded
=============================================================================
