---------------------------- MODULE HostLifecycle ---------------------------
(***************************************************************************)
(* The lifecycle of the monitoring services of one host                    *)
(* (scripts/verl_local.sh up and down).  Commands run concurrently and are *)
(* serialized by flock; a service is known by its pid file, which names    *)
(* pid, start time and boot, and is signalled only after all three are     *)
(* found again in /proc.  Services die, pids are used again, commands are  *)
(* interrupted or killed, and the host reboots with its pid files kept.    *)
(*                                                                         *)
(* A check of /proc and the signal that follows it are one step: the pid   *)
(* of a process is not reused between the two.  Readiness is whatever the  *)
(* probes answer.  A command that finds the lock taken ends without effect *)
(* and is no step.                                                         *)
(***************************************************************************)
EXTENDS Naturals, Sequences, FiniteSets, SequencesExt

CONSTANTS
  Launchers,   (* shells that run up or down, one command after another    *)
  Pids,        (* process ids                                              *)
  None,        (* no process, no pid file, no holder                       *)
  MaxCommands, (* bound of the model: commands                             *)
  MaxOthers,   (* bound of the model: start time in a boot after which no  *)
               (* unrelated process starts                                 *)
  MaxBoots     (* bound of the model: boots                                *)

ASSUME HostAssumption ==
  /\ None \notin Pids \cup Launchers \cup [pid : Pids, start : Nat, boot : Nat]
  /\ MaxCommands \in Nat /\ MaxOthers \in Nat /\ MaxBoots \in Nat \ {0}

(* managed_roles of XLAYER_MANAGED_ROLE=all, server and node.              *)
Roles == {"server", "node"}
RoleLists == {<<"server", "node">>, <<"server">>, <<"node">>}

VARIABLES
  boot, ticks, (* boot identity, and process start times given out in it   *)
  process,     (* process[pid]: None or [start, role, command, termed];    *)
               (* role is "other" for what is not a monitoring service     *)
  pidfile,     (* pidfile[role]: None or [pid, start, boot]                *)
  lock,        (* holder of lifecycle.lock                                 *)
  commands,    (* number of commands so far                                *)
  command,     (* command[l]: [number, action, cli, roles] of launcher l   *)
  pc,          (* pc[l]: where the command is                              *)
  todo,        (* todo[l]: roles still to start or to stop                 *)
  started,     (* started_roles of the command                             *)
  child,       (* child[l]: pid spawned and not yet recorded               *)
  signalled,   (* history: [role, action, command, target] of each TERM    *)
  failedUps,   (* history: commands up that ended in their own cleanup     *)
  cut,         (* history: commands cut between spawn and pid file         *)
  unwritten    (* history: commands whose pid file could not be written    *)

host    == <<boot, ticks, process>>
shell   == <<commands, command, pc, todo, started, child>>
history == <<signalled, failedUps, cut, unwritten>>
vars == <<host, pidfile, lock, shell, history>>

Idle == [number |-> 0, action |-> "up", cli |-> TRUE, roles |-> <<"server">>]

Init ==
  /\ boot = 1 /\ ticks = 0
  /\ process = [p \in Pids |-> None]
  /\ pidfile = [r \in Roles |-> None]
  /\ lock = None
  /\ commands = 0
  /\ command = [l \in Launchers |-> Idle]
  /\ pc = [l \in Launchers |-> "idle"]
  /\ todo = [l \in Launchers |-> <<>>]
  /\ started = [l \in Launchers |-> <<>>]
  /\ child = [l \in Launchers |-> None]
  /\ signalled = {} /\ failedUps = {} /\ cut = {} /\ unwritten = {}

(* Mutant: the boot of the pid file is not compared.                       *)
RunningInAnyBoot(role) ==
  /\ pidfile[role] # None
  /\ process[pidfile[role].pid] # None
  /\ process[pidfile[role].pid].start = pidfile[role].start

(* role_running                                                            *)
Running(role) ==
  /\ pidfile[role] # None
  /\ pidfile[role].boot = boot
  /\ process[pidfile[role].pid] # None
  /\ process[pidfile[role].pid].start = pidfile[role].start

Goto(l, label) == pc' = [pc EXCEPT ![l] = label]

(* The command ends; its descriptor of the lock file is closed.            *)
Exit(l) ==
  /\ lock' = None
  /\ Goto(l, "idle")
  /\ todo' = [todo EXCEPT ![l] = <<>>]
  /\ started' = [started EXCEPT ![l] = <<>>]
  /\ child' = [child EXCEPT ![l] = None]
  /\ UNCHANGED <<commands, command>>

(* exit in the part of up that the EXIT trap covers: cleanup_up runs.      *)
Fail(l) ==
  /\ Goto(l, "stop")
  /\ todo' = [todo EXCEPT ![l] = started[l]]
  /\ UNCHANGED <<lock, commands, command, started, child>>
-----------------------------------------------------------------------------
LockFree == lock = None

Begin(l, action, cli, roles) ==
  /\ pc[l] = "idle" /\ commands < MaxCommands
  /\ LockFree
  /\ lock' = l
  /\ commands' = commands + 1
  /\ command' = [command EXCEPT ![l] =
       [number |-> commands + 1, action |-> action, cli |-> cli, roles |-> roles]]
  /\ IF action = "up"
       THEN Goto(l, "check") /\ todo' = [todo EXCEPT ![l] = roles]
       ELSE Goto(l, "stop") /\ todo' = [todo EXCEPT ![l] = Reverse(roles)]
  /\ UNCHANGED <<host, pidfile, started, child, history>>

(* up: nothing to do, refused, or go on under the traps.                   *)
Check(l) ==
  LET roles == ToSet(command[l].roles) IN
  /\ pc[l] = "check"
  /\ \/ /\ \A r \in roles : Running(r)
        /\ Exit(l)
     \/ /\ \E r \in roles : Running(r)
        /\ ~command[l].cli
        /\ Exit(l)
     \/ /\ ~\A r \in roles : Running(r)
        /\ command[l].cli \/ ~\E r \in roles : Running(r)
        /\ Goto(l, "start")
        /\ UNCHANGED <<lock, commands, command, todo, started, child>>
  /\ UNCHANGED <<host, pidfile, history>>

SkipRunning(l) ==
  /\ pc[l] = "start" /\ todo[l] # <<>>
  /\ Running(Head(todo[l]))
  /\ todo' = [todo EXCEPT ![l] = Tail(@)]
  /\ UNCHANGED <<host, pidfile, lock, commands, command, pc, started, child, history>>

Claim(l) ==
  /\ pc[l] = "start" /\ todo[l] # <<>>
  /\ ~Running(Head(todo[l]))
  /\ pidfile' = [pidfile EXCEPT ![Head(todo[l])] = None]
  /\ started' = [started EXCEPT ![l] = Append(@, Head(todo[l]))]
  /\ Goto(l, "spawn")
  /\ UNCHANGED <<host, lock, commands, command, todo, child, history>>

NewProcess(pid, role, number) ==
  /\ process[pid] = None
  /\ ticks' = ticks + 1
  /\ process' = [process EXCEPT ![pid] =
       [start |-> ticks + 1, role |-> role, command |-> number, termed |-> FALSE]]
  /\ UNCHANGED boot

(* start_role: the service is in the background before its pid is written. *)
Spawn(l) ==
  /\ pc[l] = "spawn"
  /\ \E pid \in Pids :
       /\ NewProcess(pid, Head(todo[l]), command[l].number)
       /\ child' = [child EXCEPT ![l] = pid]
  /\ Goto(l, "record")
  /\ UNCHANGED <<pidfile, lock, commands, command, todo, started, history>>

Record(l) ==
  /\ pc[l] = "record"
  /\ process[child[l]] # None
  /\ pidfile' = [pidfile EXCEPT ![Head(todo[l])] =
       [pid |-> child[l], start |-> process[child[l]].start, boot |-> boot]]
  /\ todo' = [todo EXCEPT ![l] = Tail(@)]
  /\ child' = [child EXCEPT ![l] = None]
  /\ Goto(l, "start")
  /\ UNCHANGED <<host, lock, commands, command, started, history>>

(* Mutant: a service whose pid file cannot be written is not told to stop. *)
RecordFailsQuietly(l) ==
  /\ pc[l] = "record"
  /\ Goto(l, "stop")
  /\ todo' = [todo EXCEPT ![l] = started[l]]
  /\ child' = [child EXCEPT ![l] = None]
  /\ unwritten' = unwritten \cup {command[l].number}
  /\ UNCHANGED <<host, pidfile, lock, commands, command, started, signalled, failedUps, cut>>

(* The service is gone already, or its pid file cannot be written; then it *)
(* is asked to stop, and nobody waits for it.                              *)
RecordFails(l) ==
  /\ pc[l] = "record"
  /\ Goto(l, "stop")
  /\ todo' = [todo EXCEPT ![l] = started[l]]
  /\ child' = [child EXCEPT ![l] = None]
  /\ IF process[child[l]] = None
       THEN UNCHANGED <<process, unwritten>>
       ELSE /\ process' = [process EXCEPT ![child[l]].termed = TRUE]
            /\ unwritten' = unwritten \cup {command[l].number}
  /\ UNCHANGED <<boot, ticks, pidfile, lock, commands, command, started, signalled,
                 failedUps, cut>>

AllStarted(l) ==
  /\ pc[l] = "start" /\ todo[l] = <<>>
  /\ Goto(l, "probe")
  /\ UNCHANGED <<host, pidfile, lock, commands, command, todo, started, child, history>>

(* The readiness loop ends: a role died, the probes answered, or 90        *)
(* attempts are over.                                                      *)
Probe(l) ==
  /\ pc[l] = "probe"
  /\ \/ Fail(l)
     \/ /\ \A r \in ToSet(command[l].roles) : Running(r)
        /\ Goto(l, "recheck")
        /\ UNCHANGED <<lock, commands, command, todo, started, child>>
  /\ UNCHANGED <<host, pidfile, history>>

Recheck(l) ==
  /\ pc[l] = "recheck"
  /\ IF \A r \in ToSet(command[l].roles) : Running(r) THEN Exit(l) ELSE Fail(l)
  /\ UNCHANGED <<host, pidfile, history>>

Up(l) ==
  \/ Check(l) \/ SkipRunning(l) \/ Claim(l) \/ Spawn(l) \/ Record(l) \/ RecordFails(l)
  \/ AllStarted(l) \/ Probe(l) \/ Recheck(l)
-----------------------------------------------------------------------------
(* stop_role, of down and of cleanup_up.                                   *)

StopNothing(l) ==
  /\ pc[l] = "stop" /\ todo[l] # <<>>
  /\ ~Running(Head(todo[l]))
  /\ pidfile' = [pidfile EXCEPT ![Head(todo[l])] = None]
  /\ todo' = [todo EXCEPT ![l] = Tail(@)]
  /\ UNCHANGED <<host, lock, commands, command, pc, started, child, history>>

Terminate(l) ==
  LET role == Head(todo[l])
      pid  == pidfile[role].pid
  IN
  /\ pc[l] = "stop" /\ todo[l] # <<>>
  /\ Running(role)
  /\ process' = [process EXCEPT ![pid].termed = TRUE]
  /\ signalled' = signalled \cup
       {[role |-> role, action |-> command[l].action, command |-> command[l].number,
         target |-> [role |-> process[pid].role, command |-> process[pid].command]]}
  /\ Goto(l, "wait")
  /\ UNCHANGED <<boot, ticks, pidfile, lock, commands, command, todo, started, child,
                 failedUps, cut, unwritten>>

(* Within ten seconds the role stopped, or it keeps its pid file.          *)
Stopped(l) ==
  /\ pc[l] = "wait"
  /\ ~Running(Head(todo[l]))
  /\ pidfile' = [pidfile EXCEPT ![Head(todo[l])] = None]
  /\ todo' = [todo EXCEPT ![l] = Tail(@)]
  /\ Goto(l, "stop")
  /\ UNCHANGED <<host, lock, commands, command, started, child, history>>

(* Mutant: a service that did not stop is forgotten.                       *)
Forget(l) ==
  /\ pc[l] = "wait"
  /\ Running(Head(todo[l]))
  /\ pidfile' = [pidfile EXCEPT ![Head(todo[l])] = None]
  /\ todo' = [todo EXCEPT ![l] = Tail(@)]
  /\ Goto(l, "stop")
  /\ UNCHANGED <<host, lock, commands, command, started, child, history>>

GiveUp(l) ==
  /\ pc[l] = "wait"
  /\ Running(Head(todo[l]))
  /\ todo' = [todo EXCEPT ![l] = Tail(@)]
  /\ Goto(l, "stop")
  /\ UNCHANGED <<host, pidfile, lock, commands, command, started, child, history>>

AllStopped(l) ==
  /\ pc[l] = "stop" /\ todo[l] = <<>>
  /\ Exit(l)
  /\ failedUps' = IF command[l].action = "up"
                    THEN failedUps \cup {command[l].number} ELSE failedUps
  /\ UNCHANGED <<host, pidfile, signalled, cut, unwritten>>

Down(l) ==
  StopNothing(l) \/ Terminate(l) \/ Stopped(l) \/ GiveUp(l) \/ AllStopped(l)

Step(l) == Up(l) \/ Down(l)
-----------------------------------------------------------------------------
(* INT or TERM under the traps of up: cleanup_up runs on the way out.      *)
Interrupt(l) ==
  /\ pc[l] \in {"start", "spawn", "record", "probe", "recheck"}
  /\ Goto(l, "stop")
  /\ todo' = [todo EXCEPT ![l] = started[l]]
  /\ child' = [child EXCEPT ![l] = None]
  /\ cut' = IF pc[l] = "record" THEN cut \cup {command[l].number} ELSE cut
  /\ UNCHANGED <<host, pidfile, lock, commands, command, started, signalled, failedUps,
                 unwritten>>

(* KILL anywhere; INT or TERM where no trap is set or inside cleanup_up.   *)
Kill(l) ==
  /\ pc[l] # "idle"
  /\ Exit(l)
  /\ cut' = IF pc[l] = "record" THEN cut \cup {command[l].number} ELSE cut
  /\ UNCHANGED <<host, pidfile, signalled, failedUps, unwritten>>

(* A process ends by itself or because it was told to.  A pid that a shell *)
(* still waits to record is its own child's and is not reused.             *)
Die(pid) ==
  /\ process[pid] # None
  /\ process' = [process EXCEPT ![pid] = None]
  /\ UNCHANGED <<boot, ticks, pidfile, lock, shell, history>>

OtherStarts(pid) ==
  /\ ticks < MaxOthers
  /\ \A l \in Launchers : child[l] # pid
  /\ NewProcess(pid, "other", 0)
  /\ UNCHANGED <<pidfile, lock, shell, history>>

Reboot ==
  /\ boot < MaxBoots
  /\ boot' = boot + 1 /\ ticks' = 0
  /\ process' = [p \in Pids |-> None]
  /\ lock' = None
  /\ command' = [l \in Launchers |-> Idle]
  /\ pc' = [l \in Launchers |-> "idle"]
  /\ todo' = [l \in Launchers |-> <<>>]
  /\ started' = [l \in Launchers |-> <<>>]
  /\ child' = [l \in Launchers |-> None]
  /\ UNCHANGED <<pidfile, commands, history>>

Next ==
  \/ \E l \in Launchers :
       \/ \E action \in {"up", "down"}, cli \in BOOLEAN, roles \in RoleLists :
            Begin(l, action, cli, roles)
       \/ Step(l) \/ Interrupt(l) \/ Kill(l)
  \/ \E pid \in Pids : Die(pid) \/ OtherStarts(pid)
  \/ Reboot

Spec == Init /\ [][Next]_vars
-----------------------------------------------------------------------------
StartTimes == 1..(MaxOthers + 2 * MaxCommands)

Process == [start : StartTimes, role : Roles \cup {"other"},
            command : 0..MaxCommands, termed : BOOLEAN]

(* The values of the host's and the commands' state.                       *)
TypeOK ==
  /\ boot \in 1..MaxBoots /\ ticks \in 0..(MaxOthers + 2 * MaxCommands)
  /\ \A p \in Pids : process[p] = None \/ process[p] \in Process
  /\ \A r \in Roles : pidfile[r] = None
       \/ pidfile[r] \in [pid : Pids, start : StartTimes, boot : 1..MaxBoots]
  /\ lock \in Launchers \cup {None}
  /\ \A l \in Launchers :
       /\ pc[l] \in {"idle", "check", "start", "spawn", "record", "probe", "recheck",
                     "stop", "wait"}
       /\ pc[l] # "idle" => lock = l
       /\ ToSet(todo[l]) \cup ToSet(started[l]) \subseteq Roles
       /\ child[l] \in Pids \cup {None}
       /\ pc[l] = "record" <=> child[l] # None

(* TERM reaches only the service the pid file was written for: never a     *)
(* process that got its pid later, in this boot or another, and never the  *)
(* other role.                                                             *)
OnlyOwnServiceIsSignalled ==
  \A s \in signalled : s.target.role = s.role

(* An up that fails stops what it started itself and nothing that ran      *)
(* before or was started by anyone else.                                   *)
UpStopsOnlyItsOwn ==
  \A s \in signalled : s.action = "up" => s.target.command = s.command

(* A service that runs can be found: its pid file names it, unless its     *)
(* command is about to write that file, could not write it, or was cut     *)
(* short before it did.                                                    *)
Tracked(pid) ==
  \/ pidfile[process[pid].role] =
       [pid |-> pid, start |-> process[pid].start, boot |-> boot]
  \/ \E l \in Launchers : child[l] = pid
  \/ process[pid].command \in cut \cup unwritten

Service(pid) == process[pid] # None /\ process[pid].role # "other"

ServicesAreTracked == \A pid \in Pids : Service(pid) => Tracked(pid)

(* A role runs at most once, however commands, crashes and reboots         *)
(* interleave, but for a copy that was never recorded.                     *)
NoTwins ==
  \A p, q \in Pids :
    (p # q /\ Service(p) /\ Service(q) /\ process[p].role = process[q].role)
      => {process[p].command, process[q].command} \cap (cut \cup unwritten) # {}

(* When an up that failed or was interrupted has cleaned up, whatever it   *)
(* started has stopped or was told to stop.                                *)
FailedUpCleansUp ==
  \A pid \in Pids :
    (process[pid] # None /\ process[pid].command \in failedUps) => process[pid].termed

(* The same, but for an interrupt between the spawn and the pid file.      *)
FailedUpCleansUpRecorded ==
  \A pid \in Pids :
    (process[pid] # None /\ process[pid].command \in failedUps \ cut)
      => process[pid].termed

(* The two halves of "only its own", and of "can be found and only once".  *)
SignalsOnlyItsOwn == OnlyOwnServiceIsSignalled /\ UpStopsOnlyItsOwn

OneTrackedServiceEach == TypeOK /\ ServicesAreTracked /\ NoTwins

(* An instance for TLC: shells and pids are interchangeable.               *)
Symmetry == Permutations(Launchers) \cup Permutations(Pids)
=============================================================================
