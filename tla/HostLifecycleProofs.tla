------------------------- MODULE HostLifecycleProofs -------------------------
(***************************************************************************)
(* What holds of the services of a host for any number of commands, of     *)
(* process ids, of unrelated processes and of reboots.                     *)
(***************************************************************************)
EXTENDS HostLifecycle, TLAPS

Files == [pid : Pids, start : StartTimes, boot : 1..MaxBoots]
Commands == [number : 0..MaxCommands, action : {"up", "down"}, cli : BOOLEAN, roles : RoleLists]
Uping == {"check", "start", "spawn", "record", "probe", "recheck"}
Stopping == {"stop", "wait"}

Shapes ==
  /\ boot \in 1..MaxBoots /\ ticks \in Nat /\ commands \in 0..MaxCommands
  /\ process \in [Pids -> Process \cup {None}]
  /\ pidfile \in [Roles -> Files \cup {None}]
  /\ lock \in Launchers \cup {None}
  /\ command \in [Launchers -> Commands]
  /\ pc \in [Launchers -> {"idle"} \cup Uping \cup Stopping]
  /\ todo \in [Launchers -> Seq(Roles)] /\ started \in [Launchers -> Seq(Roles)]
  /\ child \in [Launchers -> Pids \cup {None}]
  /\ failedUps \cup cut \cup unwritten \subseteq 1..commands

(* The role's pid file is that of process p.                               *)
Names(r, p) ==
  /\ process[p] # None
  /\ pidfile[r] = [pid |-> p, start |-> process[p].start, boot |-> boot]

(* Start times are given out in order; what a command started is a service.*)
ProcessInv ==
  \A p \in Pids : process[p] # None =>
    /\ process[p].start <= ticks /\ process[p].command <= commands
    /\ process[p].command = 0 <=> process[p].role = "other"

(* A pid file is of this boot or an earlier one; what it names is what it  *)
(* was written for.                                                        *)
FileInv ==
  \A r \in Roles :
    /\ pidfile[r] # None => pidfile[r].boot <= boot
    /\ pidfile[r] # None /\ pidfile[r].boot = boot => pidfile[r].start <= ticks
    /\ \A p \in Pids : Names(r, p) => process[p].role = r

(* Processes that can still be started: each at most once for each role of *)
(* each command.                                                           *)
Ahead(l) ==
  IF pc[l] \in {"check", "start", "spawn"} THEN Len(todo[l])
  ELSE IF pc[l] = "record" THEN Len(todo[l]) - 1 ELSE 0

Budget ==
  /\ ticks <= MaxOthers + 2 * commands
  /\ \A l \in Launchers :
       Ahead(l) <= 2 /\ ticks + Ahead(l) <= MaxOthers + 2 * commands

(* A command that runs holds the lock and has its own number.              *)
AtWork(l) ==
  /\ pc[l] # "idle" => lock = l /\ command[l].number \in 1..commands
  /\ pc[l] = "record" <=> child[l] # None
  /\ pc[l] \in {"idle", "check"} => started[l] = <<>>
  /\ pc[l] \in Uping =>
       /\ command[l].action = "up"
       /\ command[l].number \notin cut \cup unwritten \cup failedUps
  /\ pc[l] \in {"spawn", "record"} =>
       /\ todo[l] # <<>> /\ Head(todo[l]) \in ToSet(started[l])
       /\ pidfile[Head(todo[l])] = None
  /\ child[l] # None /\ process[child[l]] # None =>
       /\ process[child[l]].role = Head(todo[l])
       /\ process[child[l]].command = command[l].number
  /\ pc[l] = "wait" =>
       /\ todo[l] # <<>>
       /\ \A p \in Pids : Names(Head(todo[l]), p) => process[p].termed

(* What a command up has started is what it will stop if it fails.         *)
OwnOnly(l) ==
  /\ \A r \in ToSet(started[l]), p \in Pids :
       Names(r, p) => process[p].command = command[l].number
  /\ pc[l] \in Stopping /\ command[l].action = "up" => ToSet(todo[l]) \subseteq ToSet(started[l])
  /\ pc[l] \in Uping => \A p \in Pids :
       process[p] # None /\ process[p].command = command[l].number =>
         child[l] = p \/ (process[p].role \in ToSet(started[l]) /\ Names(process[p].role, p))
  /\ pc[l] \in Stopping /\ command[l].action = "up" /\ command[l].number \notin cut =>
       \A p \in Pids : process[p] # None /\ process[p].command = command[l].number =>
         \/ process[p].termed
         \/ process[p].role \in ToSet(todo[l]) /\ Names(process[p].role, p)

HostInv ==
  /\ Shapes /\ ProcessInv /\ FileInv /\ Budget
  /\ \A l \in Launchers : AtWork(l) /\ OwnOnly(l)
  /\ SignalsOnlyItsOwn /\ ServicesAreTracked /\ FailedUpCleansUpRecorded

-----------------------------------------------------------------------------
LEMMA RunningNames ==
  ASSUME Shapes, NEW r \in Roles
  PROVE  /\ Running(r) <=> \E p \in Pids : Names(r, p)
         /\ Running(r) => Names(r, pidfile[r].pid) /\ pidfile[r].pid \in Pids
         /\ \A p \in Pids : Names(r, p) => pidfile[r] # None /\ pidfile[r].pid = p
<1>1. /\ process \in [Pids -> Process \cup {None}] /\ boot \in Nat
      /\ pidfile[r] \in Files \cup {None}
  BY DEF Shapes
<1>2. ASSUME NEW p \in Pids, Names(r, p)
      PROVE  pidfile[r] # None /\ pidfile[r].pid = p /\ Running(r)
  <2>1. process[p] \in Process
    BY <1>1, <1>2 DEF Names
  <2>2. [pid |-> p, start |-> process[p].start, boot |-> boot] \in [pid : Pids, start : Nat, boot : Nat]
    BY <1>1, <2>1, HostAssumption DEF Process, StartTimes
  <2>3. pidfile[r] # None
    BY <1>2, <2>2, HostAssumption DEF Names
  <2>. QED
    BY <1>2, <2>3 DEF Names, Running
<1>3. ASSUME Running(r) PROVE Names(r, pidfile[r].pid) /\ pidfile[r].pid \in Pids
  <2>1. pidfile[r] \in Files /\ pidfile[r].pid \in Pids
    BY <1>1, <1>3 DEF Running, Files
  <2>2. pidfile[r] =
          [pid |-> pidfile[r].pid, start |-> pidfile[r].start, boot |-> pidfile[r].boot]
    BY <2>1 DEF Files
  <2>. QED
    BY <1>3, <2>1, <2>2 DEF Running, Names
<1>. QED
  BY <1>2, <1>3

(* One command at a time.                                                  *)
LEMMA Alone ==
  ASSUME HostInv, NEW l \in Launchers, pc[l] # "idle" \/ lock = None,
         NEW d \in Launchers, d # l
  PROVE  pc[d] = "idle" /\ child[d] = None /\ started[d] = <<>>
<1>1. AtWork(d) /\ AtWork(l) /\ None # d
  BY HostAssumption DEF HostInv
<1>. QED
  BY <1>1 DEF AtWork

LEMMA IdleHolds ==
  ASSUME NEW d \in Launchers, pc[d] = "idle", child[d] = None, started[d] = <<>>
  PROVE  AtWork(d) /\ OwnOnly(d) /\ Ahead(d) = 0
BY DEF AtWork, OwnOnly, Ahead, ToSet, Uping, Stopping

(* No process starts, no pid file of a running role is touched.            *)
Lives(p) ==
  \/ process'[p] = None
  \/ /\ process[p] # None /\ process'[p].start = process[p].start
     /\ process'[p].role = process[p].role /\ process'[p].command = process[p].command
     /\ process[p].termed => process'[p].termed

Clears(r) == pidfile'[r] = pidfile[r] \/ (pidfile'[r] = None /\ ~Running(r))

LEMMA NamesStay ==
  ASSUME Shapes, Shapes', boot' = boot, \A p \in Pids : Lives(p), \A r \in Roles : Clears(r)
  PROVE  \A r \in Roles, p \in Pids :
           /\ Names(r, p)' => Names(r, p)
           /\ Names(r, p) /\ process'[p] # None => Names(r, p)'
<1> SUFFICES ASSUME NEW r \in Roles, NEW p \in Pids
             PROVE  /\ Names(r, p)' => Names(r, p)
                    /\ Names(r, p) /\ process'[p] # None => Names(r, p)'
  OBVIOUS
<1>1. ASSUME Names(r, p)' PROVE Names(r, p)
  <2>1. pidfile'[r] # None
    <3>1. process'[p] \in Process /\ boot' \in Nat
      BY <1>1 DEF Names, Shapes
    <3>2. [pid |-> p, start |-> process'[p].start, boot |-> boot']
            \in [pid : Pids, start : Nat, boot : Nat]
      BY <3>1, HostAssumption DEF Process, StartTimes
    <3>. QED
      BY <1>1, <3>2, HostAssumption DEF Names
  <2>. QED
    BY <1>1, <2>1 DEF Names, Lives, Clears
<1>2. ASSUME Names(r, p), process'[p] # None PROVE Names(r, p)'
  <2>1. Running(r)
    BY <1>2, RunningNames
  <2>. QED
    BY <1>2, <2>1 DEF Names, Lives, Clears
<1>. QED
  BY <1>1, <1>2

LEMMA MoreCommands ==
  ASSUME NEW t \in Nat, NEW a \in Nat, NEW m \in Nat, NEW n \in Nat, m <= n, t <= a + 2 * m
  PROVE  t <= a + 2 * n
OBVIOUS

OthersIdle(l) ==
  \A d \in Launchers : d # l =>
    /\ pc[d] = "idle" /\ child[d] = None /\ started[d] = <<>>
    /\ pc'[d] = pc[d] /\ child'[d] = child[d] /\ started'[d] = started[d]

LEMMA OthersStayIdle ==
  ASSUME HostInv, NEW l \in Launchers, pc[l] # "idle" \/ lock = None,
         NEW x, NEW y, NEW z, pc' = [pc EXCEPT ![l] = x],
         started' = [started EXCEPT ![l] = y], child' = [child EXCEPT ![l] = z]
  PROVE  OthersIdle(l)
BY Alone DEF OthersIdle, HostInv, Shapes

(* What a step of one command keeps of everything but that command, when   *)
(* it starts no process and touches no pid file of a role that runs.       *)
LEMMA StepKeeps ==
  ASSUME HostInv, Shapes', NEW l \in Launchers,
         boot' = boot, ticks' = ticks, commands <= commands', commands' \in Nat,
         \A p \in Pids : Lives(p), \A r \in Roles : Clears(r),
         cut \subseteq cut', unwritten \subseteq unwritten',
         OthersIdle(l),
         \/ child'[l] = child[l]
         \/ /\ child[l] # None
            /\ process'[child[l]] # None => process'[child[l]].command \in cut' \cup unwritten',
         Ahead(l)' <= 2, ticks + Ahead(l)' <= MaxOthers + 2 * commands',
         SignalsOnlyItsOwn', FailedUpCleansUpRecorded', AtWork(l)', OwnOnly(l)'
  PROVE  HostInv'
<1>1. /\ Shapes /\ ProcessInv /\ FileInv /\ Budget /\ ServicesAreTracked
      /\ \A d \in Launchers : AtWork(d) /\ OwnOnly(d)
  BY DEF HostInv
<1>2. \A r \in Roles, p \in Pids :
        /\ Names(r, p)' => Names(r, p)
        /\ Names(r, p) /\ process'[p] # None => Names(r, p)'
  BY <1>1, NamesStay
<1>3. \A p \in Pids : process[p] \in Process \cup {None}
  BY <1>1 DEF Shapes
<1>4. ticks \in Nat /\ commands \in Nat /\ boot \in Nat
  BY <1>1 DEF Shapes
<1>5. ProcessInv'
  <2> SUFFICES ASSUME NEW p \in Pids, process'[p] # None
               PROVE  /\ process'[p].start <= ticks' /\ process'[p].command <= commands'
                      /\ process'[p].command = 0 <=> process'[p].role = "other"
    BY DEF ProcessInv
  <2>1. /\ process[p] # None /\ process'[p].start = process[p].start
        /\ process'[p].role = process[p].role /\ process'[p].command = process[p].command
    BY DEF Lives
  <2>2. process[p].command \in Nat /\ process[p].command <= commands
    BY <1>1, <1>3, <2>1 DEF Process, ProcessInv
  <2>. QED
    BY <1>1, <1>4, <2>1, <2>2 DEF ProcessInv
<1>6. FileInv'
  <2> SUFFICES ASSUME NEW r \in Roles
               PROVE  /\ pidfile'[r] # None => pidfile'[r].boot <= boot'
                      /\ pidfile'[r] # None /\ pidfile'[r].boot = boot'
                           => pidfile'[r].start <= ticks'
                      /\ \A p \in Pids : Names(r, p)' => process'[p].role = r
    BY DEF FileInv
  <2>1. pidfile'[r] # None => pidfile'[r] = pidfile[r]
    BY DEF Clears
  <2>2. ASSUME NEW p \in Pids, Names(r, p)' PROVE process'[p].role = r
    <3>1. Names(r, p) /\ process'[p] # None
      BY <1>2, <2>2 DEF Names
    <3>. QED
      BY <1>1, <3>1 DEF FileInv, Lives
  <2>. QED
    BY <1>1, <2>1, <2>2 DEF FileInv
<1>7. \A d \in Launchers : d # l => AtWork(d)' /\ OwnOnly(d)' /\ Ahead(d)' = 0
  <2> SUFFICES ASSUME NEW d \in Launchers, d # l
               PROVE  AtWork(d)' /\ OwnOnly(d)' /\ Ahead(d)' = 0
    OBVIOUS
  <2>. QED
    BY DEF OthersIdle, AtWork, OwnOnly, Ahead, ToSet, Uping, Stopping
<1>8. Budget'
  <2>1. ticks <= MaxOthers + 2 * commands /\ MaxOthers \in Nat
    BY <1>1, HostAssumption DEF Budget
  <2>2. ticks' <= MaxOthers + 2 * commands'
    BY <1>4, <2>1, MoreCommands
  <2>3. ASSUME NEW d \in Launchers
        PROVE  Ahead(d)' <= 2 /\ ticks' + Ahead(d)' <= MaxOthers + 2 * commands'
    <3>1. CASE d = l
      BY <3>1
    <3>2. CASE d # l
      <4>1. Ahead(d)' = 0
        BY <1>7, <3>2
      <4>. QED
        BY <1>4, <2>2, <4>1
    <3>. QED
      BY <3>1, <3>2
  <2>. QED
    BY <2>2, <2>3 DEF Budget
<1>9. ServicesAreTracked'
  <2> SUFFICES ASSUME NEW p \in Pids, Service(p)' PROVE Tracked(p)'
    BY DEF ServicesAreTracked
  <2>1. /\ process'[p] # None /\ process[p] # None /\ process'[p].start = process[p].start
        /\ process'[p].role = process[p].role /\ process'[p].command = process[p].command
        /\ process[p].role \in Roles
    BY <1>3 DEF Service, Lives, Process
  <2>2. Tracked(p)
    BY <1>1, <2>1 DEF ServicesAreTracked, Service
  <2>3. CASE Names(process[p].role, p)
    BY <1>2, <2>1, <2>3 DEF Names, Tracked
  <2>4. CASE \E d \in Launchers : child[d] = p
    <3>1. PICK d \in Launchers : child[d] = p
      BY <2>4
    <3>2. child[d] # None
      BY <3>1, HostAssumption
    <3>3. d = l
      BY <3>2 DEF OthersIdle
    <3>. QED
      BY <2>1, <3>1, <3>3 DEF Tracked
  <2>5. CASE process[p].command \in cut \cup unwritten
    BY <2>1, <2>5 DEF Tracked
  <2>. QED
    BY <2>1, <2>2, <2>3, <2>4, <2>5 DEF Tracked, Names
<1>. QED
  BY <1>5, <1>6, <1>7, <1>8, <1>9 DEF HostInv

LEMMA FailedStay ==
  ASSUME HostInv, \A p \in Pids : Lives(p), failedUps' = failedUps, cut \subseteq cut'
  PROVE  FailedUpCleansUpRecorded'
BY DEF HostInv, FailedUpCleansUpRecorded, Lives

LEMMA Facts ==
  ASSUME HostInv, NEW l \in Launchers
  PROVE  /\ Shapes /\ ProcessInv /\ FileInv /\ Budget /\ AtWork(l) /\ OwnOnly(l)
         /\ SignalsOnlyItsOwn /\ ServicesAreTracked /\ FailedUpCleansUpRecorded
         /\ ticks \in Nat /\ commands \in Nat /\ commands <= commands
         /\ command[l] \in Commands /\ todo[l] \in Seq(Roles) /\ started[l] \in Seq(Roles)
         /\ child[l] \in Pids \cup {None} /\ None \notin Pids /\ None # l
         /\ pc[l] \in {"idle"} \cup Uping \cup Stopping
         /\ Ahead(l) <= 2 /\ ticks + Ahead(l) <= MaxOthers + 2 * commands
         /\ ticks <= MaxOthers + 2 * commands /\ MaxOthers \in Nat
BY HostAssumption DEF HostInv, Shapes, Budget

(* A command that ends.                                                    *)
LEMMA ExitKeeps ==
  ASSUME HostInv, NEW l \in Launchers, pc[l] # "idle", Exit(l),
         UNCHANGED <<host, pidfile, signalled, unwritten>>,
         cut' = cut \/ (pc[l] = "record" /\ cut' = cut \cup {command[l].number}),
         pc[l] = "record" => cut' # cut \/ command[l].number \in cut,
         failedUps' \subseteq 1..commands, FailedUpCleansUpRecorded'
  PROVE  HostInv'
<1>1. /\ Shapes /\ AtWork(l) /\ child[l] \in Pids \cup {None}
      /\ ticks \in Nat /\ ticks <= MaxOthers + 2 * commands /\ MaxOthers \in Nat
      /\ commands \in Nat /\ commands <= commands
  BY Facts
<1>2. /\ lock' = None /\ pc' = [pc EXCEPT ![l] = "idle"] /\ todo' = [todo EXCEPT ![l] = <<>>]
      /\ started' = [started EXCEPT ![l] = <<>>] /\ child' = [child EXCEPT ![l] = None]
      /\ UNCHANGED <<commands, command, boot, ticks, process>>
  BY DEF Exit, Goto, host
<1>3. pc'[l] = "idle" /\ started'[l] = <<>> /\ child'[l] = None
  BY <1>1, <1>2 DEF Shapes
<1>4. Shapes'
  <2>1. cut' \cup unwritten' \subseteq 1..commands
    BY <1>1 DEF Shapes, AtWork
  <2>2. failedUps' \cup cut' \cup unwritten' \subseteq 1..commands'
    BY <1>2, <2>1
  <2>3. /\ pc' \in [Launchers -> {"idle"} \cup Uping \cup Stopping]
        /\ child' \in [Launchers -> Pids \cup {None}]
    BY <1>1, <1>2 DEF Shapes
  <2>4. todo' \in [Launchers -> Seq(Roles)] /\ started' \in [Launchers -> Seq(Roles)]
    BY <1>1, <1>2 DEF Shapes
  <2>. QED
    BY <1>1, <1>2, <2>2, <2>3, <2>4 DEF Shapes
<1>5. AtWork(l)' /\ OwnOnly(l)' /\ Ahead(l)' = 0
  BY <1>3 DEF AtWork, OwnOnly, Ahead, ToSet, Uping, Stopping
<1>6. OthersIdle(l)
  BY <1>2, OthersStayIdle
<1>7. (\A p \in Pids : Lives(p)) /\ \A r \in Roles : Clears(r)
  BY <1>2 DEF Lives, Clears
<1>8. SignalsOnlyItsOwn'
  BY Facts DEF SignalsOnlyItsOwn, OnlyOwnServiceIsSignalled, UpStopsOnlyItsOwn
<1>9. child[l] # None /\ process'[child[l]] # None => process'[child[l]].command \in cut'
  BY <1>1, <1>2 DEF AtWork
<1>10. Ahead(l)' <= 2 /\ ticks + Ahead(l)' <= MaxOthers + 2 * commands'
  BY <1>1, <1>2, <1>5
<1>. QED
  BY <1>1, <1>2, <1>3, <1>4, <1>5, <1>6, <1>7, <1>8, <1>9, <1>10, StepKeeps

LEMMA KillKeeps ==
  ASSUME HostInv, NEW l \in Launchers, Kill(l)
  PROVE  HostInv'
<1>1. /\ pc[l] # "idle" /\ Exit(l) /\ UNCHANGED <<host, pidfile, signalled, failedUps, unwritten>>
      /\ cut' = IF pc[l] = "record" THEN cut \cup {command[l].number} ELSE cut
  BY DEF Kill
<1>2. FailedUpCleansUpRecorded' /\ failedUps' \subseteq 1..commands
  BY <1>1, FailedStay, Facts DEF Lives, host, Shapes
<1>. QED
  BY <1>1, <1>2, ExitKeeps

LEMMA AllStoppedKeeps ==
  ASSUME HostInv, NEW l \in Launchers, AllStopped(l)
  PROVE  HostInv'
<1>1. /\ pc[l] = "stop" /\ todo[l] = <<>> /\ Exit(l)
      /\ UNCHANGED <<host, pidfile, signalled, cut, unwritten>>
      /\ failedUps' = IF command[l].action = "up"
                        THEN failedUps \cup {command[l].number} ELSE failedUps
  BY DEF AllStopped
<1>2. failedUps' \subseteq 1..commands
  BY <1>1, Facts DEF Shapes, AtWork
<1>3. FailedUpCleansUpRecorded'
  BY <1>1, Facts DEF FailedUpCleansUpRecorded, OwnOnly, Stopping, host, ToSet
<1>. QED
  BY <1>1, <1>2, <1>3, ExitKeeps

-----------------------------------------------------------------------------
(* The steps that go on to something else in the same command.             *)

LEMMA BeginKeeps ==
  ASSUME HostInv, NEW l \in Launchers, NEW what \in {"up", "down"}, NEW cli \in BOOLEAN,
         NEW roles \in RoleLists, Begin(l, what, cli, roles)
  PROVE  HostInv'
<1>0. /\ roles \in Seq(Roles) /\ Len(roles) \in 0..2 /\ Reverse(roles) \in Seq(Roles)
  <2>1. roles \in Seq(Roles) /\ Len(roles) \in 0..2
    <3>1. "server" \in Roles /\ "node" \in Roles
      BY DEF Roles
    <3>2. /\ <<"server", "node">> \in Seq(Roles) /\ Len(<<"server", "node">>) = 2
          /\ <<"server">> \in Seq(Roles) /\ Len(<<"server">>) = 1
          /\ <<"node">> \in Seq(Roles) /\ Len(<<"node">>) = 1
      BY <3>1
    <3>3. roles = <<"server", "node">> \/ roles = <<"server">> \/ roles = <<"node">>
      BY DEF RoleLists
    <3>4. roles \in Seq(Roles)
      BY <3>2, <3>3
    <3>5. Len(roles) = 1 \/ Len(roles) = 2
      BY <3>2, <3>3
    <3>. QED
      BY <3>4, <3>5
  <2>2. /\ DOMAIN Reverse(roles) = 1..Len(roles)
        /\ \A i \in 1..Len(roles) : Reverse(roles)[i] \in Roles
    BY <2>1 DEF Reverse
  <2>3. Reverse(roles) \in [1..Len(roles) -> Roles]
    BY <2>1 DEF Reverse
  <2>. QED
    BY <2>1, <2>3
<1>1. /\ pc[l] = "idle" /\ commands < MaxCommands /\ lock = None
      /\ lock' = l /\ commands' = commands + 1
      /\ command' = [command EXCEPT ![l] =
           [number |-> commands + 1, action |-> what, cli |-> cli, roles |-> roles]]
      /\ UNCHANGED <<host, pidfile, started, child, history>>
      /\ \/ /\ what = "up" /\ pc' = [pc EXCEPT ![l] = "check"]
            /\ todo' = [todo EXCEPT ![l] = roles]
         \/ /\ what = "down" /\ pc' = [pc EXCEPT ![l] = "stop"]
            /\ todo' = [todo EXCEPT ![l] = Reverse(roles)]
  BY DEF Begin, LockFree, Goto
<1>2. /\ Shapes /\ AtWork(l) /\ ProcessInv /\ ticks \in Nat /\ commands \in Nat
      /\ ticks <= MaxOthers + 2 * commands /\ MaxOthers \in Nat /\ None # l
      /\ MaxCommands \in Nat
  BY Facts, HostAssumption
<1>3. PICK new \in Commands :
        /\ command' = [command EXCEPT ![l] = new]
        /\ new.number = commands + 1 /\ new.action = what
  <2>1. commands + 1 \in 0..MaxCommands
    BY <1>1, <1>2
  <2> DEFINE rec == [number |-> commands + 1, action |-> what, cli |-> cli, roles |-> roles]
  <2>2. rec \in Commands /\ rec.number = commands + 1 /\ rec.action = what
    BY <2>1 DEF Commands
  <2>. QED
    BY <1>1, <2>2
<1>4. /\ command'[l].number = commands + 1 /\ command'[l].action = what
      /\ pc'[l] \in {"check", "stop"} /\ (pc'[l] = "check" <=> what = "up")
      /\ started'[l] = <<>> /\ child'[l] = None
      /\ pc'[l] = "check" => todo'[l] = roles
  BY <1>1, <1>2, <1>3 DEF Shapes, AtWork
<1>5. Shapes'
  <2>1. failedUps' \cup cut' \cup unwritten' \subseteq 1..commands'
    BY <1>1, <1>2 DEF Shapes, history
  <2>2. commands' \in 0..MaxCommands
    BY <1>1, <1>2
  <2>3. todo' \in [Launchers -> Seq(Roles)]
    BY <1>0, <1>1, <1>2 DEF Shapes
  <2>4. pc' \in [Launchers -> {"idle"} \cup Uping \cup Stopping]
    BY <1>1, <1>2 DEF Shapes, Uping, Stopping
  <2>5. command' \in [Launchers -> Commands]
    BY <1>2, <1>3 DEF Shapes
  <2>. QED
    BY <1>1, <1>2, <2>1, <2>2, <2>3, <2>4, <2>5 DEF Shapes, host
<1>6. command'[l].number \notin failedUps' \cup cut' \cup unwritten'
  BY <1>1, <1>2, <1>4 DEF Shapes, history
<1>7. AtWork(l)'
  BY <1>1, <1>2, <1>4, <1>6 DEF AtWork, Uping
<1>8. OwnOnly(l)'
  <2>1. \A p \in Pids : process[p] # None => process[p].command # commands + 1
    BY <1>2 DEF ProcessInv, Shapes, Process
  <2>. QED
    BY <1>1, <1>4, <2>1 DEF OwnOnly, Uping, Stopping, ToSet, host
<1>9. Ahead(l)' <= 2 /\ ticks + Ahead(l)' <= MaxOthers + 2 * commands'
  <2>1. Ahead(l)' \in 0..2
    BY <1>0, <1>4 DEF Ahead
  <2>. QED
    BY <1>1, <1>2, <2>1
<1>10. OthersIdle(l)
  <2>1. /\ started' = [started EXCEPT ![l] = started[l]]
        /\ child' = [child EXCEPT ![l] = child[l]]
    BY <1>1, <1>2 DEF Shapes
  <2>. QED
    BY <1>1, <2>1, OthersStayIdle
<1>11. (\A p \in Pids : Lives(p)) /\ \A r \in Roles : Clears(r)
  BY <1>1 DEF Lives, Clears, host
<1>12. SignalsOnlyItsOwn' /\ FailedUpCleansUpRecorded'
  BY <1>1, <1>11, FailedStay, Facts
     DEF SignalsOnlyItsOwn, OnlyOwnServiceIsSignalled, UpStopsOnlyItsOwn, history
<1>13. /\ boot' = boot /\ ticks' = ticks /\ commands <= commands' /\ commands' \in Nat
       /\ cut \subseteq cut' /\ unwritten \subseteq unwritten' /\ child'[l] = child[l]
  BY <1>1, <1>2 DEF host, history
<1>. QED
  BY <1>5, <1>7, <1>8, <1>9, <1>10, <1>11, <1>12, <1>13, StepKeeps

(* A step of a command that goes on: it starts no process.                 *)
LEMMA GoesOn ==
  ASSUME HostInv, NEW l \in Launchers, pc[l] # "idle",
         NEW to \in Uping \cup Stopping, pc' = [pc EXCEPT ![l] = to],
         NEW rest \in Seq(Roles), todo' = [todo EXCEPT ![l] = rest],
         NEW begun \in Seq(Roles), started' = [started EXCEPT ![l] = begun],
         child' = child \/ child' = [child EXCEPT ![l] = None],
         UNCHANGED <<boot, ticks, lock, commands, command, failedUps>>,
         process' \in [Pids -> Process \cup {None}], \A p \in Pids : Lives(p),
         pidfile' \in [Roles -> Files \cup {None}], \A r \in Roles : Clears(r),
         cut' = cut \/ cut' = cut \cup {command[l].number},
         unwritten' = unwritten \/ unwritten' = unwritten \cup {command[l].number},
         child'[l] # child[l] /\ process'[child[l]] # None
           => process'[child[l]].command \in cut' \cup unwritten',
         Ahead(l)' <= Ahead(l), Ahead(l)' \in Nat, SignalsOnlyItsOwn', AtWork(l)', OwnOnly(l)'
  PROVE  HostInv'
<1>1. /\ Shapes /\ AtWork(l) /\ child[l] \in Pids \cup {None} /\ None \notin Pids
      /\ ticks \in Nat /\ ticks + Ahead(l) <= MaxOthers + 2 * commands /\ MaxOthers \in Nat
      /\ commands \in Nat /\ commands <= commands /\ Ahead(l) <= 2
  BY Facts
<1>2. Shapes'
  <2>1. failedUps' \cup cut' \cup unwritten' \subseteq 1..commands'
    BY <1>1 DEF Shapes, AtWork
  <2>2. /\ pc' \in [Launchers -> {"idle"} \cup Uping \cup Stopping]
        /\ child' \in [Launchers -> Pids \cup {None}]
    BY <1>1 DEF Shapes
  <2>3. todo' \in [Launchers -> Seq(Roles)] /\ started' \in [Launchers -> Seq(Roles)]
    BY <1>1 DEF Shapes
  <2>. QED
    BY <1>1, <2>1, <2>2, <2>3 DEF Shapes
<1>3. OthersIdle(l)
  <2>1. \E w : child' = [child EXCEPT ![l] = w]
    <3>1. child = [child EXCEPT ![l] = child[l]]
      BY <1>1 DEF Shapes
    <3>. QED
      BY <3>1
  <2>. QED
    BY <2>1, OthersStayIdle
<1>4. FailedUpCleansUpRecorded'
  BY FailedStay
<1>5. Ahead(l)' <= 2 /\ ticks + Ahead(l)' <= MaxOthers + 2 * commands'
  <2>1. Ahead(l) \in Nat
    BY <1>1, Facts DEF Ahead, AtWork
  <2>2. PICK m \in Nat : m = MaxOthers + 2 * commands
    BY <1>1
  <2>. QED
    BY <1>1, <2>1, <2>2
<1>6. \/ child'[l] = child[l]
      \/ /\ child[l] # None
         /\ process'[child[l]] # None => process'[child[l]].command \in cut' \cup unwritten'
  BY <1>1 DEF Shapes
<1>. QED
  BY <1>1, <1>2, <1>3, <1>4, <1>5, <1>6, StepKeeps

LEMMA Elements ==
  ASSUME NEW S, NEW s \in Seq(S)
  PROVE  /\ \A x \in S : ToSet(Append(s, x)) = ToSet(s) \cup {x}
         /\ s # <<>> => /\ Head(s) \in ToSet(s) /\ Head(s) \in S /\ Tail(s) \in Seq(S)
                        /\ ToSet(s) = {Head(s)} \cup ToSet(Tail(s))
                        /\ Len(s) \in Nat \ {0} /\ Len(Tail(s)) = Len(s) - 1
         /\ ToSet(s) \subseteq S
<1>1. ASSUME NEW x \in S PROVE ToSet(Append(s, x)) = ToSet(s) \cup {x}
  <2>1. DOMAIN Append(s, x) = 1..Len(s) + 1 /\ DOMAIN s = 1..Len(s) /\ Len(s) \in Nat
    OBVIOUS
  <2>2. \A i \in 1..Len(s) + 1 : Append(s, x)[i] = IF i = Len(s) + 1 THEN x ELSE s[i]
    OBVIOUS
  <2>3. ASSUME NEW y \in ToSet(Append(s, x)) PROVE y \in ToSet(s) \cup {x}
    <3>1. PICK i \in 1..Len(s) + 1 : y = Append(s, x)[i]
      BY <2>1 DEF ToSet
    <3>. QED
      BY <2>1, <2>2, <3>1 DEF ToSet
  <2>4. ASSUME NEW y \in ToSet(s) PROVE y \in ToSet(Append(s, x))
    <3>1. PICK i \in 1..Len(s) : y = s[i]
      BY <2>1 DEF ToSet
    <3>2. i \in DOMAIN Append(s, x) /\ Append(s, x)[i] = y
      BY <2>1, <2>2, <3>1
    <3>. QED
      BY <3>2 DEF ToSet
  <2>5. x \in ToSet(Append(s, x))
    <3>1. Len(s) + 1 \in DOMAIN Append(s, x) /\ Append(s, x)[Len(s) + 1] = x
      BY <2>1, <2>2
    <3>. QED
      BY <3>1 DEF ToSet
  <2>. QED
    BY <2>3, <2>4, <2>5
<1>2. ASSUME s # <<>>
      PROVE  /\ Head(s) \in ToSet(s) /\ Head(s) \in S /\ Tail(s) \in Seq(S)
             /\ ToSet(s) = {Head(s)} \cup ToSet(Tail(s))
             /\ Len(s) \in Nat \ {0} /\ Len(Tail(s)) = Len(s) - 1
  <2>1. /\ Len(s) \in Nat \ {0} /\ DOMAIN s = 1..Len(s) /\ Tail(s) \in Seq(S)
        /\ Len(Tail(s)) = Len(s) - 1 /\ DOMAIN Tail(s) = 1..(Len(s) - 1) /\ Head(s) = s[1]
        /\ \A i \in 1..(Len(s) - 1) : Tail(s)[i] = s[i + 1]
    BY <1>2
  <2>2. Head(s) \in ToSet(s) /\ Head(s) \in S
    BY <2>1 DEF ToSet
  <2>3. ASSUME NEW y \in ToSet(s) PROVE y \in {Head(s)} \cup ToSet(Tail(s))
    <3>1. PICK i \in 1..Len(s) : y = s[i]
      BY <2>1 DEF ToSet
    <3>2. i # 1 => i - 1 \in DOMAIN Tail(s) /\ Tail(s)[i - 1] = y
      BY <2>1, <3>1
    <3>. QED
      BY <2>1, <3>1, <3>2 DEF ToSet
  <2>4. ASSUME NEW y \in ToSet(Tail(s)) PROVE y \in ToSet(s)
    <3>1. PICK i \in 1..(Len(s) - 1) : y = Tail(s)[i]
      BY <2>1 DEF ToSet
    <3>2. i + 1 \in DOMAIN s /\ s[i + 1] = y
      BY <2>1, <3>1
    <3>. QED
      BY <3>2 DEF ToSet
  <2>. QED
    BY <2>1, <2>2, <2>3, <2>4
<1>3. ToSet(s) \subseteq S
  BY DEF ToSet
<1>. QED
  BY <1>1, <1>2, <1>3

LEMMA AheadKeeps ==
  ASSUME HostInv, NEW l \in Launchers, pc'[l] \in {"probe", "recheck"} \cup Stopping
  PROVE  Ahead(l)' <= Ahead(l) /\ Ahead(l)' \in Nat
<1>1. Ahead(l) \in Nat
  BY Facts, Elements DEF Ahead, AtWork
<1>. QED
  BY <1>1 DEF Ahead, Stopping

(* A step that changes neither processes nor pid files.                    *)
LEMMA Unmoved ==
  ASSUME HostInv, UNCHANGED <<host, pidfile, signalled>>
  PROVE  /\ process' \in [Pids -> Process \cup {None}]
         /\ pidfile' \in [Roles -> Files \cup {None}]
         /\ \A p \in Pids : Lives(p)
         /\ \A r \in Roles : Clears(r)
         /\ \A r \in Roles, p \in Pids : Names(r, p)' <=> Names(r, p)
         /\ SignalsOnlyItsOwn' /\ UNCHANGED <<boot, ticks, process>>
BY DEF HostInv, Shapes, Lives, Clears, Names, host, SignalsOnlyItsOwn,
       OnlyOwnServiceIsSignalled, UpStopsOnlyItsOwn

LEMMA UpGoesOn ==
  ASSUME HostInv, NEW l \in Launchers,
         \/ Check(l) /\ pc'[l] # "idle"
         \/ SkipRunning(l) \/ AllStarted(l) \/ (Probe(l) /\ pc'[l] = "recheck")
  PROVE  HostInv'
<1>1. /\ pc[l] \in Uping /\ pc[l] \notin {"spawn", "record"} /\ child[l] = None
      /\ pc[l] # "idle" /\ AtWork(l) /\ OwnOnly(l) /\ todo[l] \in Seq(Roles)
      /\ started[l] \in Seq(Roles) /\ Shapes
  BY Facts DEF Check, SkipRunning, AllStarted, Probe, AtWork, Uping
<1>2. /\ UNCHANGED <<host, pidfile, lock, commands, command, started, child, history>>
      /\ \E to \in {"start", "probe", "recheck"} : pc' = [pc EXCEPT ![l] = to]
      /\ \/ todo' = todo
         \/ todo[l] # <<>> /\ todo' = [todo EXCEPT ![l] = Tail(todo[l])]
  <2>1. Check(l) \/ AllStarted(l) \/ Probe(l) => pc \in [Launchers -> {"idle"} \cup Uping \cup Stopping]
    BY <1>1 DEF Shapes
  <2>2. CASE Check(l) /\ pc'[l] # "idle"
    BY <1>1, <2>1, <2>2 DEF Check, Exit, Goto
  <2>3. CASE SkipRunning(l)
    <3>1. pc' = [pc EXCEPT ![l] = "start"]
      BY <1>1, <2>3 DEF SkipRunning, Shapes
    <3>. QED
      BY <2>3, <3>1 DEF SkipRunning
  <2>4. CASE AllStarted(l)
    BY <2>4 DEF AllStarted, Goto
  <2>5. CASE Probe(l) /\ pc'[l] = "recheck"
    BY <1>1, <2>1, <2>5 DEF Probe, Fail, Goto
  <2>. QED
    BY <2>2, <2>3, <2>4, <2>5
<1>3. PICK to \in {"start", "probe", "recheck"} : pc' = [pc EXCEPT ![l] = to]
  BY <1>2
<1>4. PICK rest \in Seq(Roles) :
        /\ todo' = [todo EXCEPT ![l] = rest] /\ Len(rest) <= Len(todo[l])
  <2>1. todo = [todo EXCEPT ![l] = todo[l]]
    BY <1>1 DEF Shapes
  <2>2. todo[l] # <<>> => Tail(todo[l]) \in Seq(Roles) /\ Len(Tail(todo[l])) <= Len(todo[l])
    BY <1>1, Elements
  <2>3. CASE todo' = todo
    <3>1. Len(todo[l]) <= Len(todo[l])
      BY <1>1
    <3>. QED
      BY <1>1, <2>1, <2>3, <3>1
  <2>4. CASE todo[l] # <<>> /\ todo' = [todo EXCEPT ![l] = Tail(todo[l])]
    BY <2>2, <2>4
  <2>. QED
    BY <1>2, <2>3, <2>4
<1>5. /\ pc'[l] = to /\ todo'[l] = rest /\ started' = [started EXCEPT ![l] = started[l]]
      /\ to \in Uping
  BY <1>1, <1>2, <1>3, <1>4 DEF Shapes, Uping
<1>6. Ahead(l)' <= Ahead(l) /\ Ahead(l)' \in Nat
  <2>1. pc[l] \in {"check", "start"} \/ to \in {"probe", "recheck"}
    BY <1>1, <1>3, <1>5, Facts DEF Check, SkipRunning, AllStarted, Probe
  <2>. QED
    BY <1>1, <1>4, <1>5, <2>1, AheadKeeps DEF Ahead
<1>7. AtWork(l)'
  BY <1>1, <1>2, <1>3, <1>5 DEF AtWork, history, Uping
<1>8. OwnOnly(l)'
  BY <1>1, <1>2, <1>5, Unmoved, Elements DEF OwnOnly, history, Uping, Stopping
<1>. QED
  BY <1>1, <1>2, <1>3, <1>4, <1>5, <1>6, <1>7, <1>8, Unmoved, GoesOn DEF history, Uping

(* The role claimed has no running process; its pid file goes.             *)
LEMMA ClaimKeeps ==
  ASSUME HostInv, NEW l \in Launchers, Claim(l)
  PROVE  HostInv'
<1>1. /\ pc[l] = "start" /\ todo[l] # <<>> /\ ~Running(Head(todo[l]))
      /\ pidfile' = [pidfile EXCEPT ![Head(todo[l])] = None]
      /\ started' = [started EXCEPT ![l] = Append(started[l], Head(todo[l]))]
      /\ pc' = [pc EXCEPT ![l] = "spawn"]
      /\ UNCHANGED <<boot, ticks, process, lock, commands, command, todo, child,
                     signalled, failedUps, cut, unwritten>>
  BY Facts DEF Claim, Goto, Shapes, host, history
<1>2. /\ Shapes /\ AtWork(l) /\ OwnOnly(l) /\ todo[l] \in Seq(Roles)
      /\ started[l] \in Seq(Roles) /\ Len(todo[l]) \in Nat
  BY Facts
<1>3. PICK r \in Roles : r = Head(todo[l])
  BY <1>1, <1>2, Elements
<1>4. /\ pidfile' \in [Roles -> Files \cup {None}] /\ pidfile'[r] = None
      /\ \A q \in Roles : Clears(q)
  BY <1>1, <1>2, <1>3 DEF Shapes, Clears
<1>5. /\ Append(started[l], r) \in Seq(Roles)
      /\ ToSet(Append(started[l], r)) = ToSet(started[l]) \cup {r}
  BY <1>2, Elements
<1>6. /\ pc'[l] = "spawn" /\ started'[l] = Append(started[l], r) /\ todo'[l] = todo[l]
      /\ child'[l] = None /\ child[l] = None
  BY <1>1, <1>2, <1>3 DEF Shapes, AtWork
<1>7. (\A p \in Pids : Lives(p)) /\ process' \in [Pids -> Process \cup {None}]
  BY <1>1, <1>2 DEF Lives, Shapes
<1>8. \A q \in Roles, p \in Pids : Names(q, p)' <=> Names(q, p)
  <2>1. HostInv /\ Shapes'
    <3>1. todo' \in [Launchers -> Seq(Roles)] /\ started' \in [Launchers -> Seq(Roles)]
      BY <1>1, <1>2, <1>3, <1>5 DEF Shapes
    <3>. QED
      BY <1>1, <1>2, <1>4, <1>7, <3>1 DEF Shapes, Uping
  <2>. QED
    BY <1>1, <1>2, <1>4, <1>7, <2>1, NamesStay DEF Names
<1>9. \A p \in Pids : ~Names(r, p)
  BY <1>1, <1>2, <1>3, RunningNames
<1>10. AtWork(l)'
  BY <1>1, <1>2, <1>3, <1>4, <1>5, <1>6 DEF AtWork, Uping
<1>11. OwnOnly(l)'
  <2>1. ToSet(started[l]) \subseteq Roles
    BY <1>2, Elements
  <2>2. \A q \in ToSet(started'[l]), p \in Pids :
          Names(q, p)' => process'[p].command = command'[l].number
    <3> SUFFICES ASSUME NEW q \in ToSet(started'[l]), NEW p \in Pids, Names(q, p)'
                 PROVE  process'[p].command = command'[l].number
      OBVIOUS
    <3>1. q \in ToSet(started[l]) \cup {r} /\ q \in Roles
      BY <1>5, <1>6, <2>1
    <3>2. Names(q, p) /\ q # r
      BY <1>8, <1>9, <3>1
    <3>. QED
      BY <1>1, <1>2, <3>1, <3>2 DEF OwnOnly
  <2>3. ASSUME NEW p \in Pids, process'[p] # None, process'[p].command = command'[l].number
        PROVE  process'[p].role \in ToSet(started'[l]) /\ Names(process[p].role, p)'
    <3>1. process[p].role \in ToSet(started[l]) /\ Names(process[p].role, p)
      BY <1>1, <1>2, <1>6, <2>3, HostAssumption DEF OwnOnly, Uping
    <3>. QED
      BY <1>1, <1>5, <1>6, <1>8, <2>1, <3>1
  <2>. QED
    BY <1>1, <1>6, <2>2, <2>3 DEF OwnOnly, Uping, Stopping
<1>12. Ahead(l)' <= Ahead(l) /\ Ahead(l)' \in Nat
  BY <1>1, <1>2, <1>6 DEF Ahead
<1>13. SignalsOnlyItsOwn'
  BY <1>1, Facts DEF SignalsOnlyItsOwn, OnlyOwnServiceIsSignalled, UpStopsOnlyItsOwn
<1>14. /\ todo' = [todo EXCEPT ![l] = todo[l]] /\ "spawn" \in Uping /\ pc[l] # "idle"
       /\ started' = [started EXCEPT ![l] = Append(started[l], r)]
  BY <1>1, <1>2, <1>3 DEF Shapes, Uping
<1>. QED
  BY <1>1, <1>2, <1>4, <1>5, <1>6, <1>7, <1>10, <1>11, <1>12, <1>13, <1>14, GoesOn

LEMMA TermedLives ==
  ASSUME Shapes, NEW q \in Pids, process[q] # None,
         process' = [process EXCEPT ![q].termed = TRUE]
  PROVE  /\ process' \in [Pids -> Process \cup {None}] /\ process'[q].termed
         /\ \A p \in Pids : Lives(p)
<1>1. process \in [Pids -> Process \cup {None}] /\ process[q] \in Process
  BY DEF Shapes
<1>2. PICK new \in Process :
        /\ process' = [process EXCEPT ![q] = new] /\ new.start = process[q].start
        /\ new.role = process[q].role /\ new.command = process[q].command /\ new.termed
  <2> DEFINE rec == [process[q] EXCEPT !.termed = TRUE]
  <2>1. rec \in Process /\ rec.start = process[q].start /\ rec.role = process[q].role
        /\ rec.command = process[q].command /\ rec.termed
    BY <1>1 DEF Process
  <2>2. process' = [process EXCEPT ![q] = rec]
    OBVIOUS
  <2>. QED
    BY <2>1, <2>2
<1>3. process'[q] = new /\ \A p \in Pids : p # q => process'[p] = process[p]
  BY <1>1, <1>2
<1>. QED
  BY <1>1, <1>2, <1>3 DEF Lives

(* An up that fails or is interrupted goes back over what it has started;  *)
(* a process that no pid file names is cut off, or was told to stop.       *)
LEMMA FallsBack ==
  ASSUME HostInv, NEW l \in Launchers, pc[l] \in Uping \ {"check"},
         pc' = [pc EXCEPT ![l] = "stop"], todo' = [todo EXCEPT ![l] = started[l]],
         started' = started, child' = [child EXCEPT ![l] = None],
         UNCHANGED <<boot, ticks, lock, commands, command, pidfile, signalled, failedUps>>,
         process' \in [Pids -> Process \cup {None}], \A p \in Pids : Lives(p),
         cut' = cut \/ cut' = cut \cup {command[l].number},
         unwritten' = unwritten \/ unwritten' = unwritten \cup {command[l].number},
         child[l] # None /\ process'[child[l]] # None =>
           \/ cut' = cut \cup {command[l].number}
           \/ unwritten' = unwritten \cup {command[l].number} /\ process'[child[l]].termed
  PROVE  HostInv'
<1>1. /\ Shapes /\ AtWork(l) /\ OwnOnly(l) /\ started[l] \in Seq(Roles)
      /\ child[l] \in Pids \cup {None} /\ pc[l] # "idle" /\ command[l].action = "up"
      /\ None \notin Pids
  BY Facts DEF Uping, AtWork
<1>2. /\ pc'[l] = "stop" /\ todo'[l] = started[l] /\ started'[l] = started[l]
      /\ child'[l] = None /\ started' = [started EXCEPT ![l] = started[l]]
  BY <1>1 DEF Shapes
<1>3. /\ pidfile' \in [Roles -> Files \cup {None}] /\ \A r \in Roles : Clears(r)
  BY <1>1 DEF Shapes, Clears
<1>4. \A r \in Roles, p \in Pids : Names(r, p)' <=> Names(r, p) /\ process'[p] # None
  BY DEF Names, Lives
<1>5. AtWork(l)'
  BY <1>1, <1>2 DEF AtWork, Uping
<1>6. OwnOnly(l)'
  <2>1. \A r \in ToSet(started[l]), p \in Pids : r \in Roles
    BY <1>1, Elements
  <2>2. \A r \in ToSet(started'[l]), p \in Pids :
          Names(r, p)' => process'[p].command = command'[l].number
    BY <1>1, <1>2, <1>4, <2>1 DEF OwnOnly, Lives
  <2>3. ASSUME NEW p \in Pids, process'[p] # None, process'[p].command = command[l].number,
               command[l].number \notin cut'
        PROVE  \/ process'[p].termed
               \/ process'[p].role \in ToSet(todo'[l]) /\ Names(process[p].role, p)'
    <3>1. /\ process[p] # None /\ process[p].command = command[l].number
          /\ process[p].role = process'[p].role
      BY <2>3 DEF Lives
    <3>2. child[l] = p \/ (process[p].role \in ToSet(started[l]) /\ Names(process[p].role, p))
      BY <1>1, <3>1 DEF OwnOnly
    <3>3. CASE child[l] = p
      BY <1>1, <2>3, <3>3
    <3>4. CASE process[p].role \in ToSet(started[l]) /\ Names(process[p].role, p)
      BY <1>2, <1>4, <2>1, <2>3, <3>1, <3>4
    <3>. QED
      BY <3>2, <3>3, <3>4
  <2>4. \A p \in Pids : process'[p] # None => process'[p].role = process[p].role
    BY DEF Lives
  <2>. QED
    BY <1>1, <1>2, <2>2, <2>3, <2>4 DEF OwnOnly, Uping, Stopping
<1>7. Ahead(l)' <= Ahead(l) /\ Ahead(l)' \in Nat
  BY <1>2, AheadKeeps DEF Stopping
<1>8. SignalsOnlyItsOwn'
  BY Facts DEF SignalsOnlyItsOwn, OnlyOwnServiceIsSignalled, UpStopsOnlyItsOwn
<1>9. child'[l] # child[l] /\ process'[child[l]] # None
        => process'[child[l]].command \in cut' \cup unwritten'
  BY <1>1, <1>2 DEF AtWork, Lives
<1>. QED
  BY <1>1, <1>2, <1>3, <1>5, <1>6, <1>7, <1>8, <1>9, GoesOn DEF Stopping

LEMMA FailuresKeep ==
  ASSUME HostInv, NEW l \in Launchers,
         \/ (Probe(l) /\ Fail(l)) \/ (Recheck(l) /\ Fail(l))
         \/ Interrupt(l) \/ RecordFails(l)
  PROVE  HostInv'
<1>1. Shapes /\ AtWork(l) /\ child[l] \in Pids \cup {None} /\ None \notin Pids
  BY Facts
<1>2. CASE (Probe(l) /\ Fail(l)) \/ (Recheck(l) /\ Fail(l)) \/ Interrupt(l)
  <2>1. /\ pc[l] \in Uping \ {"check"}
        /\ pc' = [pc EXCEPT ![l] = "stop"] /\ todo' = [todo EXCEPT ![l] = started[l]]
        /\ UNCHANGED <<boot, ticks, process, pidfile, lock, commands, command, started,
                       signalled, failedUps, unwritten>>
        /\ child' = [child EXCEPT ![l] = None] \/ (child' = child /\ pc[l] # "record")
        /\ \/ pc[l] # "record" /\ cut' = cut
           \/ pc[l] = "record" /\ cut' = cut \cup {command[l].number}
    BY <1>2 DEF Probe, Recheck, Fail, Interrupt, Goto, Uping, host, history
  <2>2. child' = [child EXCEPT ![l] = None]
    BY <1>1, <2>1 DEF AtWork, Shapes
  <2>3. (\A p \in Pids : Lives(p)) /\ process' \in [Pids -> Process \cup {None}]
    BY <1>1, <2>1 DEF Lives, Shapes
  <2>. QED
    BY <1>1, <2>1, <2>2, <2>3, FallsBack DEF AtWork
<1>3. CASE RecordFails(l)
  <2>1. /\ pc[l] \in Uping \ {"check"}
        /\ pc' = [pc EXCEPT ![l] = "stop"] /\ todo' = [todo EXCEPT ![l] = started[l]]
        /\ child' = [child EXCEPT ![l] = None]
        /\ UNCHANGED <<boot, ticks, pidfile, lock, commands, command, started,
                       signalled, failedUps, cut>>
        /\ child[l] # None
    BY <1>1, <1>3 DEF RecordFails, Goto, Uping, AtWork
  <2>2. CASE process[child[l]] = None
    <3>1. UNCHANGED <<process, unwritten>>
      BY <1>3, <2>2 DEF RecordFails
    <3>2. (\A p \in Pids : Lives(p)) /\ process' \in [Pids -> Process \cup {None}]
      BY <1>1, <3>1 DEF Lives, Shapes
    <3>. QED
      BY <1>1, <2>1, <2>2, <3>1, <3>2, FallsBack
  <2>3. CASE process[child[l]] # None
    <3>1. /\ process' = [process EXCEPT ![child[l]].termed = TRUE]
          /\ unwritten' = unwritten \cup {command[l].number}
      BY <1>3, <2>3 DEF RecordFails
    <3>2. /\ process' \in [Pids -> Process \cup {None}]
          /\ (\A p \in Pids : Lives(p)) /\ process'[child[l]].termed
      BY <1>1, <2>1, <2>3, <3>1, TermedLives
    <3>. QED
      BY <1>1, <2>1, <3>1, <3>2, FallsBack
  <2>. QED
    BY <2>2, <2>3
<1>. QED
  BY <1>2, <1>3

(* The role at hand is done with: it has stopped, or it was told to.       *)
LEMMA DropsKeep ==
  ASSUME HostInv, NEW l \in Launchers, StopNothing(l) \/ Stopped(l) \/ GiveUp(l)
  PROVE  HostInv'
<1>1. /\ Shapes /\ AtWork(l) /\ OwnOnly(l) /\ todo[l] \in Seq(Roles)
      /\ started[l] \in Seq(Roles) /\ pc[l] \in Stopping /\ todo[l] # <<>> /\ child[l] = None
  BY Facts DEF StopNothing, Stopped, GiveUp, AtWork, Stopping
<1>2. PICK r \in Roles : r = Head(todo[l])
  BY <1>1, Elements
<1>3. /\ pc' = [pc EXCEPT ![l] = "stop"] /\ todo' = [todo EXCEPT ![l] = Tail(todo[l])]
      /\ UNCHANGED <<boot, ticks, process, lock, commands, command, started, child,
                     signalled, failedUps, cut, unwritten>>
      /\ \/ ~Running(r) /\ pidfile' = [pidfile EXCEPT ![r] = None]
         \/ pc[l] = "wait" /\ pidfile' = pidfile
  BY <1>1, <1>2 DEF StopNothing, Stopped, GiveUp, Goto, host, history, Shapes
<1>4. /\ Tail(todo[l]) \in Seq(Roles) /\ ToSet(todo[l]) = {r} \cup ToSet(Tail(todo[l]))
      /\ ToSet(started[l]) \subseteq Roles /\ ToSet(todo[l]) \subseteq Roles
  BY <1>1, <1>2, Elements
<1>5. /\ pc'[l] = "stop" /\ todo'[l] = Tail(todo[l]) /\ started'[l] = started[l]
      /\ started' = [started EXCEPT ![l] = started[l]]
  BY <1>1, <1>3 DEF Shapes
<1>6. /\ pidfile' \in [Roles -> Files \cup {None}] /\ \A q \in Roles : Clears(q)
  BY <1>1, <1>2, <1>3 DEF Shapes, Clears
<1>7. (\A p \in Pids : Lives(p)) /\ process' \in [Pids -> Process \cup {None}]
  BY <1>1, <1>3 DEF Lives, Shapes
<1>8. \A q \in Roles, p \in Pids : Names(q, p)' <=> Names(q, p)
  <2>1. Shapes'
    <3>1. /\ todo' \in [Launchers -> Seq(Roles)]
          /\ pc' \in [Launchers -> {"idle"} \cup Uping \cup Stopping]
      BY <1>1, <1>3, <1>4 DEF Shapes, Stopping
    <3>. QED
      BY <1>1, <1>3, <1>6, <1>7, <3>1 DEF Shapes
  <2>. QED
    BY <1>1, <1>3, <1>6, <1>7, <2>1, NamesStay DEF Names
<1>9. \A p \in Pids : Names(r, p) => process[p].termed
  BY <1>1, <1>2, <1>3, RunningNames DEF AtWork
<1>10. AtWork(l)'
  BY <1>1, <1>3, <1>5 DEF AtWork, Uping, Stopping
<1>11. OwnOnly(l)'
  <2>1. \A q \in ToSet(started'[l]), p \in Pids :
          Names(q, p)' => process'[p].command = command'[l].number
    BY <1>1, <1>3, <1>4, <1>5, <1>8 DEF OwnOnly
  <2>2. command[l].action = "up" => ToSet(todo'[l]) \subseteq ToSet(started'[l])
    BY <1>1, <1>4, <1>5 DEF OwnOnly
  <2>3. ASSUME command[l].action = "up", command[l].number \notin cut,
               NEW p \in Pids, process[p] # None, process[p].command = command[l].number,
               ~process[p].termed
        PROVE  process[p].role \in ToSet(todo'[l]) /\ Names(process[p].role, p)'
    <3>1. process[p].role \in ToSet(todo[l]) /\ Names(process[p].role, p)
      BY <1>1, <2>3 DEF OwnOnly
    <3>2. process[p].role # r
      BY <1>9, <2>3, <3>1
    <3>. QED
      BY <1>3, <1>4, <1>5, <1>8, <3>1, <3>2
  <2>. QED
    BY <1>3, <1>5, <2>1, <2>2, <2>3 DEF OwnOnly, Uping, Stopping
<1>12. Ahead(l)' <= Ahead(l) /\ Ahead(l)' \in Nat
  BY <1>5, AheadKeeps DEF Stopping
<1>13. SignalsOnlyItsOwn'
  BY <1>3, Facts DEF SignalsOnlyItsOwn, OnlyOwnServiceIsSignalled, UpStopsOnlyItsOwn
<1>. QED
  BY <1>1, <1>3, <1>4, <1>5, <1>6, <1>7, <1>10, <1>11, <1>12, <1>13, GoesOn DEF Stopping

(* What is signalled is what the pid file was written for.                 *)
LEMMA TerminateKeeps ==
  ASSUME HostInv, NEW l \in Launchers, Terminate(l)
  PROVE  HostInv'
<1>1. /\ Shapes /\ AtWork(l) /\ OwnOnly(l) /\ FileInv /\ todo[l] \in Seq(Roles)
      /\ started[l] \in Seq(Roles) /\ pc[l] = "stop" /\ todo[l] # <<>> /\ child[l] = None
      /\ Running(Head(todo[l]))
  BY Facts DEF Terminate, AtWork
<1>2. PICK r \in Roles : r = Head(todo[l])
  BY <1>1, Elements
<1>3. PICK q \in Pids : q = pidfile[r].pid
  BY <1>1, <1>2, RunningNames
<1>4. Names(r, q) /\ \A p \in Pids : Names(r, p) => p = q
  BY <1>1, <1>2, <1>3, RunningNames
<1>5. /\ process' = [process EXCEPT ![q].termed = TRUE]
      /\ signalled' = signalled \cup
           {[role |-> r, action |-> command[l].action, command |-> command[l].number,
             target |-> [role |-> process[q].role, command |-> process[q].command]]}
      /\ pc' = [pc EXCEPT ![l] = "wait"]
      /\ UNCHANGED <<boot, ticks, pidfile, lock, commands, command, todo, started, child,
                     failedUps, cut, unwritten>>
  BY <1>2, <1>3 DEF Terminate, Goto
<1>6. /\ process' \in [Pids -> Process \cup {None}] /\ process'[q].termed
      /\ \A p \in Pids : Lives(p)
  BY <1>1, <1>4, <1>5, TermedLives DEF Names
<1>7. /\ pc'[l] = "wait" /\ todo' = [todo EXCEPT ![l] = todo[l]]
      /\ started' = [started EXCEPT ![l] = started[l]]
      /\ ToSet(todo[l]) \subseteq Roles /\ ToSet(started[l]) \subseteq Roles
      /\ r \in ToSet(todo[l])
  BY <1>1, <1>2, <1>5, Elements DEF Shapes
<1>8. /\ pidfile' \in [Roles -> Files \cup {None}] /\ \A s \in Roles : Clears(s)
  BY <1>1, <1>5 DEF Shapes, Clears
<1>9. \A s \in Roles, p \in Pids : Names(s, p)' <=> Names(s, p) /\ process'[p] # None
  BY <1>5, <1>6 DEF Names, Lives
<1>10. AtWork(l)'
  BY <1>1, <1>2, <1>4, <1>5, <1>6, <1>7, <1>9 DEF AtWork, Uping
<1>11. OwnOnly(l)'
  <2>1. \A s \in ToSet(started'[l]), p \in Pids :
          Names(s, p)' => process'[p].command = command'[l].number
    BY <1>1, <1>5, <1>6, <1>7, <1>9 DEF OwnOnly, Lives
  <2>2. ASSUME command[l].action = "up", command[l].number \notin cut,
               NEW p \in Pids, process'[p] # None, process'[p].command = command[l].number,
               ~process'[p].termed
        PROVE  process'[p].role \in ToSet(todo'[l]) /\ Names(process[p].role, p)'
    <3>1. /\ process[p] # None /\ process[p].command = command[l].number
          /\ process[p].role = process'[p].role /\ ~process[p].termed
      BY <1>6, <2>2 DEF Lives
    <3>2. process[p].role \in ToSet(todo[l]) /\ Names(process[p].role, p)
      BY <1>1, <2>2, <3>1 DEF OwnOnly, Stopping
    <3>. QED
      BY <1>5, <1>7, <1>9, <2>2, <3>1, <3>2
  <2>3. \A p \in Pids : process'[p] # None => process'[p].role = process[p].role
    BY <1>6 DEF Lives
  <2>4. command[l].action = "up" => ToSet(todo'[l]) \subseteq ToSet(started'[l])
    BY <1>1, <1>5 DEF OwnOnly, Stopping
  <2>. QED
    BY <1>5, <1>7, <2>1, <2>2, <2>3, <2>4 DEF OwnOnly, Uping, Stopping
<1>12. Ahead(l)' <= Ahead(l) /\ Ahead(l)' \in Nat
  BY <1>7, AheadKeeps DEF Stopping
<1>13. SignalsOnlyItsOwn'
  <2>1. process[q].role = r
    BY <1>1, <1>4 DEF FileInv
  <2>2. command[l].action = "up" => process[q].command = command[l].number
    BY <1>1, <1>4, <1>7 DEF OwnOnly, Stopping
  <2>. QED
    BY <1>5, <2>1, <2>2, Facts
       DEF SignalsOnlyItsOwn, OnlyOwnServiceIsSignalled, UpStopsOnlyItsOwn
<1>14. child' = child /\ pc[l] # "idle" /\ "wait" \in Stopping
  BY <1>1, <1>5 DEF Stopping
<1>. QED
  BY <1>1, <1>5, <1>6, <1>7, <1>8, <1>10, <1>11, <1>12, <1>13, <1>14, GoesOn

-----------------------------------------------------------------------------
(* A new process starts later than any that a pid file of this boot names. *)
LEMMA Arrival ==
  ASSUME HostInv, NEW q \in Pids, NEW new \in Process, process[q] = None,
         process' = [process EXCEPT ![q] = new], new.start = ticks + 1, ticks' = ticks + 1,
         UNCHANGED <<boot, pidfile, commands>>,
         new.command <= commands, new.command = 0 <=> new.role = "other"
  PROVE  /\ process' \in [Pids -> Process \cup {None}] /\ ticks' \in Nat
         /\ process'[q] = new /\ \A p \in Pids : p # q => process'[p] = process[p]
         /\ \A r \in Roles, p \in Pids : Names(r, p)' <=> Names(r, p)
         /\ ProcessInv' /\ FileInv'
<1>1. /\ Shapes /\ ProcessInv /\ FileInv /\ ticks \in Nat /\ boot \in Nat
      /\ process \in [Pids -> Process \cup {None}]
      /\ pidfile \in [Roles -> Files \cup {None}]
  BY DEF HostInv, Shapes
<1>2. /\ process' \in [Pids -> Process \cup {None}] /\ ticks' \in Nat
      /\ process'[q] = new /\ \A p \in Pids : p # q => process'[p] = process[p]
  BY <1>1
<1>3. ASSUME NEW r \in Roles PROVE ~Names(r, q)'
  <2> SUFFICES ASSUME Names(r, q)' PROVE FALSE
    OBVIOUS
  <2>1. pidfile[r] = [pid |-> q, start |-> ticks + 1, boot |-> boot]
    BY <1>2 DEF Names
  <2>2. [pid |-> q, start |-> ticks + 1, boot |-> boot] \in [pid : Pids, start : Nat, boot : Nat]
    BY <1>1
  <2>3. pidfile[r] # None
    BY <2>1, <2>2, HostAssumption
  <2>4. pidfile[r].boot = boot /\ pidfile[r].start = ticks + 1
    BY <2>1
  <2>. QED
    BY <1>1, <2>3, <2>4 DEF FileInv
<1>4. \A r \in Roles, p \in Pids : Names(r, p)' <=> Names(r, p)
  BY <1>2, <1>3 DEF Names
<1>5. ProcessInv'
  <2> SUFFICES ASSUME NEW p \in Pids, process'[p] # None
               PROVE  /\ process'[p].start <= ticks' /\ process'[p].command <= commands'
                      /\ process'[p].command = 0 <=> process'[p].role = "other"
    BY DEF ProcessInv
  <2>1. CASE p = q
    BY <1>1, <1>2, <2>1
  <2>2. CASE p # q
    BY <1>1, <1>2, <2>2 DEF ProcessInv, Process, StartTimes
  <2>. QED
    BY <2>1, <2>2
<1>6. FileInv'
  <2> SUFFICES ASSUME NEW r \in Roles
               PROVE  /\ pidfile'[r] # None => pidfile'[r].boot <= boot'
                      /\ pidfile'[r] # None /\ pidfile'[r].boot = boot'
                           => pidfile'[r].start <= ticks'
                      /\ \A p \in Pids : Names(r, p)' => process'[p].role = r
    BY DEF FileInv
  <2>1. pidfile[r] # None => pidfile[r].start \in Nat
    BY <1>1 DEF Files, StartTimes
  <2>2. \A p \in Pids : Names(r, p)' => process'[p].role = r
    BY <1>1, <1>2, <1>3, <1>4 DEF FileInv
  <2>. QED
    BY <1>1, <2>1, <2>2 DEF FileInv
<1>. QED
  BY <1>2, <1>4, <1>5, <1>6

LEMMA Counts ==
  ASSUME NEW t \in Nat, NEW a \in Nat, NEW m \in Nat, NEW n \in Nat, m <= n, NEW k \in Nat,
         t + k <= a + 2 * m
  PROVE  /\ k # 0 => t + 1 <= a + 2 * m /\ t + 1 \in 1..(a + 2 * n)
         /\ k # 0 => k - 1 \in Nat /\ t + 1 + (k - 1) <= a + 2 * m
         /\ t < a => t + 1 <= a + 2 * m /\ t + 1 \in 1..(a + 2 * n)
         /\ t < a /\ k <= 2 /\ m # 0 => t + 1 + k <= a + 2 * m
OBVIOUS

LEMMA SpawnKeeps ==
  ASSUME HostInv, NEW l \in Launchers, Spawn(l)
  PROVE  HostInv'
<1>1. /\ Shapes /\ AtWork(l) /\ OwnOnly(l) /\ todo[l] \in Seq(Roles)
      /\ started[l] \in Seq(Roles) /\ pc[l] = "spawn" /\ todo[l] # <<>> /\ child[l] = None
      /\ ticks \in Nat /\ ServicesAreTracked /\ FailedUpCleansUpRecorded
      /\ command[l].number \in 1..commands /\ commands \in Nat /\ commands <= MaxCommands
      /\ None \notin Pids /\ MaxOthers \in Nat /\ MaxCommands \in Nat
      /\ ticks + Ahead(l) <= MaxOthers + 2 * commands /\ Ahead(l) <= 2
  BY Facts, HostAssumption DEF Spawn, AtWork, Shapes
<1>2. PICK r \in Roles : r = Head(todo[l])
  BY <1>1, Elements
<1>3. PICK n \in Nat : n = Len(todo[l]) /\ n # 0 /\ n = Ahead(l)
  BY <1>1, Elements DEF Ahead
<1>4. /\ ticks + 1 <= MaxOthers + 2 * commands
      /\ ticks + 1 \in 1..(MaxOthers + 2 * MaxCommands)
      /\ n - 1 \in Nat /\ ticks + 1 + (n - 1) <= MaxOthers + 2 * commands
  BY <1>1, <1>3, Counts
<1>5. PICK q \in Pids, new \in Process :
        /\ process[q] = None /\ process' = [process EXCEPT ![q] = new]
        /\ new.start = ticks + 1 /\ new.role = r /\ new.command = command[l].number
        /\ child' = [child EXCEPT ![l] = q]
  <2>1. PICK q \in Pids :
          /\ NewProcess(q, Head(todo[l]), command[l].number)
          /\ child' = [child EXCEPT ![l] = q]
    BY DEF Spawn
  <2> DEFINE rec == [start |-> ticks + 1, role |-> r, command |-> command[l].number,
                     termed |-> FALSE]
  <2>2. command[l].number \in 0..MaxCommands
    BY <1>1
  <2>3. /\ rec \in Process /\ rec.start = ticks + 1 /\ rec.role = r
        /\ rec.command = command[l].number
    BY <1>4, <2>2 DEF Process, StartTimes
  <2>4. process[q] = None /\ process' = [process EXCEPT ![q] = rec]
    BY <1>2, <2>1 DEF NewProcess
  <2>. QED
    BY <2>1, <2>3, <2>4
<1>6. /\ ticks' = ticks + 1 /\ pc' = [pc EXCEPT ![l] = "record"]
      /\ UNCHANGED <<boot, pidfile, lock, commands, command, todo, started, signalled,
                     failedUps, cut, unwritten>>
  BY DEF Spawn, NewProcess, Goto, history
<1>7. new.role # "other" /\ new.command # 0 /\ new.command <= commands
  BY <1>1, <1>5 DEF Roles
<1>8. /\ process' \in [Pids -> Process \cup {None}] /\ ticks' \in Nat
      /\ process'[q] = new /\ \A p \in Pids : p # q => process'[p] = process[p]
      /\ \A s \in Roles, p \in Pids : Names(s, p)' <=> Names(s, p)
      /\ ProcessInv' /\ FileInv'
  BY <1>5, <1>6, <1>7, Arrival
<1>9. pc'[l] = "record" /\ child'[l] = q
  BY <1>1, <1>5, <1>6 DEF Shapes
<1>10. Shapes'
  <2>1. pc' \in [Launchers -> {"idle"} \cup Uping \cup Stopping]
    BY <1>1, <1>6 DEF Shapes, Uping
  <2>. QED
    BY <1>1, <1>5, <1>6, <1>8, <2>1 DEF Shapes
<1>11. OthersIdle(l)
  <2>1. started' = [started EXCEPT ![l] = started[l]]
    BY <1>1, <1>6 DEF Shapes
  <2>. QED
    BY <1>1, <1>5, <1>6, <2>1, OthersStayIdle
<1>12. \A d \in Launchers : d # l => AtWork(d)' /\ OwnOnly(d)' /\ Ahead(d)' = 0
  <2> SUFFICES ASSUME NEW d \in Launchers, d # l
               PROVE  AtWork(d)' /\ OwnOnly(d)' /\ Ahead(d)' = 0
    OBVIOUS
  <2>. QED
    BY <1>11 DEF OthersIdle, AtWork, OwnOnly, Ahead, ToSet, Uping, Stopping
<1>13. Budget'
  <2>1. Ahead(l)' = n - 1 /\ n <= 2
    BY <1>1, <1>3, <1>6, <1>9 DEF Ahead
  <2>2. ASSUME NEW d \in Launchers
        PROVE  Ahead(d)' <= 2 /\ ticks' + Ahead(d)' <= MaxOthers + 2 * commands'
    <3>1. CASE d = l
      <4>1. n - 1 <= 2
        BY <1>3, <2>1
      <4>. QED
        BY <1>4, <1>6, <2>1, <3>1, <4>1
    <3>2. CASE d # l
      <4>1. Ahead(d)' = 0
        BY <1>12, <3>2
      <4>. QED
        BY <1>1, <1>4, <1>6, <4>1
    <3>. QED
      BY <3>1, <3>2
  <2>. QED
    BY <1>4, <1>6, <2>2 DEF Budget
<1>14. AtWork(l)'
  BY <1>1, <1>2, <1>5, <1>6, <1>8, <1>9 DEF AtWork, Uping
<1>15. OwnOnly(l)'
  <2>1. ToSet(started[l]) \subseteq Roles
    BY <1>1, Elements
  <2>2. \A s \in ToSet(started'[l]), p \in Pids :
          Names(s, p)' => process'[p].command = command'[l].number
    BY <1>1, <1>5, <1>6, <1>8, <2>1 DEF OwnOnly
  <2>3. ASSUME NEW p \in Pids, process'[p] # None, process'[p].command = command[l].number,
               p # q
        PROVE  process'[p].role \in ToSet(started'[l]) /\ Names(process[p].role, p)'
    <3>1. process'[p] = process[p]
      BY <1>8, <2>3
    <3>2. process[p].role \in ToSet(started[l]) /\ Names(process[p].role, p)
      BY <1>1, <2>3, <3>1 DEF OwnOnly, Uping
    <3>. QED
      BY <1>6, <1>8, <2>1, <3>1, <3>2
  <2>4. \A p \in Pids : p # q => process'[p] = process[p]
    BY <1>8
  <2>. QED
    BY <1>6, <1>9, <2>2, <2>3, <2>4 DEF OwnOnly, Uping, Stopping
<1>16. ServicesAreTracked'
  <2> SUFFICES ASSUME NEW p \in Pids, Service(p)' PROVE Tracked(p)'
    BY DEF ServicesAreTracked
  <2>1. CASE p = q
    BY <1>9, <2>1 DEF Tracked
  <2>2. CASE p # q
    <3>1. process'[p] = process[p] /\ Service(p) /\ Tracked(p)
      BY <1>1, <1>8, <2>2 DEF Service, ServicesAreTracked
    <3>2. \A d \in Launchers : child[d] # p
      BY <1>1, <1>11 DEF OthersIdle
    <3>. QED
      BY <1>6, <3>1, <3>2 DEF Tracked
  <2>. QED
    BY <2>1, <2>2
<1>17. FailedUpCleansUpRecorded' /\ SignalsOnlyItsOwn'
  <2>1. command[l].number \notin failedUps
    BY <1>1 DEF AtWork, Uping
  <2>. QED
    BY <1>1, <1>5, <1>6, <1>8, <2>1, Facts
       DEF FailedUpCleansUpRecorded, SignalsOnlyItsOwn, OnlyOwnServiceIsSignalled,
           UpStopsOnlyItsOwn
<1>. QED
  BY <1>8, <1>10, <1>12, <1>13, <1>14, <1>15, <1>16, <1>17 DEF HostInv

(* The pid file names the child, which nothing else can have replaced.     *)
LEMMA RecordKeeps ==
  ASSUME HostInv, NEW l \in Launchers, Record(l)
  PROVE  HostInv'
<1>1. /\ Shapes /\ AtWork(l) /\ OwnOnly(l) /\ FileInv /\ ProcessInv /\ Budget
      /\ todo[l] \in Seq(Roles) /\ started[l] \in Seq(Roles) /\ pc[l] = "record"
      /\ todo[l] # <<>> /\ child[l] \in Pids /\ process[child[l]] # None
      /\ ticks \in Nat /\ boot \in 1..MaxBoots /\ MaxBoots \in Nat
      /\ ServicesAreTracked /\ FailedUpCleansUpRecorded /\ SignalsOnlyItsOwn
      /\ None \notin Pids
  BY Facts, HostAssumption DEF Record, AtWork, Shapes
<1>2. PICK r \in Roles : r = Head(todo[l])
  BY <1>1, Elements
<1>3. PICK q \in Pids : q = child[l]
  BY <1>1
<1>4. /\ process[q] \in Process /\ process[q].start <= ticks /\ process[q].role = r
      /\ process[q].command = command[l].number /\ pidfile[r] = None
      /\ r \in ToSet(started[l])
  BY <1>1, <1>2, <1>3 DEF Shapes, ProcessInv, AtWork
<1>5. PICK file \in Files :
        /\ file = [pid |-> q, start |-> process[q].start, boot |-> boot]
        /\ pidfile' = [pidfile EXCEPT ![r] = file]
        /\ file.boot = boot /\ file.start = process[q].start /\ file.pid = q
  <2> DEFINE rec == [pid |-> q, start |-> process[q].start, boot |-> boot]
  <2>1. /\ rec \in Files /\ rec.boot = boot /\ rec.start = process[q].start /\ rec.pid = q
        /\ pidfile' = [pidfile EXCEPT ![r] = rec]
    BY <1>1, <1>2, <1>3, <1>4 DEF Files, Process, Record
  <2>. QED
    BY <2>1
<1>6. /\ pc' = [pc EXCEPT ![l] = "start"] /\ todo' = [todo EXCEPT ![l] = Tail(todo[l])]
      /\ child' = [child EXCEPT ![l] = None]
      /\ UNCHANGED <<boot, ticks, process, lock, commands, command, started, signalled,
                     failedUps, cut, unwritten>>
  BY <1>1 DEF Record, Goto, host, history, Shapes
<1>7. /\ pc'[l] = "start" /\ child'[l] = None /\ todo'[l] = Tail(todo[l])
      /\ pidfile'[r] = file /\ \A s \in Roles : s # r => pidfile'[s] = pidfile[s]
      /\ pidfile' \in [Roles -> Files \cup {None}]
  BY <1>1, <1>5, <1>6 DEF Shapes
<1>8. /\ Names(r, q)' /\ \A p \in Pids : Names(r, p)' => p = q
      /\ \A s \in Roles, p \in Pids : s # r => (Names(s, p)' <=> Names(s, p))
      /\ \A p \in Pids : ~Names(r, p)
  <2>1. \A p \in Pids : ~Names(r, p)
    BY <1>1, <1>4, RunningNames
  <2>2. \A s \in Roles, p \in Pids : s # r => (Names(s, p)' <=> Names(s, p))
    BY <1>6, <1>7 DEF Names
  <2>3. Names(r, q)'
    BY <1>1, <1>3, <1>5, <1>6, <1>7 DEF Names
  <2>4. \A p \in Pids : Names(r, p)' => p = q
    BY <1>5, <1>7 DEF Names
  <2>. QED
    BY <2>1, <2>2, <2>3, <2>4
<1>9. /\ Tail(todo[l]) \in Seq(Roles) /\ Len(Tail(todo[l])) = Len(todo[l]) - 1
      /\ ToSet(started[l]) \subseteq Roles
  BY <1>1, Elements
<1>10. Shapes'
  <2>1. /\ pc' \in [Launchers -> {"idle"} \cup Uping \cup Stopping]
        /\ todo' \in [Launchers -> Seq(Roles)] /\ child' \in [Launchers -> Pids \cup {None}]
    BY <1>1, <1>6, <1>9 DEF Shapes, Uping
  <2>. QED
    BY <1>1, <1>6, <1>7, <2>1 DEF Shapes
<1>11. OthersIdle(l)
  <2>1. started' = [started EXCEPT ![l] = started[l]]
    BY <1>1, <1>6 DEF Shapes
  <2>. QED
    BY <1>1, <1>6, <2>1, OthersStayIdle
<1>12. \A d \in Launchers : d # l => AtWork(d)' /\ OwnOnly(d)' /\ Ahead(d)' = Ahead(d)
  <2> SUFFICES ASSUME NEW d \in Launchers, d # l
               PROVE  AtWork(d)' /\ OwnOnly(d)' /\ Ahead(d)' = Ahead(d)
    OBVIOUS
  <2>. QED
    BY <1>11 DEF OthersIdle, AtWork, OwnOnly, Ahead, ToSet, Uping, Stopping
<1>13. Budget'
  <2>1. Ahead(l)' = Ahead(l)
    BY <1>1, <1>6, <1>7, <1>9 DEF Ahead
  <2>. QED
    BY <1>1, <1>6, <1>12, <2>1 DEF Budget
<1>14. AtWork(l)'
  BY <1>1, <1>6, <1>7 DEF AtWork, Uping
<1>15. OwnOnly(l)'
  <2>1. ASSUME NEW s \in ToSet(started'[l]), NEW p \in Pids, Names(s, p)'
        PROVE  process'[p].command = command'[l].number
    <3>1. s \in Roles /\ s \in ToSet(started[l])
      BY <1>6, <1>9, <2>1
    <3>. QED
      BY <1>1, <1>4, <1>6, <1>8, <2>1, <3>1 DEF OwnOnly
  <2>2. ASSUME NEW p \in Pids, process[p] # None, process[p].command = command[l].number
        PROVE  process[p].role \in ToSet(started'[l]) /\ Names(process[p].role, p)'
    <3>1. CASE p = q
      BY <1>4, <1>6, <1>8, <3>1
    <3>2. CASE p # q
      <4>1. process[p].role \in ToSet(started[l]) /\ Names(process[p].role, p)
        BY <1>1, <1>3, <2>2, <3>2 DEF OwnOnly, Uping
      <4>2. process[p].role # r /\ process[p].role \in Roles
        BY <1>8, <1>9, <4>1
      <4>. QED
        BY <1>6, <1>8, <4>1, <4>2
    <3>. QED
      BY <3>1, <3>2
  <2>. QED
    BY <1>6, <1>7, <2>1, <2>2 DEF OwnOnly, Uping, Stopping
<1>16. FileInv'
  <2> SUFFICES ASSUME NEW s \in Roles
               PROVE  /\ pidfile'[s] # None => pidfile'[s].boot <= boot'
                      /\ pidfile'[s] # None /\ pidfile'[s].boot = boot'
                           => pidfile'[s].start <= ticks'
                      /\ \A p \in Pids : Names(s, p)' => process'[p].role = s
    BY DEF FileInv
  <2>1. CASE s = r
    BY <1>1, <1>4, <1>5, <1>6, <1>7, <1>8, <2>1
  <2>2. CASE s # r
    BY <1>1, <1>6, <1>7, <1>8, <2>2 DEF FileInv
  <2>. QED
    BY <2>1, <2>2
<1>17. ServicesAreTracked'
  <2> SUFFICES ASSUME NEW p \in Pids, Service(p)' PROVE Tracked(p)'
    BY DEF ServicesAreTracked
  <2>1. /\ Service(p) /\ Tracked(p) /\ process'[p] = process[p] /\ process[p] # None
        /\ process[p].role \in Roles
    BY <1>1, <1>6 DEF Service, ServicesAreTracked, Shapes, Process
  <2>2. CASE p = q
    BY <1>4, <1>6, <1>8, <2>1, <2>2 DEF Tracked, Names
  <2>3. CASE p # q
    <3>1. \A d \in Launchers : child[d] # p
      BY <1>1, <1>3, <1>11, <2>3 DEF OthersIdle
    <3>2. CASE Names(process[p].role, p)
      <4>1. process[p].role # r
        BY <1>8, <3>2
      <4>. QED
        BY <1>6, <1>8, <2>1, <3>2, <4>1 DEF Tracked, Names
    <3>3. CASE process[p].command \in cut \cup unwritten
      BY <1>6, <2>1, <3>3 DEF Tracked
    <3>. QED
      BY <2>1, <3>1, <3>2, <3>3 DEF Tracked, Names
  <2>. QED
    BY <2>2, <2>3
<1>18. ProcessInv' /\ FailedUpCleansUpRecorded' /\ SignalsOnlyItsOwn'
  BY <1>1, <1>6 DEF ProcessInv, FailedUpCleansUpRecorded, SignalsOnlyItsOwn,
                    OnlyOwnServiceIsSignalled, UpStopsOnlyItsOwn
<1>. QED
  BY <1>10, <1>12, <1>13, <1>14, <1>15, <1>16, <1>17, <1>18 DEF HostInv

LEMMA OtherKeeps ==
  ASSUME HostInv, NEW q \in Pids, OtherStarts(q)
  PROVE  HostInv'
<1>1. /\ Shapes /\ ProcessInv /\ FileInv /\ Budget /\ ticks \in Nat /\ commands \in Nat
      /\ commands <= MaxCommands /\ MaxCommands \in Nat /\ MaxOthers \in Nat
      /\ ServicesAreTracked /\ FailedUpCleansUpRecorded /\ SignalsOnlyItsOwn
      /\ None \notin Pids
  BY HostAssumption DEF HostInv, Shapes
<1>2. /\ ticks < MaxOthers /\ ticks + 0 <= MaxOthers + 2 * commands /\ 0 \in Nat
      /\ \A l \in Launchers : child[l] # q
  BY <1>1 DEF OtherStarts, Budget
<1>3. ticks + 1 <= MaxOthers + 2 * commands /\ ticks + 1 \in 1..(MaxOthers + 2 * MaxCommands)
  BY <1>1, <1>2, Counts
<1>4. PICK new \in Process :
        /\ process[q] = None /\ process' = [process EXCEPT ![q] = new]
        /\ new.start = ticks + 1 /\ new.role = "other" /\ new.command = 0
  <2> DEFINE rec == [start |-> ticks + 1, role |-> "other", command |-> 0, termed |-> FALSE]
  <2>1. 0 \in 0..MaxCommands
    BY <1>1
  <2>2. rec \in Process /\ rec.start = ticks + 1 /\ rec.role = "other" /\ rec.command = 0
    BY <1>3, <2>1 DEF Process, StartTimes
  <2>3. process[q] = None /\ process' = [process EXCEPT ![q] = rec]
    BY DEF OtherStarts, NewProcess
  <2>. QED
    BY <2>2, <2>3
<1>5. /\ ticks' = ticks + 1
      /\ UNCHANGED <<boot, pidfile, lock, shell, history, commands>>
  BY DEF OtherStarts, NewProcess, shell
<1>6. /\ process' \in [Pids -> Process \cup {None}] /\ ticks' \in Nat
      /\ process'[q] = new /\ \A p \in Pids : p # q => process'[p] = process[p]
      /\ \A s \in Roles, p \in Pids : Names(s, p)' <=> Names(s, p)
      /\ ProcessInv' /\ FileInv'
  <2>1. new.command <= commands /\ (new.command = 0 <=> new.role = "other")
    BY <1>1, <1>4
  <2>. QED
    BY <1>4, <1>5, <2>1, Arrival
<1>7. Shapes'
  BY <1>1, <1>5, <1>6 DEF Shapes, shell, history
<1>8. ASSUME NEW l \in Launchers PROVE AtWork(l)' /\ OwnOnly(l)'
  <2>1. /\ AtWork(l) /\ OwnOnly(l) /\ todo[l] \in Seq(Roles) /\ started[l] \in Seq(Roles)
        /\ child[l] \in Pids \cup {None} /\ ToSet(started[l]) \subseteq Roles
        /\ ToSet(todo[l]) \subseteq Roles /\ child[l] # q
        /\ todo[l] # <<>> => Head(todo[l]) \in Roles
    BY <1>2, Facts, Elements
  <2>2. UNCHANGED <<pidfile, lock, commands, command, pc, todo, started, child, failedUps, cut,
                    unwritten>>
    BY <1>5 DEF shell, history
  <2>3. \A p \in Pids : process'[p] # None => p = q \/ process'[p] = process[p]
    BY <1>6
  <2>4. \A s \in Roles, p \in Pids : Names(s, p)' => Names(s, p) /\ process'[p] = process[p]
    BY <1>4, <1>6 DEF Names
  <2>5. child[l] # None => process'[child[l]] = process[child[l]]
    BY <1>6, <2>1
  <2>6. AtWork(l)'
    BY <2>1, <2>2, <2>4, <2>5 DEF AtWork
  <2>7. pc[l] # "idle" => \A p \in Pids :
          process'[p] # None /\ process'[p].command = command[l].number => process'[p] = process[p]
    BY <1>1, <1>4, <1>6, <2>1, <2>3 DEF AtWork
  <2>8. \A s \in ToSet(started[l]), p \in Pids :
          Names(s, p)' => process'[p].command = command[l].number
    BY <2>1, <2>4 DEF OwnOnly
  <2>9. ASSUME pc[l] \in Uping, NEW p \in Pids, process'[p] # None,
               process'[p].command = command[l].number
        PROVE  child[l] = p \/ (process'[p].role \in ToSet(started[l]) /\ Names(process[p].role, p)')
    <3>1. process'[p] = process[p]
      BY <2>7, <2>9 DEF Uping
    <3>. QED
      BY <1>6, <2>1, <2>9, <3>1 DEF OwnOnly
  <2>10. ASSUME pc[l] \in Stopping, command[l].action = "up", command[l].number \notin cut,
                NEW p \in Pids, process'[p] # None, process'[p].command = command[l].number
         PROVE  \/ process'[p].termed
                \/ process'[p].role \in ToSet(todo[l]) /\ Names(process[p].role, p)'
    <3>1. process'[p] = process[p]
      BY <2>7, <2>10 DEF Stopping
    <3>. QED
      BY <1>6, <2>1, <2>10, <3>1 DEF OwnOnly
  <2>11. OwnOnly(l)'
    BY <2>1, <2>2, <2>8, <2>9, <2>10 DEF OwnOnly
  <2>. QED
    BY <2>6, <2>11
<1>9. Budget'
  <2>1. ASSUME NEW l \in Launchers
        PROVE  Ahead(l)' <= 2 /\ ticks' + Ahead(l)' <= MaxOthers + 2 * commands'
    <3>1. Ahead(l)' = Ahead(l)
      BY <1>5 DEF Ahead, shell
    <3>2. /\ Ahead(l) \in Nat /\ Ahead(l) <= 2 /\ ticks + Ahead(l) <= MaxOthers + 2 * commands
          /\ Ahead(l) # 0 => commands # 0
      <4>1. AtWork(l) /\ todo[l] \in Seq(Roles)
        BY Facts
      <4>2. Ahead(l) \in Nat /\ (Ahead(l) # 0 => pc[l] # "idle")
        BY <4>1, Elements DEF Ahead, AtWork
      <4>3. Ahead(l) # 0 => commands # 0
        BY <1>1, <4>1, <4>2 DEF AtWork
      <4>. QED
        BY <1>1, <4>2, <4>3 DEF Budget
    <3>3. CASE Ahead(l) = 0
      BY <1>1, <1>3, <1>5, <3>1, <3>3
    <3>4. CASE Ahead(l) # 0
      <4>1. ticks + 1 + Ahead(l) <= MaxOthers + 2 * commands
        BY <1>1, <1>2, <3>2, <3>4, Counts
      <4>. QED
        BY <1>5, <3>1, <3>2, <4>1
    <3>. QED
      BY <3>3, <3>4
  <2>. QED
    BY <1>3, <1>5, <2>1 DEF Budget
<1>10. ServicesAreTracked'
  <2> SUFFICES ASSUME NEW p \in Pids, Service(p)' PROVE Tracked(p)'
    BY DEF ServicesAreTracked
  <2>1. process'[p] = process[p] /\ Service(p)
    BY <1>4, <1>6 DEF Service
  <2>. QED
    BY <1>1, <1>5, <2>1 DEF ServicesAreTracked, Tracked, shell, history
<1>11. FailedUpCleansUpRecorded' /\ SignalsOnlyItsOwn'
  <2>1. 0 \notin failedUps
    BY <1>1 DEF Shapes
  <2>. QED
    BY <1>1, <1>4, <1>5, <1>6, <2>1
       DEF FailedUpCleansUpRecorded, SignalsOnlyItsOwn, OnlyOwnServiceIsSignalled,
           UpStopsOnlyItsOwn, history
<1>. QED
  BY <1>6, <1>7, <1>8, <1>9, <1>10, <1>11 DEF HostInv

(* A process ends: whatever was told of it holds of nothing.               *)
LEMMA DieKeeps ==
  ASSUME HostInv, NEW q \in Pids, Die(q)
  PROVE  HostInv'
<1>1. /\ Shapes /\ ProcessInv /\ FileInv /\ Budget /\ ServicesAreTracked
      /\ FailedUpCleansUpRecorded /\ SignalsOnlyItsOwn
  BY DEF HostInv
<1>2. process' = [process EXCEPT ![q] = None] /\ UNCHANGED <<boot, ticks, pidfile, lock, shell, history>>
  BY DEF Die
<1>3. /\ process' \in [Pids -> Process \cup {None}]
      /\ \A p \in Pids : process'[p] # None => process'[p] = process[p]
  BY <1>1, <1>2 DEF Shapes
<1>4. \A r \in Roles, p \in Pids : Names(r, p)' <=> Names(r, p) /\ process'[p] # None
  BY <1>2, <1>3 DEF Names
<1>5. Shapes' /\ ProcessInv' /\ FileInv' /\ Budget'
  <2>1. Shapes' /\ ProcessInv' /\ Budget'
    BY <1>1, <1>2, <1>3 DEF Shapes, ProcessInv, Budget, Ahead, shell, history
  <2>2. FileInv'
    BY <1>1, <1>2, <1>3, <1>4 DEF FileInv
  <2>. QED
    BY <2>1, <2>2
<1>6. ASSUME NEW l \in Launchers PROVE AtWork(l)' /\ OwnOnly(l)'
  <2>1. /\ AtWork(l) /\ OwnOnly(l) /\ todo[l] \in Seq(Roles) /\ started[l] \in Seq(Roles)
        /\ child[l] \in Pids \cup {None} /\ ToSet(started[l]) \subseteq Roles
        /\ ToSet(todo[l]) \subseteq Roles
        /\ todo[l] # <<>> => Head(todo[l]) \in Roles
    BY Facts, Elements
  <2>2. UNCHANGED <<pidfile, lock, commands, command, pc, todo, started, child, failedUps, cut,
                    unwritten>>
    BY <1>2 DEF shell, history
  <2>3. AtWork(l)'
    BY <1>3, <1>4, <2>1, <2>2 DEF AtWork
  <2>4. \A s \in ToSet(started[l]), p \in Pids :
          Names(s, p)' => process'[p].command = command[l].number
    BY <1>3, <1>4, <2>1 DEF OwnOnly
  <2>5. ASSUME pc[l] \in Uping, NEW p \in Pids, process'[p] # None,
               process'[p].command = command[l].number
        PROVE  child[l] = p \/ (process'[p].role \in ToSet(started[l]) /\ Names(process[p].role, p)')
    <3>1. process'[p] = process[p]
      BY <1>3, <2>5
    <3>. QED
      BY <1>4, <2>1, <2>5, <3>1 DEF OwnOnly
  <2>6. ASSUME pc[l] \in Stopping, command[l].action = "up", command[l].number \notin cut,
               NEW p \in Pids, process'[p] # None, process'[p].command = command[l].number
        PROVE  \/ process'[p].termed
               \/ process'[p].role \in ToSet(todo[l]) /\ Names(process[p].role, p)'
    <3>1. process'[p] = process[p]
      BY <1>3, <2>6
    <3>. QED
      BY <1>4, <2>1, <2>6, <3>1 DEF OwnOnly
  <2>7. OwnOnly(l)'
    BY <2>1, <2>2, <2>4, <2>5, <2>6 DEF OwnOnly
  <2>. QED
    BY <2>3, <2>7
<1>7. ServicesAreTracked'
  <2> SUFFICES ASSUME NEW p \in Pids, Service(p)' PROVE Tracked(p)'
    BY DEF ServicesAreTracked
  <2>1. process'[p] = process[p] /\ Service(p)
    BY <1>3 DEF Service
  <2>. QED
    BY <1>1, <1>2, <2>1 DEF ServicesAreTracked, Tracked, shell, history
<1>8. FailedUpCleansUpRecorded' /\ SignalsOnlyItsOwn'
  BY <1>1, <1>2, <1>3
     DEF FailedUpCleansUpRecorded, SignalsOnlyItsOwn, OnlyOwnServiceIsSignalled,
         UpStopsOnlyItsOwn, history
<1>. QED
  BY <1>5, <1>6, <1>7, <1>8 DEF HostInv

(* After a reboot the pid files that are left are of earlier boots.        *)
LEMMA RebootKeeps ==
  ASSUME HostInv, Reboot
  PROVE  HostInv'
<1>1. /\ Shapes /\ FileInv /\ Budget /\ SignalsOnlyItsOwn /\ boot \in Nat /\ commands \in Nat
      /\ MaxOthers \in Nat
  BY HostAssumption DEF HostInv, Shapes
<1>2. /\ boot' = boot + 1 /\ ticks' = 0 /\ boot < MaxBoots
      /\ process' = [p \in Pids |-> None] /\ lock' = None
      /\ command' = [l \in Launchers |-> Idle] /\ pc' = [l \in Launchers |-> "idle"]
      /\ todo' = [l \in Launchers |-> <<>>] /\ started' = [l \in Launchers |-> <<>>]
      /\ child' = [l \in Launchers |-> None]
      /\ UNCHANGED <<pidfile, commands, signalled, failedUps, cut, unwritten>>
  BY DEF Reboot, history
<1>3. Idle \in Commands
  <2>1. <<"server">> \in RoleLists /\ 0 \in 0..MaxCommands
    BY HostAssumption DEF RoleLists
  <2>. QED
    BY <2>1 DEF Idle, Commands
<1>4. Shapes'
  <2>1. boot' \in 1..MaxBoots
    BY <1>1, <1>2, HostAssumption
  <2>2. <<>> \in Seq(Roles)
    OBVIOUS
  <2>. QED
    BY <1>1, <1>2, <1>3, <2>1, <2>2 DEF Shapes
<1>5. \A p \in Pids : process'[p] = None
  BY <1>2
<1>6. ProcessInv' /\ ServicesAreTracked' /\ FailedUpCleansUpRecorded'
  BY <1>5 DEF ProcessInv, ServicesAreTracked, Service, FailedUpCleansUpRecorded
<1>7. FileInv'
  <2> SUFFICES ASSUME NEW r \in Roles, pidfile[r] # None
               PROVE  pidfile[r].boot <= boot' /\ pidfile[r].boot # boot'
    BY <1>2, <1>5 DEF FileInv, Names
  <2>1. pidfile[r].boot \in Nat /\ pidfile[r].boot <= boot
    BY <1>1 DEF FileInv, Shapes, Files
  <2>. QED
    BY <1>1, <1>2, <2>1
<1>8. \A l \in Launchers : AtWork(l)' /\ OwnOnly(l)' /\ Ahead(l)' = 0
  <2> SUFFICES ASSUME NEW l \in Launchers PROVE AtWork(l)' /\ OwnOnly(l)' /\ Ahead(l)' = 0
    OBVIOUS
  <2>1. pc'[l] = "idle" /\ started'[l] = <<>> /\ child'[l] = None
    BY <1>2
  <2>. QED
    BY <2>1 DEF AtWork, OwnOnly, Ahead, ToSet, Uping, Stopping
<1>9. Budget'
  <2>1. PICK m \in Nat : m = MaxOthers + 2 * commands'
    BY <1>1, <1>2
  <2>. QED
    BY <1>2, <1>8, <2>1 DEF Budget
<1>10. SignalsOnlyItsOwn'
  BY <1>1, <1>2 DEF SignalsOnlyItsOwn, OnlyOwnServiceIsSignalled, UpStopsOnlyItsOwn
<1>. QED
  BY <1>4, <1>6, <1>7, <1>8, <1>9, <1>10 DEF HostInv

LEMMA LeavesKeep ==
  ASSUME HostInv, NEW l \in Launchers, Check(l) \/ Recheck(l), Exit(l)
  PROVE  HostInv'
<1>1. /\ pc[l] \in {"check", "recheck"} /\ UNCHANGED <<host, pidfile, history>>
  BY DEF Check, Recheck
<1>2. FailedUpCleansUpRecorded' /\ failedUps' \subseteq 1..commands
  BY <1>1, FailedStay, Facts DEF Lives, host, history, HostInv, Shapes
<1>. QED
  BY <1>1, <1>2, ExitKeeps DEF history

LEMMA HostFirst ==
  ASSUME Init
  PROVE  HostInv
<1>1. Idle \in Commands
  <2>1. <<"server">> \in RoleLists /\ 0 \in 0..MaxCommands
    BY HostAssumption DEF RoleLists
  <2>. QED
    BY <2>1 DEF Idle, Commands
<1>2. Shapes
  <2>1. <<>> \in Seq(Roles) /\ 1 \in 1..MaxBoots /\ 0 \in 0..MaxCommands
    BY HostAssumption
  <2>. QED
    BY <1>1, <2>1 DEF Init, Shapes
<1>3. ProcessInv /\ FileInv /\ ServicesAreTracked /\ FailedUpCleansUpRecorded
  BY DEF Init, ProcessInv, FileInv, ServicesAreTracked, Service, FailedUpCleansUpRecorded, Names
<1>4. \A l \in Launchers : AtWork(l) /\ OwnOnly(l) /\ Ahead(l) = 0
  BY DEF Init, AtWork, OwnOnly, Ahead, ToSet, Uping, Stopping
<1>5. Budget
  <2>1. PICK m \in Nat : m = MaxOthers + 2 * commands
    BY HostAssumption DEF Init
  <2>. QED
    BY <1>4, <2>1 DEF Budget, Init
<1>6. SignalsOnlyItsOwn
  BY DEF Init, SignalsOnlyItsOwn, OnlyOwnServiceIsSignalled, UpStopsOnlyItsOwn
<1>. QED
  BY <1>2, <1>3, <1>4, <1>5, <1>6 DEF HostInv

LEMMA HostNext ==
  ASSUME HostInv, [Next]_vars
  PROVE  HostInv'
<1>1. ASSUME NEW l \in Launchers, NEW what \in {"up", "down"}, NEW cli \in BOOLEAN,
             NEW roles \in RoleLists, Begin(l, what, cli, roles)
      PROVE  HostInv'
  BY <1>1, BeginKeeps
<1>2. ASSUME NEW l \in Launchers, Check(l) PROVE HostInv'
  <2>1. Exit(l) \/ pc' = [pc EXCEPT ![l] = "start"]
    BY <1>2 DEF Check, Goto
  <2>2. CASE Exit(l)
    BY <1>2, <2>2, LeavesKeep
  <2>3. CASE pc' = [pc EXCEPT ![l] = "start"]
    <3>1. pc'[l] # "idle"
      BY <2>3 DEF HostInv, Shapes
    <3>. QED
      BY <1>2, <3>1, UpGoesOn
  <2>. QED
    BY <2>1, <2>2, <2>3
<1>3. ASSUME NEW l \in Launchers, Probe(l) PROVE HostInv'
  <2>1. Fail(l) \/ pc' = [pc EXCEPT ![l] = "recheck"]
    BY <1>3 DEF Probe, Goto
  <2>2. CASE pc' = [pc EXCEPT ![l] = "recheck"]
    <3>1. pc'[l] = "recheck"
      BY <2>2 DEF HostInv, Shapes
    <3>. QED
      BY <1>3, <3>1, UpGoesOn
  <2>. QED
    BY <1>3, <2>1, <2>2, FailuresKeep
<1>4. ASSUME NEW l \in Launchers, Recheck(l) PROVE HostInv'
  <2>1. Exit(l) \/ Fail(l)
    BY <1>4 DEF Recheck
  <2>. QED
    BY <1>4, <2>1, LeavesKeep, FailuresKeep
<1>5. ASSUME NEW l \in Launchers, Up(l) PROVE HostInv'
  BY <1>2, <1>3, <1>4, <1>5, UpGoesOn, ClaimKeeps, SpawnKeeps, RecordKeeps, FailuresKeep DEF Up
<1>6. ASSUME NEW l \in Launchers, Down(l) PROVE HostInv'
  BY <1>6, DropsKeep, TerminateKeeps, AllStoppedKeeps DEF Down
<1>7. ASSUME NEW l \in Launchers, Interrupt(l) \/ Kill(l) PROVE HostInv'
  BY <1>7, FailuresKeep, KillKeeps
<1>8. ASSUME NEW q \in Pids, Die(q) \/ OtherStarts(q) PROVE HostInv'
  BY <1>8, DieKeeps, OtherKeeps
<1>9. CASE UNCHANGED vars
  <2>1. UNCHANGED <<boot, ticks, process, pidfile, lock, commands, command, pc, todo, started,
                    child, signalled, failedUps, cut, unwritten>>
    BY <1>9 DEF vars, host, shell, history
  <2>2. Shapes' /\ ProcessInv' /\ FileInv' /\ Budget'
    BY <2>1 DEF HostInv, Shapes, ProcessInv, FileInv, Budget, Ahead, Names
  <2>3. \A l \in Launchers : AtWork(l)' /\ OwnOnly(l)'
    BY <2>1 DEF HostInv, AtWork, OwnOnly, Names
  <2>4. SignalsOnlyItsOwn' /\ ServicesAreTracked' /\ FailedUpCleansUpRecorded'
    BY <2>1 DEF HostInv, SignalsOnlyItsOwn, OnlyOwnServiceIsSignalled, UpStopsOnlyItsOwn,
                ServicesAreTracked, Service, Tracked, FailedUpCleansUpRecorded
  <2>. QED
    BY <2>2, <2>3, <2>4 DEF HostInv
<1>. QED
  BY <1>1, <1>5, <1>6, <1>7, <1>8, <1>9, RebootKeeps DEF Next, Step

-----------------------------------------------------------------------------
(* TERM reaches only the service the pid file was written for, and of an   *)
(* up that fails only what it has started itself: whatever pids are used   *)
(* again, in this boot or after another, and wherever commands are cut.    *)
THEOREM OnlyItsOwnIsSignalled == Spec => []SignalsOnlyItsOwn
<1>1. HostInv => SignalsOnlyItsOwn
  BY DEF HostInv
<1>. QED
  BY <1>1, HostFirst, HostNext, PTL DEF Spec

(* An up that has cleaned up has told whatever it started to stop, but for *)
(* a process that an interrupt kept from its pid file.                     *)
THEOREM FailedUpIsUndone == Spec => []FailedUpCleansUpRecorded
<1>1. HostInv => FailedUpCleansUpRecorded
  BY DEF HostInv
<1>. QED
  BY <1>1, HostFirst, HostNext, PTL DEF Spec

(* A pid file names one process, and a child is of a role without one.     *)
LEMMA TrackedOnce ==
  ASSUME HostInv
  PROVE  NoTwins
<1> SUFFICES ASSUME NEW p \in Pids, NEW q \in Pids, p # q, Service(p), Service(q),
                    process[p].role = process[q].role,
                    process[p].command \notin cut \cup unwritten,
                    process[q].command \notin cut \cup unwritten
             PROVE  FALSE
  BY DEF NoTwins
<1>1. PICK r \in Roles : r = process[p].role /\ r = process[q].role
  BY DEF HostInv, Shapes, Process, Service
<1>2. /\ Names(r, p) \/ \E l \in Launchers : child[l] = p
      /\ Names(r, q) \/ \E l \in Launchers : child[l] = q
  BY <1>1 DEF HostInv, ServicesAreTracked, Tracked, Service, Names
<1>3. Shapes /\ None \notin Pids
  BY HostAssumption DEF HostInv
<1>4. ASSUME NEW l \in Launchers, NEW x \in Pids, child[l] = x, Service(x), process[x].role = r
      PROVE  \A y \in Pids : ~Names(r, y)
  <2>1. pc[l] = "record" /\ Head(todo[l]) = r /\ pidfile[r] = None
    BY <1>3, <1>4 DEF HostInv, AtWork, Service
  <2>. QED
    BY <1>3, <2>1, RunningNames
<1>5. ASSUME NEW l \in Launchers, NEW k \in Launchers, child[l] = p, child[k] = q
      PROVE  FALSE
  <2>1. pc[l] = "record" /\ child[k] # None
    BY <1>3, <1>5 DEF HostInv, AtWork
  <2>. QED
    BY <1>5, <2>1, Alone
<1>6. ~(Names(r, p) /\ Names(r, q))
  BY <1>3, RunningNames
<1>. QED
  BY <1>1, <1>2, <1>4, <1>5, <1>6

(* A service that runs is found by its pid file, and runs once for its     *)
(* role, but for copies that were never recorded.                          *)
THEOREM TrackedAndOnce == Spec => []OneTrackedServiceEach
<1>1. HostInv => TypeOK
  <2> SUFFICES ASSUME HostInv PROVE TypeOK
    OBVIOUS
  <2>1. Shapes /\ Budget /\ MaxOthers \in Nat /\ MaxCommands \in Nat
    BY HostAssumption DEF HostInv
  <2>2. ticks \in 0..(MaxOthers + 2 * MaxCommands)
    <3>1. ticks \in Nat /\ commands \in Nat /\ commands <= MaxCommands
      BY <2>1 DEF Shapes
    <3>2. ticks <= MaxOthers + 2 * MaxCommands
      BY <2>1, <3>1, MoreCommands DEF Budget
    <3>. QED
      BY <2>1, <3>1, <3>2
  <2>3. \A r \in Roles : pidfile[r] = None
          \/ pidfile[r] \in [pid : Pids, start : StartTimes, boot : 1..MaxBoots]
    BY <2>1 DEF Shapes, Files
  <2>4. ASSUME NEW l \in Launchers
        PROVE  /\ pc[l] \in {"idle", "check", "start", "spawn", "record", "probe", "recheck",
                             "stop", "wait"}
               /\ pc[l] # "idle" => lock = l
               /\ ToSet(todo[l]) \cup ToSet(started[l]) \subseteq Roles
               /\ child[l] \in Pids \cup {None}
               /\ pc[l] = "record" <=> child[l] # None
    BY Facts, Elements DEF AtWork, Uping, Stopping
  <2>. QED
    BY <2>1, <2>2, <2>3, <2>4 DEF TypeOK, Shapes
<1>2. HostInv => OneTrackedServiceEach
  BY <1>1, TrackedOnce DEF OneTrackedServiceEach, HostInv
<1>. QED
  BY <1>2, HostFirst, HostNext, PTL DEF Spec

=============================================================================
